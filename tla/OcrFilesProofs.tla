---------------------------- MODULE OcrFilesProofs ----------------------------
(***************************************************************************)
(* Theorems about OcrFiles, for any clients, books, pages, processes and   *)
(* limits, any kind of old files, and any number of edits and crashes.     *)
(*                                                                         *)
(* LegacyMigration: the last name of a file is never lost, a file another  *)
(* program wrote stands, and a sealed transaction is whole.                *)
(*                                                                         *)
(* OcrLocks: two publications are never inside the transaction together.   *)
(*                                                                         *)
(* PageCache: what a client works with nobody takes away, and a            *)
(* reservation is refused only for a reason.                               *)
(***************************************************************************)
EXTENDS OcrFiles, FiniteSetTheorems, TLAPS

-----------------------------------------------------------------------------
(* The phases of the journal *)

\* A note goes through nine phases.
LEMMA NotePhases ==
    ASSUME kind = "note" PROVE
    /\ Phases = <<"intent", "prepared", "backup_published", "artifact_published",
          "source_swap_prepared", "final_published", "manifest_linked", "manifest_published", "commit_ready">>
    /\ ToSet(Phases) = {"intent", "prepared", "backup_published", "artifact_published",
          "source_swap_prepared", "final_published", "manifest_linked", "manifest_published", "commit_ready"}
    /\ IndexOf("intent") = 1 /\ IndexOf("prepared") = 2
    /\ IndexOf("backup_published") = 3 /\ IndexOf("artifact_published") = 4
    /\ IndexOf("source_swap_prepared") = 5 /\ IndexOf("final_published") = 6
    /\ IndexOf("manifest_linked") = 7 /\ IndexOf("manifest_published") = 8
    /\ IndexOf("commit_ready") = 9
<1>1. Phases = <<"intent", "prepared", "backup_published", "artifact_published",
          "source_swap_prepared", "final_published", "manifest_linked", "manifest_published", "commit_ready">>
  BY DEF Phases
<1>2. ToSet(Phases) = {"intent", "prepared", "backup_published", "artifact_published",
          "source_swap_prepared", "final_published", "manifest_linked", "manifest_published", "commit_ready"}
  BY <1>1 DEF ToSet
<1>3. ASSUME NEW i \in 1..9 PROVE IndexOf(Phases[i]) = i
  <2>1. Len(Phases) = 9 BY <1>1
  <2>2. \A j \in 1..Len(Phases) : Phases[j] = Phases[i] => j = i BY <1>1, <2>1
  <2> QED BY <2>1, <2>2 DEF IndexOf
<1> QED BY <1>1, <1>2, <1>3

\* A book without a note goes through six,
LEMMA PlainPhases ==
    ASSUME kind = "plain" PROVE
    /\ Phases = <<"intent", "prepared", "backup_published", "source_swap_prepared",
          "final_published", "commit_ready">>
    /\ ToSet(Phases) = {"intent", "prepared", "backup_published", "source_swap_prepared",
          "final_published", "commit_ready"}
    /\ IndexOf("intent") = 1 /\ IndexOf("prepared") = 2
    /\ IndexOf("backup_published") = 3 /\ IndexOf("source_swap_prepared") = 4
    /\ IndexOf("final_published") = 5 /\ IndexOf("commit_ready") = 6
<1>1. Phases = <<"intent", "prepared", "backup_published", "source_swap_prepared",
          "final_published", "commit_ready">>
  BY DEF Phases
<1>2. ToSet(Phases) = {"intent", "prepared", "backup_published", "source_swap_prepared",
          "final_published", "commit_ready"}
  BY <1>1 DEF ToSet
<1>3. ASSUME NEW i \in 1..6 PROVE IndexOf(Phases[i]) = i
  <2>1. Len(Phases) = 6 BY <1>1
  <2>2. \A j \in 1..Len(Phases) : Phases[j] = Phases[i] => j = i BY <1>1, <2>1
  <2> QED BY <2>1, <2>2 DEF IndexOf
<1> QED BY <1>1, <1>2, <1>3

\* and so does a run that goes on.
LEMMA RunningPhases ==
    ASSUME kind = "running" PROVE
    /\ Phases = <<"intent", "prepared", "backup_published", "source_swap_prepared",
          "state_published", "commit_ready">>
    /\ ToSet(Phases) = {"intent", "prepared", "backup_published", "source_swap_prepared",
          "state_published", "commit_ready"}
    /\ IndexOf("intent") = 1 /\ IndexOf("prepared") = 2
    /\ IndexOf("backup_published") = 3 /\ IndexOf("source_swap_prepared") = 4
    /\ IndexOf("state_published") = 5 /\ IndexOf("commit_ready") = 6
<1>1. Phases = <<"intent", "prepared", "backup_published", "source_swap_prepared",
          "state_published", "commit_ready">>
  BY DEF Phases
<1>2. ToSet(Phases) = {"intent", "prepared", "backup_published", "source_swap_prepared",
          "state_published", "commit_ready"}
  BY <1>1 DEF ToSet
<1>3. ASSUME NEW i \in 1..6 PROVE IndexOf(Phases[i]) = i
  <2>1. Len(Phases) = 6 BY <1>1
  <2>2. \A j \in 1..Len(Phases) : Phases[j] = Phases[i] => j = i BY <1>1, <2>1
  <2> QED BY <2>1, <2>2 DEF IndexOf
<1> QED BY <1>1, <1>2, <1>3

Early == {"intent", "prepared", "backup_published", "artifact_published"}
Late == {"final_published", "state_published", "manifest_linked", "manifest_published", "commit_ready"}

\* A phase that the kind of the old files has.
Fits(p) ==
    /\ p \in {"artifact_published", "manifest_linked", "manifest_published"} => HasNote
    /\ p = "final_published" => kind # "running"
    /\ p = "state_published" => kind = "running"

PhaseNow == kind \in Kinds /\ Journal \in AllPhases \cup {Nothing} /\ Fits(Journal)

\* What it means that the journal has come to a phase.
LEMMA Reached ==
    ASSUME PhaseNow PROVE
    /\ kind \in {"note", "plain", "running"}
    /\ AtLeast("prepared") <=> Journal \notin {Nothing, "intent"}
    /\ AtLeast("backup_published") <=> Journal \notin {Nothing, "intent", "prepared"}
    /\ AtLeast("artifact_published") <=> HasNote /\ Journal \notin {Nothing, "intent", "prepared", "backup_published"}
    /\ Exchanged <=> Journal \in Late
    /\ AtLeast("manifest_linked") <=> HasNote /\ Journal \in {"manifest_linked", "manifest_published", "commit_ready"}
    /\ AtLeast("commit_ready") <=> Journal = "commit_ready"
<1> USE FilesAssumption DEF KindsAssumption, PhaseNow, Fits, AllPhases, Nothing, HasNote, Late, Exchanged, AtLeast
<1>1. CASE kind = "note" BY <1>1, NotePhases
<1>2. CASE kind = "plain" BY <1>2, PlainPhases
<1>3. CASE kind = "running" BY <1>3, RunningPhases
<1> QED BY <1>1, <1>2, <1>3

\* The phase that follows.
LEMMA Following ==
    ASSUME PhaseNow, Journal # "commit_ready", Journal # Nothing PROVE
    /\ NextPhase \in AllPhases /\ Fits(NextPhase)
    /\ Journal = "intent" => NextPhase = "prepared"
    /\ Journal = "prepared" => NextPhase = "backup_published"
    /\ Journal = "backup_published" =>
            NextPhase = IF HasNote THEN "artifact_published" ELSE "source_swap_prepared"
    /\ Journal = "artifact_published" => NextPhase = "source_swap_prepared"
    /\ Journal = "source_swap_prepared" =>
            NextPhase = IF kind = "running" THEN "state_published" ELSE "final_published"
    /\ Journal = "final_published" =>
            NextPhase = IF HasNote THEN "manifest_linked" ELSE "commit_ready"
    /\ Journal = "manifest_linked" => NextPhase = "manifest_published"
    /\ Journal \in {"manifest_published", "state_published"} => NextPhase = "commit_ready"
<1> USE FilesAssumption DEF KindsAssumption, PhaseNow, Fits, AllPhases, Nothing, HasNote, NextPhase
<1>1. CASE kind = "note" BY <1>1, NotePhases
<1>2. CASE kind = "plain" BY <1>2, PlainPhases
<1>3. CASE kind = "running" BY <1>3, RunningPhases
<1> QED BY <1>1, <1>2, <1>3

-----------------------------------------------------------------------------
(* The invariant of the migration *)

\* Each place holds only what belongs there, or what another program wrote.
Belongs ==
    /\ at["source"] \in {"old", "new", Foreign}
    /\ at["backup"] \in {Nothing, "backup", Foreign}
    /\ at["artifact"] \in {Nothing, "artifact", Foreign}
    /\ at["publication"] \in {Nothing, "manifest", Foreign}
    /\ at["swap"] \in {Nothing, "new", "old", Foreign}
    /\ at["swap-retired"] \in {Nothing, "old"}
    /\ at["candidate"] \in {Nothing, "manifest"}
    /\ at["manifest-retired"] \in {Nothing, "manifest"}
    /\ at["manifest-aborted"] \in {Nothing, "manifest"}
    /\ at["anchor"] \in {Nothing, "anchor"}
    /\ at["anchor-retired"] \in {Nothing, "anchor"}
    /\ at["journal"] \in AllPhases \cup {Nothing} /\ Fits(Journal)
    /\ at["journal-retired"] \in {Nothing, "commit_ready"}
    /\ at["commit"] \in {Nothing, "commit"}
    /\ at["done"] \in {Nothing, "commit"}
    /\ at["sealed"] \in {Nothing, "commit"}

\* What is moved away is in one place only.
Alone(p, q) == at[p] = Nothing \/ at[q] = Nothing
Once ==
    /\ Alone("swap", "swap-retired") /\ Alone("candidate", "manifest-retired")
    /\ Alone("anchor", "anchor-retired") /\ Alone("journal", "journal-retired")
    /\ Alone("commit", "done") /\ Alone("commit", "sealed") /\ Alone("done", "sealed")

\* The witness follows the journal.
Pending == at["commit"] # Nothing \/ at["done"] # Nothing \/ at["sealed"] # Nothing
Witness ==
    /\ at["commit"] # Nothing => Journal = "commit_ready"
    /\ at["done"] # Nothing \/ at["sealed"] # Nothing => at["journal-retired"] # Nothing
    /\ at["journal-retired"] # Nothing => Pending
    /\ at["done"] # Nothing \/ at["sealed"] # Nothing \/ mode = "committing" =>
            at["swap-retired"] = "old"

\* The file of a label has been at its target just when its receipt says so.
Arrived(l) == sidecar[l].file = "target"
Receipts ==
    /\ \A l \in Labels : sidecar[l].receipt = "published" => sidecar[l].file = "target"
    /\ ~Arrived("anchor") => at["anchor"] = Nothing /\ at["anchor-retired"] = Nothing
    /\ Arrived("anchor") => at["anchor"] # Nothing \/ at["anchor-retired"] # Nothing
    /\ ~Arrived("manifest") => at["candidate"] = Nothing /\ at["manifest-retired"] = Nothing
    /\ ~Arrived("swap") => at["swap"] = Nothing /\ at["swap-retired"] = Nothing
    /\ Arrived("backup") => at["backup"] = "backup" \/ "backup" \in edited
    /\ Arrived("artifact") => at["artifact"] = "artifact" \/ "artifact" \in edited
    /\ Arrived("commit") <=> Pending

\* The files of a label are there from the phase on that publishes them, not before.
Before(l, phases) == Journal \in phases \cup {Nothing} => ~Arrived(l)
Since(l, phases) == Journal \notin phases \cup {Nothing} => sidecar[l].receipt = "published"
Progress ==
    /\ Before("anchor", {}) /\ Since("anchor", {"intent"})
    /\ Before("manifest", {})
    /\ Before("backup", {"intent"}) /\ Since("backup", {"intent", "prepared"})
    /\ Before("artifact", {"intent", "prepared"})
    /\ HasNote => Since("artifact", {"intent", "prepared", "backup_published"})
    /\ Before("swap", {"intent", "prepared"}) /\ Since("swap", Early)
    /\ Journal # "commit_ready" =>
        /\ ~Arrived("commit") /\ at["swap-retired"] = Nothing /\ at["anchor-retired"] = Nothing

\* The old and the new batch file.
Swapped ==
    /\ "source" \in edited <=> Foreign \in {at["source"], at["swap"]}
    /\ Journal \in Early \cup {Nothing} =>
            at["source"] # "new" /\ at["swap"] \in {Nothing, "new"}
    /\ Journal = "source_swap_prepared" =>
            \/ at["source"] \in {"old", Foreign} /\ at["swap"] = "new"
            \/ at["source"] = "new" /\ at["swap"] \in {"old", Foreign}
            \/ at["source"] = Foreign /\ at["swap"] = "old"
    /\ Journal \notin Early \cup {Nothing, "source_swap_prepared"} =>
            /\ at["source"] \in {"new", Foreign}
            /\ at["swap"] = "old" \/ at["swap-retired"] = "old"

\* The new batch file hides what another program wrote only until it is looked at.
Hidden ==
    at["swap"] = Foreign =>
        /\ at["source"] = "new" /\ Journal = "source_swap_prepared" /\ ~checked
        /\ mode \in {"swapped", "down", "opened", "work", "blocked"}
        /\ mode = "blocked" => edited # {"source"}

\* The manifest is published, unless it was replaced or withdrawn.
Withdrew == at["publication"] = Nothing /\ mode \in {"blocked", "restoring", "down", "opened"}
                /\ at["sealed"] = Nothing
Published ==
    HasNote /\ Journal \in {"manifest_linked", "manifest_published", "commit_ready"} =>
        at["publication"] = "manifest" \/ "publication" \in edited \/ Withdrew
Linked ==
    /\ at["publication"] = "manifest" =>
            HasNote /\ Journal \in {"final_published", "manifest_linked", "manifest_published", "commit_ready"}
    /\ Journal \in Early \cup {Nothing, "source_swap_prepared"} => stage["manifest_linked"] = Nothing
    /\ HasNote /\ Journal = "final_published" /\ stage["manifest_linked"] # Nothing =>
            at["publication"] = "manifest" \/ "publication" \in edited

\* What the process has found out holds while it acts on it.
Modes ==
    /\ mode \in {"opened", "begin", "staging", "work", "swapped", "bind", "withdraw", "tidying"} =>
            at["journal-retired"] = Nothing
    /\ mode = "withdraw" => Journal = "manifest_published"
    /\ mode = "begin" => at["journal"] = Nothing
    /\ mode \in {"swapped", "bind"} => Journal = "source_swap_prepared"
    /\ mode = "bind" \/ (mode = "staging" /\ Journal = "source_swap_prepared") =>
            at["swap"] = "old" /\ ~checked
    /\ mode = "work" /\ checked /\ Journal = "source_swap_prepared" =>
            at["source"] \in {"old", Foreign} /\ at["swap"] = "new"
    /\ mode \in {"tidying", "committing", "restoring"} => Journal = "commit_ready" /\ Arrived("commit")
    /\ mode \in {"committing", "restoring"} => at["sealed"] = Nothing
    /\ at["sealed"] # Nothing => mode \in {"closing", "down", "ended", "blocked"}
    /\ checked => mode \in {"work", "staging", "committing", "blocked"}

IInv ==
    /\ TypeOK /\ Belongs /\ Once /\ Witness /\ Receipts /\ Progress
    /\ Swapped /\ Hidden /\ Linked /\ Published /\ Modes

LEMMA Now == ASSUME IInv PROVE PhaseNow
BY DEF IInv, Belongs, PhaseNow, TypeOK, Journal, AllPhases, Fits, Nothing

-----------------------------------------------------------------------------
(* Steps that move no file *)

\* The files of the labels are where they were, and no published one is disowned.
SameReceipts ==
    \A l \in Labels :
        /\ Arrived(l)' <=> Arrived(l)
        /\ sidecar[l].receipt = "published" => sidecar'[l].receipt = "published"
        /\ sidecar'[l].receipt = "published" => sidecar'[l].file = "target"

\* They keep what is said of places, receipts and phases.
LEMMA Unmoved ==
    ASSUME IInv, UNCHANGED <<kind, at, edited>>, SameReceipts, TypeOK', Hidden', Linked', Published', Modes',
           mode' = "committing" => at["swap-retired"] = "old"
    PROVE  IInv'
<1>1. Journal' = Journal /\ Pending' = Pending /\ HasNote' = HasNote
  BY DEF Journal, Pending, HasNote
<1>2. Belongs' BY <1>1 DEF IInv, Belongs, Fits, HasNote
<1>3. Once' /\ Witness' BY <1>1 DEF IInv, Once, Alone, Witness
<1>4. Receipts' BY <1>1 DEF IInv, Receipts, SameReceipts, Labels
<1>5. Progress' BY <1>1 DEF IInv, Progress, Before, Since, SameReceipts, Labels
<1>6. Swapped' BY <1>1 DEF IInv, Swapped
<1> QED BY <1>2, <1>3, <1>4, <1>5, <1>6 DEF IInv

\* Most of them leave the receipts alone too.
LEMMA Still ==
    ASSUME IInv, UNCHANGED <<kind, at, sidecar, edited>>, TypeOK', Hidden', Published', Modes',
           stage'["manifest_linked"] = Nothing <=> stage["manifest_linked"] = Nothing,
           mode' = "committing" => at["swap-retired"] = "old"
    PROVE  IInv'
<1>1. Journal' = Journal BY DEF Journal
<1>2. SameReceipts BY DEF IInv, SameReceipts, Arrived, Receipts
<1>3. Linked' BY <1>1 DEF IInv, Linked, HasNote
<1> QED BY <1>2, <1>3, Unmoved

\* The journal is read: a transaction whose manifest was withdrawn is not resumed.
LEMMA ReadJournalKeeps == ASSUME IInv, ReadJournal PROVE IInv'
<1> USE DEF ReadJournal
<1>1. Journal' = Journal BY DEF Journal
<1>2. PhaseNow BY Now
<1>3. at["journal-retired"] = Nothing /\ (at["journal"] # Nothing => Journal = at["journal"])
  BY DEF IInv, Modes, Journal
<1>4. TypeOK' BY DEF IInv, TypeOK
<1>5. Hidden'
  <2>1. SUFFICES ASSUME at["swap"] = Foreign, edited = {"source"} PROVE mode' # "blocked"
    BY <1>1, <1>3 DEF IInv, Hidden, Journal, Nothing, Foreign
  <2>2. at["source"] = "new" /\ Journal = "source_swap_prepared" /\ at["journal"] # Nothing
    BY <2>1, <1>3 DEF IInv, Hidden, Journal, Nothing
  <2>3. BackupBound BY <2>1, <2>2 DEF IInv, BackupBound, Receipts, Progress, Since, Arrived, Nothing, Labels
  <2>4. ArtifactBound
    BY <2>1, <2>2, <1>2, Reached DEF IInv, ArtifactBound, Receipts, Progress, Since, Arrived, Nothing, Labels
  <2>5. ManifestBound /\ SwapBound BY <2>2, <1>2, Reached DEF ManifestBound, SwapBound, Late
  <2>6. AnchorBound
    BY <2>2 DEF IInv, AnchorBound, ActiveOrRetired, Receipts, Progress, Since, Arrived, Nothing, Labels, Belongs
  <2>7. Original BY <2>2, <2>3, <1>2, Reached DEF Original, Nothing
  <2> QED BY <2>2, <2>3, <2>4, <2>5, <2>6, <2>7 DEF Resumable
<1>6. Published'
  <2>1. SUFFICES ASSUME HasNote, Journal \in {"manifest_linked", "manifest_published", "commit_ready"},
                        at["publication"] # "manifest", "publication" \notin edited
                 PROVE  mode' = "blocked" /\ at["sealed"] = Nothing /\ at["publication"] = Nothing
    BY <1>1 DEF Published, Withdrew, HasNote
  <2>2. ~ManifestBound BY <2>1, <1>2, Reached DEF ManifestBound
  <2>3. Withdrew BY <2>1 DEF IInv, Published
  <2> QED BY <2>1, <2>2, <2>3, <1>3 DEF Withdrew, Resumable, Journal, Nothing
<1>7. Modes' BY <1>1, <1>3 DEF IInv, Modes, Arrived
<1> QED BY <1>4, <1>5, <1>6, <1>7, Still

LEMMA BeginKeeps == ASSUME IInv, Begin PROVE IInv'
<1> USE DEF Begin, NewJournal
<1>1. Journal' = Journal BY DEF Journal
<1>2. Journal = Nothing /\ at["journal-retired"] = Nothing BY DEF IInv, Modes, Journal
<1>3. TypeOK' BY DEF IInv, TypeOK, AllPhases
<1>4. Hidden' /\ Published' BY <1>1, <1>2 DEF IInv, Hidden, Published, Nothing
<1>5. Modes' BY <1>1, <1>2 DEF IInv, Modes, Arrived, Nothing
<1>6. stage'["manifest_linked"] = stage["manifest_linked"] BY DEF IInv, TypeOK, AllPhases
<1> QED BY <1>3, <1>4, <1>5, <1>6, Still

LEMMA EndStageKeeps == ASSUME IInv, EndStage PROVE IInv'
<1> USE DEF EndStage
<1>1. Journal' = Journal BY DEF Journal
<1>2. PICK p \in AllPhases : stage[p] = "torn" /\ stage' = [stage EXCEPT ![p] = "next"] OBVIOUS
<1>3. TypeOK' BY <1>2 DEF IInv, TypeOK
<1>4. Hidden' /\ Published' BY <1>1 DEF IInv, Hidden, Published, Withdrew, HasNote
<1>5. Modes' BY <1>1 DEF IInv, Modes, Arrived
<1>6. stage'["manifest_linked"] = Nothing <=> stage["manifest_linked"] = Nothing
  BY <1>2 DEF IInv, TypeOK, AllPhases, Nothing
<1> QED BY <1>3, <1>4, <1>5, <1>6, Still

LEMMA LookKeeps == ASSUME IInv, Look PROVE IInv'
<1> USE DEF Look, Working, Block
<1>1. Journal' = Journal BY DEF Journal
<1>2. TypeOK' BY DEF IInv, TypeOK
<1>3. Hidden' /\ Published' BY <1>1 DEF IInv, Hidden, Published, Withdrew, HasNote
<1>4. Modes' BY <1>1 DEF IInv, Modes, Arrived
<1> QED BY <1>2, <1>3, <1>4, Still

LEMMA NotBoundKeeps == ASSUME IInv, NotBound PROVE IInv'
<1> USE DEF NotBound, Working, Block
<1>1. Journal' = Journal BY DEF Journal
<1>2. TypeOK' BY DEF IInv, TypeOK
<1>3. Hidden' /\ Published' BY <1>1 DEF IInv, Hidden, Published, Withdrew, HasNote
<1>4. Modes' BY <1>1 DEF IInv, Modes, Arrived
<1> QED BY <1>2, <1>3, <1>4, Still

LEMMA LookAtSourceKeeps == ASSUME IInv, LookAtSource PROVE IInv'
<1> USE DEF LookAtSource, Swapping, Working, Block
<1>1. Journal' = Journal BY DEF Journal
<1>2. TypeOK' BY DEF IInv, TypeOK
<1>3. Hidden' BY <1>1 DEF IInv, Hidden, Swapped, Foreign
<1>4. Published' BY <1>1 DEF IInv, Published, Withdrew, HasNote
<1>5. Modes' BY <1>1 DEF IInv, Modes, Arrived
<1> QED BY <1>2, <1>3, <1>4, <1>5, Still

\* The transaction is committed only with its witness in place.
LEMMA StartCommitKeeps == ASSUME IInv, StartCommit PROVE IInv'
<1> USE DEF StartCommit, Working, Block
<1>1. Journal' = Journal BY DEF Journal
<1>2. Arrived("commit") BY DEF IInv, Receipts, AllWritten, Written, Arrived, Labels
<1>3. TypeOK' BY DEF IInv, TypeOK
<1>4. Hidden' /\ Published' BY <1>1 DEF IInv, Hidden, Published, Withdrew, HasNote
<1>5. Modes' BY <1>1, <1>2 DEF IInv, Modes, Arrived
<1> QED BY <1>3, <1>4, <1>5, Still

LEMMA CloseKeeps == ASSUME IInv, Close PROVE IInv'
<1> USE DEF Close
<1>1. Journal' = Journal BY DEF Journal
<1>2. TypeOK' BY DEF IInv, TypeOK
<1>3. Hidden' /\ Published' BY <1>1 DEF IInv, Hidden, Published, Withdrew, HasNote
<1>4. Modes' BY <1>1 DEF IInv, Modes, Arrived
<1> QED BY <1>2, <1>3, <1>4, Still

LEMMA CrashKeeps == ASSUME IInv, Crash PROVE IInv'
<1> USE DEF Crash
<1>1. Journal' = Journal BY DEF Journal
<1>0. crashes' \in 0 .. MaxCrashes BY FilesAssumption DEF IInv, TypeOK, BoundsAssumption
<1>2. TypeOK' BY <1>0 DEF IInv, TypeOK
<1>3. Hidden' /\ Published' BY <1>1 DEF IInv, Hidden, Published, Withdrew, HasNote
<1>4. Modes' BY <1>1 DEF IInv, Modes, Arrived
<1> QED BY <1>2, <1>3, <1>4, Still

-----------------------------------------------------------------------------
(* Steps that move files *)

Objects == AllPhases \union Labels \union {Nothing, Foreign, "old", "new"}
Others(S) == \A q \in Places \ S : at'[q] = at[q]

LEMMA Put ==
    ASSUME TypeOK, NEW p \in Places, NEW v \in Objects, at' = [at EXCEPT ![p] = v]
    PROVE  at' \in [Places -> Objects] /\ at'[p] = v /\ Others({p})
BY DEF TypeOK, Objects, Others

LEMMA Move ==
    ASSUME TypeOK, NEW p \in Places, NEW q \in Places, p # q, NEW v \in Objects, NEW w \in Objects,
           at' = [at EXCEPT ![p] = v, ![q] = w]
    PROVE  at' \in [Places -> Objects] /\ at'[p] = v /\ at'[q] = w /\ Others({p, q})
BY DEF TypeOK, Objects, Others

LEMMA Exchanging ==
    ASSUME TypeOK, at' = Exchange
    PROVE  /\ at' \in [Places -> Objects]
           /\ at'["source"] = at["swap"] /\ at'["swap"] = at["source"] /\ Others({"source", "swap"})
<1>1. "source" \in Places /\ "swap" \in Places /\ "source" # "swap" BY DEF Places
<1>2. at["source"] \in Objects /\ at["swap"] \in Objects BY <1>1 DEF TypeOK, Objects
<1>3. at' = [at EXCEPT !["source"] = at["swap"], !["swap"] = at["source"]] BY DEF Exchange
<1>4. at' \in [Places -> Objects] BY <1>1, <1>2, <1>3 DEF TypeOK, Objects
<1> QED BY <1>1, <1>3, <1>4 DEF TypeOK, Others

LEMMA ExchangeSourceKeeps == ASSUME IInv, ExchangeSource PROVE IInv'
<1> USE DEF ExchangeSource, Swapping, Working
<1>1. /\ at' \in [Places -> Objects]
      /\ at'["source"] = at["swap"] /\ at'["swap"] = at["source"] /\ Others({"source", "swap"})
  BY Exchanging DEF IInv
<1>2. Journal' = Journal /\ Pending' = Pending BY <1>1 DEF Others, Places, Journal, Pending
<1>3. \A l \in Labels : Arrived(l)' = Arrived(l) BY DEF Arrived
<1>4. at["source"] \in {"old", Foreign} /\ at["swap"] = "new" /\ Journal = "source_swap_prepared"
      /\ mode = "work"
  BY DEF IInv, Modes, Journal
<1> HIDE DEF ExchangeSource
<1>5. UNCHANGED <<kind, stage, sidecar, edited, crashes>> /\ mode' = "swapped" /\ checked' = FALSE
  BY DEF ExchangeSource
<1>6. TypeOK' BY <1>1, <1>5 DEF IInv, TypeOK, Objects
<1>7. Belongs' BY <1>1, <1>2, <1>4, <1>5 DEF IInv, Belongs, Others, Places, Fits, HasNote
<1>8. Once' BY <1>1, <1>4 DEF IInv, Once, Alone, Others, Places, Nothing, Progress
<1>9. Witness' BY <1>1, <1>2, <1>5 DEF IInv, Witness, Others, Places
<1>10. Receipts' BY <1>1, <1>2, <1>3, <1>4, <1>5 DEF IInv, Receipts, Others, Places, Labels, Nothing
<1>11. Progress' BY <1>1, <1>2, <1>3, <1>5 DEF IInv, Progress, Before, Since, Others, Places, Labels, HasNote
<1>12. Swapped' BY <1>1, <1>2, <1>4, <1>5 DEF IInv, Swapped, Foreign, Early, Nothing
<1>13. Hidden' BY <1>1, <1>2, <1>4, <1>5 DEF Hidden
<1>14. Linked' /\ Published' BY <1>1, <1>2, <1>4, <1>5 DEF IInv, Linked, Published, Others, Places, HasNote
<1>15. Modes' BY <1>1, <1>2, <1>3, <1>4, <1>5 DEF IInv, Modes, Others, Places, Labels, Nothing
<1> QED BY <1>6, <1>7, <1>8, <1>9, <1>10, <1>11, <1>12, <1>13, <1>14, <1>15 DEF IInv


-----------------------------------------------------------------------------
(* The journal *)

LEMMA Noting ==
    ASSUME TypeOK, NEW p \in AllPhases, at' = [at EXCEPT !["journal"] = p]
    PROVE  /\ at' \in [Places -> Objects] /\ at'["journal"] = p /\ Others({"journal"})
           /\ Journal' = p
<1>1. "journal" \in Places /\ p \in Objects BY DEF Places, Objects
<1>2. at' \in [Places -> Objects] BY <1>1 DEF TypeOK, Objects
<1>3. at'["journal"] = p /\ Others({"journal"}) BY <1>1 DEF TypeOK, Others
<1>4. Journal' = p BY <1>3 DEF Journal, AllPhases, Nothing
<1> QED BY <1>2, <1>3, <1>4

LEMMA PublishJournalKeeps == ASSUME IInv, PublishJournal PROVE IInv'
<1>1. /\ at' \in [Places -> Objects] /\ at'["journal"] = "intent" /\ Others({"journal"})
      /\ Journal' = "intent"
  BY Noting DEF IInv, PublishJournal, AllPhases
<1>2. /\ UNCHANGED <<kind, sidecar, edited, crashes>> /\ mode = "work" /\ mode' \in {"work", "blocked"}
      /\ Journal = Nothing /\ stage' = [stage EXCEPT !["intent"] = Nothing]
      /\ checked' \in {checked, FALSE}
  BY DEF PublishJournal, Block
<1>3. at["journal"] = Nothing /\ at["journal-retired"] = Nothing
  BY <1>2 DEF IInv, Modes, Journal, Nothing
<1>4. \A l \in Labels : Arrived(l)' = Arrived(l) BY <1>2 DEF Arrived
<1>5. stage'["manifest_linked"] = stage["manifest_linked"] /\ stage' \in [AllPhases -> {Nothing, "torn", "next", "past"}]
  BY <1>2 DEF IInv, TypeOK, AllPhases
<1>6. TypeOK' BY <1>1, <1>2, <1>5 DEF IInv, TypeOK, Objects
<1>7. Pending' = Pending BY <1>1 DEF Pending, Others, Places
<1>8. Belongs' BY <1>1, <1>2 DEF IInv, Belongs, Others, Places, Fits, AllPhases
<1>9. Once' BY <1>1, <1>3 DEF IInv, Once, Alone, Others, Places
<1>10. Witness' BY <1>1, <1>2, <1>3, <1>7 DEF IInv, Witness, Others, Places, Nothing
<1>11. Receipts' BY <1>1, <1>2, <1>4, <1>7 DEF IInv, Receipts, Others, Places, Labels
<1>12. Progress' BY <1>1, <1>2, <1>4 DEF IInv, Progress, Before, Since, Others, Places, Labels, Nothing, Early, HasNote
<1>13. Swapped' BY <1>1, <1>2 DEF IInv, Swapped, Others, Places, Early, Nothing
<1>14. Hidden' BY <1>1, <1>2 DEF IInv, Hidden, Others, Places, Nothing
<1>15. Linked' /\ Published' BY <1>1, <1>2, <1>5 DEF IInv, Linked, Published, Others, Places, HasNote, Early, Nothing
<1>16. Modes' BY <1>1, <1>2, <1>3, <1>4 DEF IInv, Modes, Others, Places, Labels, Nothing
<1> QED BY <1>6, <1>8, <1>9, <1>10, <1>11, <1>12, <1>13, <1>14, <1>15, <1>16 DEF IInv

\* The next phase is noted when what belongs to it is there.
LEMMA NewPhase ==
    ASSUME IInv, NEW next, next = NextPhase, at["journal"] # Nothing, Journal # "commit_ready",
           ExchangeJournal(next), UNCHANGED <<kind, sidecar, edited, crashes>>,
           mode \in {"work", "bind"}, AllWritten,
           next = "source_swap_prepared" => at["swap"] = "new",
           Journal = "source_swap_prepared" => at["swap"] = "old",
           next = "manifest_linked" => at["publication"] = "manifest" \/ "publication" \in edited
    PROVE  IInv'
<1>1. PhaseNow /\ Journal = at["journal"] BY Now DEF Journal
<1>2. /\ next \in AllPhases /\ Fits(next) /\ Journal \in AllPhases
      /\ Journal = "intent" => next = "prepared"
      /\ Journal = "prepared" => next = "backup_published"
      /\ Journal = "backup_published" =>
            next = IF HasNote THEN "artifact_published" ELSE "source_swap_prepared"
      /\ Journal = "artifact_published" => next = "source_swap_prepared"
      /\ Journal = "source_swap_prepared" => next \in {"final_published", "state_published"}
      /\ Journal = "final_published" => next = IF HasNote THEN "manifest_linked" ELSE "commit_ready"
      /\ Journal = "manifest_linked" => next = "manifest_published"
      /\ Journal \in {"manifest_published", "state_published"} => next = "commit_ready"
  BY <1>1, Following DEF PhaseNow
<1>3. /\ at' = [at EXCEPT !["journal"] = next] /\ stage' = [stage EXCEPT ![next] = "past"]
      /\ mode' = "work" /\ checked' = FALSE
  BY DEF ExchangeJournal
<1>4. /\ at' \in [Places -> Objects] /\ at'["journal"] = next /\ Others({"journal"}) /\ Journal' = next
  BY <1>2, <1>3, Noting DEF IInv
<1>5. \A l \in Labels : Arrived(l)' = Arrived(l) BY DEF Arrived
<1>6. stage' \in [AllPhases -> {Nothing, "torn", "next", "past"}] BY <1>2, <1>3 DEF IInv, TypeOK
<1>7. TypeOK' BY <1>3, <1>4, <1>6 DEF IInv, TypeOK, Objects
<1>8. Pending' = Pending BY <1>4 DEF Pending, Others, Places
<1>9. at["journal-retired"] = Nothing BY DEF IInv, Modes
<1>10. Belongs' BY <1>2, <1>4 DEF IInv, Belongs, Others, Places, Fits, HasNote
<1>11. Once' BY <1>4, <1>9 DEF IInv, Once, Alone, Others, Places
<1>12. ~Pending BY <1>9, <1>8 DEF IInv, Witness, Pending
<1>13. Witness' BY <1>3, <1>4, <1>8, <1>9, <1>12 DEF IInv, Witness, Others, Places, Pending
<1>14. Receipts' BY <1>4, <1>5, <1>8 DEF IInv, Receipts, Others, Places, Labels
<1>15. Progress'
  <2>1. \A l \in Labels : sidecar'[l] = sidecar[l] OBVIOUS
  <2>2. /\ Journal = "intent" => sidecar["anchor"].receipt = "published"
        /\ Journal = "prepared" => sidecar["backup"].receipt = "published"
        /\ Journal = "backup_published" /\ HasNote => sidecar["artifact"].receipt = "published"
        /\ Journal = "backup_published" /\ ~HasNote => sidecar["swap"].receipt = "published"
        /\ Journal = "artifact_published" => sidecar["swap"].receipt = "published"
    BY DEF AllWritten, Written
  <2>3. at'["swap-retired"] = at["swap-retired"] /\ at'["anchor-retired"] = at["anchor-retired"] /\ HasNote' = HasNote
    BY <1>4 DEF Others, Places, HasNote
  <2>4. ~Arrived("commit") BY <1>12 DEF IInv, Receipts
  <2>5. Journal # Nothing BY <1>1
  <2>6. Progress BY DEF IInv
  <2>7. (Before("anchor", {}) /\ Since("anchor", {"intent"}) /\ Before("manifest", {}))'
    BY <1>2, <1>4, <1>5, <2>1, <2>2, <2>5, <2>6 DEF Progress, Before, Since, Labels, AllPhases, Nothing
  <2>8. (Before("backup", {"intent"}) /\ Since("backup", {"intent", "prepared"}))'
    BY <1>2, <1>4, <1>5, <2>1, <2>2, <2>5, <2>6 DEF Progress, Before, Since, Labels, AllPhases, Nothing
  <2>9. (Before("artifact", {"intent", "prepared"}))'
    BY <1>2, <1>4, <1>5, <2>1, <2>2, <2>5, <2>6 DEF Progress, Before, Since, Labels, AllPhases, Nothing
  <2>10. (HasNote => Since("artifact", {"intent", "prepared", "backup_published"}))'
    BY <1>2, <1>4, <1>5, <2>1, <2>2, <2>3, <2>5, <2>6 DEF Progress, Before, Since, Labels, AllPhases, Nothing
  <2>11. (Before("swap", {"intent", "prepared"}) /\ Since("swap", Early))'
    BY <1>2, <1>4, <1>5, <2>1, <2>2, <2>5, <2>6 DEF Progress, Before, Since, Labels, AllPhases, Nothing, Early
  <2>12. ~Arrived("commit")' BY <1>5, <2>4 DEF Labels
  <2> QED BY <2>3, <2>6, <2>7, <2>8, <2>9, <2>10, <2>11, <2>12 DEF Progress
<1>16. Swapped'
  <2>1. at'["source"] = at["source"] /\ at'["swap"] = at["swap"] /\ edited' = edited
    BY <1>4 DEF Others, Places
  <2>2. Journal # Nothing /\ next # Nothing BY <1>1, <1>2 DEF AllPhases, Nothing
  <2>3. CASE next \in Early
    <3>1. Journal \in Early BY <1>2, <2>3 DEF Early, AllPhases
    <3> QED BY <1>4, <2>1, <2>2, <2>3, <3>1 DEF IInv, Swapped, Early
  <2>4. CASE next = "source_swap_prepared"
    <3>1. Journal \in Early BY <1>2, <2>4 DEF Early, AllPhases
    <3> QED BY <1>4, <2>1, <2>2, <2>4, <3>1 DEF IInv, Swapped, Early, Belongs
  <2>5. CASE next \notin Early \cup {"source_swap_prepared"}
    <3>1. Journal \notin Early BY <1>2, <2>5 DEF Early, AllPhases
    <3>2. at["source"] \in {"new", Foreign} /\ (at["swap"] = "old" \/ at["swap-retired"] = "old")
      BY <2>2, <3>1 DEF IInv, Swapped
    <3>3. at'["swap-retired"] = at["swap-retired"] BY <1>4 DEF Others, Places
    <3> QED BY <1>4, <2>1, <2>2, <2>5, <3>2, <3>3 DEF IInv, Swapped
  <2> QED BY <2>3, <2>4, <2>5
<1>17. Hidden'
  <2>1. Journal = "source_swap_prepared" => at["swap"] # Foreign BY DEF Foreign
  <2> QED BY <1>4, <2>1 DEF IInv, Hidden, Others, Places
<1>18. Published'
  <2>1. HasNote' = HasNote /\ at'["publication"] = at["publication"] BY <1>4 DEF Others, Places, HasNote
  <2>2. HasNote /\ next \in {"manifest_published", "commit_ready"} =>
            Journal \in {"manifest_linked", "manifest_published"}
    BY <1>1, <1>2 DEF AllPhases, PhaseNow, Fits, HasNote
  <2>3. ~Withdrew BY DEF Withdrew
  <2> QED BY <1>4, <2>1, <2>2, <2>3 DEF IInv, Published
<1>19. Linked'
  <2>1. HasNote' = HasNote /\ at'["publication"] = at["publication"] BY <1>4 DEF Others, Places, HasNote
  <2>2. at["publication"] = "manifest" => next \in {"final_published", "manifest_linked", "manifest_published", "commit_ready"}
    BY <1>1, <1>2 DEF IInv, Linked, AllPhases
  <2>3. stage'["manifest_linked"] = stage["manifest_linked"] \/ next = "manifest_linked"
    BY <1>3, <1>2 DEF IInv, TypeOK, AllPhases
  <2>4. next \in Early \cup {"source_swap_prepared", "final_published"} =>
            Journal \in Early \cup {"source_swap_prepared"}
    BY <1>2 DEF AllPhases, Early, HasNote
  <2>5. next # Nothing BY <1>2 DEF AllPhases, Nothing
  <2> QED BY <1>4, <2>1, <2>2, <2>3, <2>4, <2>5 DEF IInv, Linked, Early
<1>20. Modes' BY <1>3, <1>4, <1>5, <1>9 DEF IInv, Modes, Others, Places, Labels
<1> QED BY <1>7, <1>10, <1>11, <1>13, <1>14, <1>15, <1>16, <1>17, <1>18, <1>19, <1>20 DEF IInv

\* A stage file is begun, or a torn one found: the journal is as it was.
LEMMA Staging ==
    ASSUME IInv, NEW next \in AllPhases, BeginStage(next), UNCHANGED <<kind, sidecar, edited, crashes>>,
           mode \in {"work", "bind"}, mode = "bind" \/ Journal # "source_swap_prepared",
           next = "manifest_linked" => at["publication"] = "manifest" \/ "publication" \in edited,
           next = "manifest_linked" => Journal = "final_published",
           mode = "work" => checked
    PROVE  IInv'
<1> USE DEF BeginStage
<1>1. Journal' = Journal /\ HasNote' = HasNote BY DEF Journal, HasNote
<1>2. SameReceipts BY DEF IInv, SameReceipts, Arrived, Receipts
<1>3. stage'["manifest_linked"] = stage["manifest_linked"] \/ next = "manifest_linked"
  BY DEF IInv, TypeOK, AllPhases
<1>4. TypeOK' BY DEF IInv, TypeOK
<1>5. Linked' BY <1>1, <1>3 DEF IInv, Linked, Early, Nothing
<1>6. Hidden' BY <1>1 DEF IInv, Hidden, Modes, Foreign
<1>7. Published' BY <1>1 DEF IInv, Published, Withdrew
<1>8. Modes' BY <1>1 DEF IInv, Modes, Arrived
<1> QED BY <1>2, <1>4, <1>5, <1>6, <1>7, <1>8, Unmoved

LEMMA Blocking ==
    ASSUME IInv, Block, UNCHANGED <<kind, at, stage, sidecar, edited, crashes>>,
           mode \in {"work", "bind", "withdraw"}, at["swap"] # Foreign
    PROVE  IInv'
<1> USE DEF Block
<1>1. Journal' = Journal BY DEF Journal
<1>2. TypeOK' BY DEF IInv, TypeOK
<1>3. Hidden' /\ Published' BY <1>1 DEF IInv, Hidden, Published, Withdrew, HasNote
<1>4. Modes' BY <1>1 DEF IInv, Modes, Arrived
<1> QED BY <1>2, <1>3, <1>4, Still

LEMMA AdvancePhaseKeeps == ASSUME IInv, AdvancePhase PROVE IInv'
<1>1. /\ Working /\ checked /\ PhaseDone /\ Advance(NextPhase)
      /\ UNCHANGED <<kind, sidecar, edited, crashes>>
      /\ \A l \in Written: at[Target(l)] = Object(l)
  BY DEF AdvancePhase
<1>2. PhaseNow /\ mode = "work" /\ at["journal"] # Nothing /\ Journal = at["journal"]
  BY <1>1, Now DEF Working, Journal
<1>3. Journal \notin {"commit_ready", "source_swap_prepared"} /\ AllWritten /\ (Journal = "final_published" => ~HasNote)
  BY <1>1 DEF PhaseDone
<1>4. NextPhase \in AllPhases /\ NextPhase # "manifest_linked"
  BY <1>2, <1>3, Following DEF PhaseNow, AllPhases
<1>5. at["swap"] # Foreign BY <1>1 DEF IInv, Hidden
<1>6. NextPhase = "source_swap_prepared" => at["swap"] = "new"
  <2>1. NextPhase = "source_swap_prepared" =>
            \/ Journal = "backup_published" /\ ~HasNote
            \/ Journal = "artifact_published"
    BY <1>2, <1>3, Following DEF PhaseNow, AllPhases
  <2> QED BY <1>1, <2>1 DEF Written, Target, Object
<1>7. CASE BeginStage(NextPhase) BY <1>1, <1>2, <1>3, <1>4, <1>7, Staging
<1>8. CASE ExchangeJournal(NextPhase) BY <1>1, <1>2, <1>3, <1>4, <1>6, <1>8, NewPhase
<1>9. CASE TornStage(NextPhase) BY <1>1, <1>2, <1>5, <1>9, Blocking DEF TornStage
<1> QED BY <1>1, <1>7, <1>8, <1>9 DEF Advance

LEMMA BindSourceKeeps == ASSUME IInv, BindSource PROVE IInv'
<1>1. mode = "bind" /\ UNCHANGED <<kind, sidecar, edited, crashes>> BY DEF BindSource
<1>2. at["journal-retired"] = Nothing /\ Journal = "source_swap_prepared" /\ at["swap"] = "old" /\ ~checked
  BY <1>1 DEF IInv, Modes
<1>3. PhaseNow /\ at["journal"] # Nothing BY <1>2, Now DEF Journal, Nothing
<1>4. NextPhase \in {"final_published", "state_published"} /\ AllWritten
  BY <1>2, <1>3, Following DEF AllWritten, Written, Nothing
<1>5. CASE BeginStage(NextPhase) BY <1>1, <1>2, <1>4, <1>5, Staging DEF AllPhases
<1>6. CASE ExchangeJournal(NextPhase) BY <1>1, <1>2, <1>3, <1>4, <1>6, NewPhase
<1>7. CASE TornStage(NextPhase) BY <1>1, <1>2, <1>7, Blocking DEF TornStage, Foreign
<1> QED BY <1>5, <1>6, <1>7 DEF BindSource

LEMMA BindManifestKeeps == ASSUME IInv, BindManifest PROVE IInv'
<1>1. /\ Working /\ checked /\ Journal = "final_published" /\ HasNote
      /\ UNCHANGED <<kind, sidecar, edited, crashes>>
      /\ ExchangeJournal("manifest_linked") \/ TornStage("manifest_linked")
  BY DEF BindManifest, LinksAt
<1>2. PhaseNow /\ mode = "work" /\ at["journal"] # Nothing BY <1>1, Now DEF Working
<1>3. NextPhase = "manifest_linked" /\ AllWritten BY <1>1, <1>2, Following DEF AllWritten, Written, Nothing
<1>4. at["swap"] # Foreign BY <1>1 DEF IInv, Hidden
<1>5. CASE ExchangeJournal("manifest_linked")
  <2>1. at["publication"] = "manifest" \/ "publication" \in edited
    BY <1>1, <1>5 DEF IInv, Linked, ExchangeJournal, Nothing
  <2> QED BY <1>1, <1>2, <1>3, <1>5, <2>1, NewPhase
<1>6. CASE TornStage("manifest_linked") BY <1>1, <1>2, <1>4, <1>6, Blocking DEF TornStage
<1> QED BY <1>1, <1>5, <1>6

LEMMA LinkManifestKeeps == ASSUME IInv, LinkManifest PROVE IInv'
<1>1. /\ Working /\ checked /\ Journal = "final_published" /\ HasNote
      /\ stage["manifest_linked"] = Nothing
      /\ UNCHANGED <<kind, sidecar, edited, crashes>>
  BY DEF LinkManifest, LinksAt
<1>2. mode = "work" /\ at["journal"] # Nothing /\ at["swap"] # Foreign
  BY <1>1 DEF Working, IInv, Hidden
<1>3. CASE /\ at["publication"] = Nothing /\ at' = [at EXCEPT !["publication"] = at["candidate"]]
           /\ UNCHANGED <<mode, stage, checked>>
  <2>1. at["candidate"] \in {Nothing, "manifest"} /\ "publication" \in Places BY DEF IInv, Belongs, Places
  <2>2. at' \in [Places -> Objects] BY <1>3, <2>1 DEF IInv, TypeOK, Objects, Labels
  <2>3. at'["publication"] \in {Nothing, "manifest"} /\ Others({"publication"})
    BY <1>3, <2>1 DEF IInv, TypeOK, Others
  <2>4. Journal' = Journal /\ Pending' = Pending /\ HasNote' = HasNote
    BY <1>1, <2>3 DEF Journal, Pending, Others, Places, HasNote
  <2>5. \A l \in Labels : Arrived(l)' = Arrived(l) BY <1>1 DEF Arrived
  <2>6. TypeOK' BY <1>1, <1>3, <2>2 DEF IInv, TypeOK, Objects
  <2>7. Belongs' BY <1>1, <2>3, <2>4 DEF IInv, Belongs, Others, Places, Fits
  <2>8. Once' BY <2>3 DEF IInv, Once, Alone, Others, Places
  <2>9. Witness' BY <1>3, <2>3, <2>4 DEF IInv, Witness, Others, Places
  <2>10. Receipts' BY <1>1, <2>3, <2>4, <2>5 DEF IInv, Receipts, Others, Places, Labels
  <2>11. Progress' BY <1>1, <2>3, <2>4, <2>5 DEF IInv, Progress, Before, Since, Others, Places, Labels
  <2>12. Swapped' /\ Hidden' BY <1>1, <1>3, <2>3, <2>4 DEF IInv, Swapped, Hidden, Others, Places
  <2>13. Linked' BY <1>1, <1>3, <2>3, <2>4 DEF IInv, Linked, Early, Nothing
  <2>14. Published' BY <1>1, <2>3, <2>4 DEF IInv, Published
  <2>15. Modes' BY <1>1, <1>3, <2>3, <2>4, <2>5 DEF IInv, Modes, Others, Places, Labels
  <2> QED BY <2>6, <2>7, <2>8, <2>9, <2>10, <2>11, <2>12, <2>13, <2>14, <2>15 DEF IInv
<1>4. CASE at["publication"] = "manifest" /\ BeginStage("manifest_linked")
  BY <1>1, <1>2, <1>4, Staging DEF AllPhases
<1>5. CASE Block /\ UNCHANGED <<at, stage>> BY <1>1, <1>2, <1>5, Blocking
<1> QED BY <1>3, <1>4, <1>5 DEF LinkManifest

-----------------------------------------------------------------------------
(* The files of a label *)

\* A step on a receipt that moves no file to its target.
LEMMA Receipting ==
    ASSUME IInv, UNCHANGED <<kind, at, stage, checked, edited, crashes, mode>>, mode = "work", TypeOK', SameReceipts
    PROVE  IInv'
<1>1. Journal' = Journal BY DEF Journal
<1>2. Hidden' /\ Linked' /\ Published' BY <1>1 DEF IInv, Hidden, Linked, Published, Withdrew, HasNote
<1>3. Modes' BY <1>1 DEF IInv, Modes
<1> QED BY <1>2, <1>3, Unmoved

LEMMA DeclareKeeps ==
    ASSUME IInv, NEW l \in Labels, Declare(l), UNCHANGED <<kind, stage, checked, edited, crashes>>, mode = "work"
    PROVE  IInv'
<1> USE DEF Declare, Advanced
<1>1. sidecar' \in [Labels -> [receipt: {Nothing, "torn", "declared", "allocated", "ready", "published"},
                               file: {Nothing, "allocation", "candidate", "capture", "target"},
                               whole: BOOLEAN]]
  BY DEF IInv, TypeOK
<1>2. \A m \in Labels : /\ sidecar'[m].file = sidecar[m].file
                        /\ sidecar'[m].receipt = "published" <=> sidecar[m].receipt = "published"
  BY DEF IInv, TypeOK, Nothing
<1>3. SameReceipts BY <1>2 DEF IInv, Receipts, SameReceipts, Arrived
<1>4. TypeOK' BY <1>1 DEF IInv, TypeOK
<1> QED BY <1>3, <1>4, Receipting

LEMMA FillKeeps ==
    ASSUME IInv, NEW l \in Labels, Fill(l), UNCHANGED <<kind, stage, checked, edited, crashes>>, mode = "work"
    PROVE  IInv'
<1> DEFINE Receipt == [receipt: {Nothing, "torn", "declared", "allocated", "ready", "published"},
                       file: {Nothing, "allocation", "candidate", "capture", "target"},
                       whole: BOOLEAN]
<1>0. PICK r \in Receipt : /\ sidecar' = [sidecar EXCEPT ![l] = r]
                           /\ r.file # "target" \/ r.file = sidecar[l].file
                           /\ sidecar[l].file # "target" \/ r.file = sidecar[l].file
                           /\ r.receipt # "published" /\ sidecar[l].receipt # "published"
  <2>1. sidecar[l] \in Receipt BY DEF IInv, TypeOK
  <2>2. PICK f \in {"allocation", "candidate"}, c \in {"allocated", "ready"} :
            /\ sidecar[l].receipt \in {"declared", "allocated"}
            /\ \/ sidecar[l].file \in {Nothing, "allocation"} /\ sidecar' = [sidecar EXCEPT ![l].file = f]
               \/ sidecar' = [sidecar EXCEPT ![l].receipt = c]
               \/ sidecar' = [sidecar EXCEPT ![l].whole = TRUE]
    BY DEF Fill, Advanced
  <2>3. CASE sidecar[l].file \in {Nothing, "allocation"} /\ sidecar' = [sidecar EXCEPT ![l].file = f]
    <3>1. [sidecar[l] EXCEPT !.file = f] \in Receipt /\ [sidecar[l] EXCEPT !.file = f].file = f
          /\ [sidecar[l] EXCEPT !.file = f].receipt = sidecar[l].receipt
      BY <2>1
    <3> QED BY <2>2, <2>3, <3>1 DEF Nothing
  <2>4. CASE sidecar' = [sidecar EXCEPT ![l].receipt = c]
    <3>1. [sidecar[l] EXCEPT !.receipt = c] \in Receipt /\ [sidecar[l] EXCEPT !.receipt = c].file = sidecar[l].file
          /\ [sidecar[l] EXCEPT !.receipt = c].receipt = c
      BY <2>1
    <3> QED BY <2>2, <2>4, <3>1
  <2>5. CASE sidecar' = [sidecar EXCEPT ![l].whole = TRUE]
    <3>1. [sidecar[l] EXCEPT !.whole = TRUE] \in Receipt
          /\ [sidecar[l] EXCEPT !.whole = TRUE].file = sidecar[l].file
          /\ [sidecar[l] EXCEPT !.whole = TRUE].receipt = sidecar[l].receipt
      BY <2>1
    <3> QED BY <2>2, <2>5, <3>1
  <2> QED BY <2>2, <2>3, <2>4, <2>5
<1>t. sidecar \in [Labels -> Receipt] BY DEF IInv, TypeOK
<1>s. sidecar' = [sidecar EXCEPT ![l] = r] BY <1>0
<1>1. sidecar' \in [Labels -> Receipt]
  <2> HIDE DEF Receipt
  <2> QED BY <1>s, <1>t
<1>2. \A m \in Labels : /\ sidecar'[m].file = "target" <=> sidecar[m].file = "target"
                        /\ sidecar'[m].receipt = "published" <=> sidecar[m].receipt = "published"
  <2> HIDE DEF Receipt
  <2>1. sidecar'[l] = r /\ \A m \in Labels \ {l} : sidecar'[m] = sidecar[m] BY <1>s, <1>t
  <2> QED BY <1>0, <2>1
<1>u. UNCHANGED <<at, mode>> BY DEF Fill
<1>3. SameReceipts BY <1>2 DEF IInv, Receipts, SameReceipts, Arrived
<1>4. TypeOK' BY <1>1, <1>u DEF IInv, TypeOK
<1> QED BY <1>u, <1>3, <1>4, Receipting

\* A label's file comes to its empty target in the phase that publishes it.
LEMMA Arriving ==
    ASSUME IInv, NEW l \in Written, Working, checked,
           at[Target(l)] = Nothing, sidecar[l].file = "capture", sidecar[l].receipt = "ready",
           at' = [at EXCEPT ![Target(l)] = Object(l)],
           sidecar' = [sidecar EXCEPT ![l].file = "target"],
           UNCHANGED <<kind, stage, checked, edited, crashes, mode>>
    PROVE  IInv'
<1>1. l \in Labels /\ Target(l) \in Places /\ Object(l) \in Objects
  BY DEF Written, Labels, Target, Places, Object, Objects
<1>2. at' \in [Places -> Objects] /\ at'[Target(l)] = Object(l) /\ Others({Target(l)})
  BY <1>1 DEF IInv, TypeOK, Objects, Others
<1>3. sidecar' \in [Labels -> [receipt: {Nothing, "torn", "declared", "allocated", "ready", "published"},
                               file: {Nothing, "allocation", "candidate", "capture", "target"},
                               whole: BOOLEAN]]
  BY <1>1 DEF IInv, TypeOK
<1>4. /\ \A m \in Labels : sidecar'[m].receipt = sidecar[m].receipt
      /\ \A m \in Labels \ {l} : Arrived(m)' = Arrived(m)
      /\ ~Arrived(l) /\ Arrived(l)'
  BY <1>1 DEF IInv, TypeOK, Arrived
<1>5. /\ mode = "work" /\ mode' = "work" /\ checked' /\ Journal # Nothing /\ at["journal"] # Nothing
      /\ at["journal-retired"] = Nothing
  BY DEF Working, Journal, IInv, Modes
<1>6. Journal' = Journal /\ at'["journal"] = at["journal"] /\ at'["journal-retired"] = Nothing
  BY <1>1, <1>2, <1>5 DEF Journal, Others, Places, Target, Labels
<1>7. TypeOK' BY <1>2, <1>3 DEF IInv, TypeOK, Objects
<1>8. at'["source"] = at["source"] /\ at'["publication"] = at["publication"]
  BY <1>1, <1>2 DEF Others, Places, Target, Labels
<1>9. /\ l = "commit" <=> Journal = "commit_ready"
      /\ l = "swap" => Journal \in {"backup_published", "artifact_published"}
      /\ l = "backup" => Journal = "prepared"
      /\ l = "artifact" => Journal = "backup_published" /\ HasNote
      /\ l \in {"anchor", "manifest"} => Journal = "intent"
  BY DEF Written
<1>10. Hidden'
  <2>1. at["swap"] # Foreign BY DEF IInv, Hidden
  <2>2. at'["swap"] # Foreign BY <1>1, <1>2, <2>1 DEF Others, Places, Target, Object, Labels, Foreign
  <2> QED BY <2>2 DEF Hidden
<1>11. Linked' /\ Published' BY <1>5, <1>6, <1>8 DEF IInv, Linked, Published, Withdrew, HasNote
<1>12. ~Pending /\ at["sealed"] = Nothing /\ at["done"] = Nothing
  BY <1>5, <1>9 DEF IInv, Witness, Pending, Target
<1>13. CASE l = "anchor" \/ l = "manifest" \/ l = "backup" \/ l = "artifact"
  <2>1. Others({"anchor", "candidate", "backup", "artifact"})
    BY <1>2, <1>13 DEF Others, Target
  <2>2. Pending' = Pending BY <2>1 DEF Pending, Others, Places
  <2>3. Belongs' BY <1>2, <1>6, <1>13, <2>1 DEF IInv, Belongs, Others, Places, Target, Object, Fits, HasNote
  <2>4. Once' BY <1>2, <1>4, <1>13, <2>1 DEF IInv, Once, Alone, Others, Places, Target, Object, Receipts
  <2>5. Witness' BY <1>5, <1>6, <2>1, <2>2 DEF IInv, Witness, Others, Places
  <2>6. Receipts' BY <1>2, <1>4, <1>13, <2>1, <2>2 DEF IInv, Receipts, Others, Places, Target, Object, Labels, Arrived, Nothing
  <2>7. Progress' BY <1>4, <1>6, <1>9, <1>13, <2>1 DEF IInv, Progress, Before, Since, Others, Places, Labels, HasNote, Nothing, Early
  <2>8. Swapped' BY <1>6, <1>8, <2>1 DEF IInv, Swapped, Others, Places
  <2>9. Modes' BY <1>4, <1>5, <1>6, <1>8, <1>13, <2>1 DEF IInv, Modes, Others, Places, Labels
  <2> QED BY <1>7, <1>10, <1>11, <2>3, <2>4, <2>5, <2>6, <2>7, <2>8, <2>9 DEF IInv
<1>14. CASE l = "swap"
  <2>1. Others({"swap"}) /\ at'["swap"] = "new" /\ at["swap"] = Nothing BY <1>2, <1>14 DEF Target, Object
  <2>2. Pending' = Pending BY <2>1 DEF Pending, Others, Places
  <2>3. Belongs' BY <1>6, <2>1 DEF IInv, Belongs, Others, Places, Fits, HasNote
  <2>4. Once' BY <1>4, <1>14, <2>1 DEF IInv, Once, Alone, Others, Places, Receipts
  <2>5. Witness' BY <1>5, <1>6, <2>1, <2>2 DEF IInv, Witness, Others, Places
  <2>6. Receipts' BY <1>4, <1>14, <2>1, <2>2 DEF IInv, Receipts, Others, Places, Labels, Arrived, Nothing
  <2>7. Progress' BY <1>4, <1>6, <1>9, <1>14, <2>1 DEF IInv, Progress, Before, Since, Others, Places, Labels, HasNote, Nothing, Early
  <2>8. Swapped' BY <1>6, <1>8, <1>9, <1>14, <2>1 DEF IInv, Swapped, Early, Nothing, Foreign
  <2>9. Modes' BY <1>4, <1>5, <1>6, <1>8, <1>9, <1>14, <2>1 DEF IInv, Modes, Others, Places, Labels
  <2> QED BY <1>7, <1>10, <1>11, <2>3, <2>4, <2>5, <2>6, <2>7, <2>8, <2>9 DEF IInv
<1>15. CASE l = "commit"
  <2>1. Others({"commit"}) /\ at'["commit"] = "commit" BY <1>2, <1>15 DEF Target, Object
  <2>2. Pending' BY <2>1 DEF Pending, Nothing
  <2>3. Belongs' BY <1>6, <2>1 DEF IInv, Belongs, Others, Places, Fits, HasNote
  <2>4. Once' BY <1>12, <2>1 DEF IInv, Once, Alone, Others, Places
  <2>5. Witness' BY <1>5, <1>6, <1>9, <1>12, <1>15, <2>1, <2>2 DEF IInv, Witness, Others, Places
  <2>6. Receipts' BY <1>4, <1>15, <2>1, <2>2 DEF IInv, Receipts, Others, Places, Labels, Arrived
  <2>7. Progress' BY <1>4, <1>6, <1>9, <1>15, <2>1 DEF IInv, Progress, Before, Since, Others, Places, Labels, HasNote, Nothing, Early
  <2>8. Swapped' BY <1>6, <1>8, <2>1 DEF IInv, Swapped, Others, Places
  <2>9. Modes' BY <1>4, <1>5, <1>6, <1>8, <1>9, <1>15, <1>12, <2>1 DEF IInv, Modes, Others, Places, Labels
  <2> QED BY <1>7, <1>10, <1>11, <2>3, <2>4, <2>5, <2>6, <2>7, <2>8, <2>9 DEF IInv
<1> QED BY <1>1, <1>13, <1>14, <1>15 DEF Labels

LEMMA PublishKeeps ==
    ASSUME IInv, NEW l \in Written, Publish(l), Working, checked, UNCHANGED <<kind, stage, checked, edited, crashes>>
    PROVE  IInv'
<1>1. l \in Labels /\ mode = "work" BY DEF Written, Labels, Working
<1>2. CASE ~MayPublish(l) /\ mode' = "blocked" /\ UNCHANGED <<at, sidecar>>
  <2>1. Journal' = Journal /\ at["swap"] # Foreign BY <1>2 DEF Journal, IInv, Hidden
  <2>2. TypeOK' BY <1>2 DEF IInv, TypeOK
  <2>3. Hidden' /\ Published' BY <1>1, <1>2, <2>1 DEF IInv, Hidden, Published, Withdrew, HasNote
  <2>4. Modes' BY <1>1, <1>2, <2>1 DEF IInv, Modes, Arrived
  <2> QED BY <1>2, <2>2, <2>3, <2>4, Still
<1>3. CASE sidecar[l].file = "candidate" /\ sidecar' = [sidecar EXCEPT ![l].file = "capture"] /\ UNCHANGED <<at, mode>>
  <2>1. sidecar' \in [Labels -> [receipt: {Nothing, "torn", "declared", "allocated", "ready", "published"},
                               file: {Nothing, "allocation", "candidate", "capture", "target"},
                               whole: BOOLEAN]]
    BY <1>1, <1>3 DEF IInv, TypeOK
  <2>2. \A m \in Labels : /\ sidecar'[m].file = "target" <=> sidecar[m].file = "target"
                          /\ sidecar'[m].receipt = sidecar[m].receipt
    BY <1>1, <1>3 DEF IInv, TypeOK
  <2>3. SameReceipts BY <2>2 DEF IInv, Receipts, SameReceipts, Arrived
  <2>4. TypeOK' BY <1>3, <2>1 DEF IInv, TypeOK
  <2> QED BY <1>1, <1>3, <2>3, <2>4, Receipting
<1>4. CASE /\ sidecar[l].file = "target" /\ sidecar' = Advanced(l, "published") /\ UNCHANGED <<at, mode>>
  <2>1. sidecar' \in [Labels -> [receipt: {Nothing, "torn", "declared", "allocated", "ready", "published"},
                               file: {Nothing, "allocation", "candidate", "capture", "target"},
                               whole: BOOLEAN]]
    BY <1>1, <1>4 DEF IInv, TypeOK, Advanced
  <2>2. \A m \in Labels : /\ sidecar'[m].file = sidecar[m].file
                          /\ sidecar[m].receipt = "published" => sidecar'[m].receipt = "published"
                          /\ sidecar'[m].receipt = "published" => sidecar'[m].file = "target"
    BY <1>1, <1>4 DEF IInv, TypeOK, Advanced, Receipts
  <2>3. SameReceipts BY <2>2 DEF SameReceipts, Arrived
  <2>4. TypeOK' BY <1>4, <2>1 DEF IInv, TypeOK
  <2> QED BY <1>1, <1>4, <2>3, <2>4, Receipting
<1>5. CASE /\ MayPublish(l) /\ sidecar[l].file = "capture" /\ sidecar[l].receipt = "ready"
           /\ sidecar' = [sidecar EXCEPT ![l].file = "target"]
           /\ at' = [at EXCEPT ![Target(l)] = Object(l)] /\ UNCHANGED mode
  <2>1. at[Target(l)] = Nothing BY <1>5 DEF MayPublish
  <2> QED BY <1>5, <2>1, Arriving
<1> QED BY <1>2, <1>3, <1>4, <1>5 DEF Publish

LEMMA WriteFileKeeps == ASSUME IInv, WriteFile PROVE IInv'
<1>1. PICK l \in Written : Declare(l) \/ Fill(l) \/ Publish(l) BY DEF WriteFile
<1>2. l \in Labels /\ mode = "work" /\ Working /\ checked /\ UNCHANGED <<kind, stage, checked, edited, crashes>>
  BY DEF Written, Labels, WriteFile, Working
<1> QED BY <1>1, <1>2, DeclareKeeps, FillKeeps, PublishKeeps

-----------------------------------------------------------------------------
(* The displaced file, the manifest, the commit *)

LEMMA LookAtDisplacedKeeps == ASSUME IInv, LookAtDisplaced PROVE IInv'
<1>1. mode = "swapped" /\ UNCHANGED <<kind, stage, sidecar, checked, edited, crashes>> BY DEF LookAtDisplaced
<1>2. Journal = "source_swap_prepared" /\ at["journal-retired"] = Nothing /\ ~checked
  BY <1>1 DEF IInv, Modes
<1>3. CASE at["source"] = "new" /\ Displaced /\ UNCHANGED at /\ mode' = "bind"
  <2>1. Journal' = Journal /\ at["swap"] = "old" BY <1>3 DEF Journal, Displaced
  <2>2. TypeOK' BY <1>1, <1>3 DEF IInv, TypeOK
  <2>3. Hidden' /\ Published' BY <1>1, <1>2, <1>3, <2>1 DEF Hidden, Published, Foreign
  <2>4. Modes' BY <1>1, <1>2, <1>3, <2>1 DEF IInv, Modes, Arrived
  <2> QED BY <1>1, <1>3, <2>2, <2>3, <2>4, Still
<1>4. CASE at["source"] # "new" /\ UNCHANGED at /\ mode' = "blocked"
  <2>1. Journal' = Journal BY <1>4 DEF Journal
  <2>2. TypeOK' BY <1>1, <1>4 DEF IInv, TypeOK
  <2>3. Hidden' /\ Published' BY <1>1, <1>2, <1>4, <2>1 DEF IInv, Hidden, Published
  <2>4. Modes' BY <1>1, <1>2, <1>4, <2>1 DEF IInv, Modes, Arrived
  <2> QED BY <1>1, <1>4, <2>2, <2>3, <2>4, Still
<1>5. CASE at["source"] = "new" /\ ~Displaced /\ at' = Exchange /\ mode' = "blocked"
  <2>1. at["swap"] = Foreign /\ "source" \in edited BY <1>2, <1>5 DEF IInv, Swapped, Displaced, Early, Nothing, Foreign
  <2>2. /\ at' \in [Places -> Objects]
        /\ at'["source"] = Foreign /\ at'["swap"] = "new" /\ Others({"source", "swap"})
    BY <1>5, <2>1, Exchanging DEF IInv
  <2>3. Journal' = Journal /\ Pending' = Pending BY <2>2 DEF Others, Places, Journal, Pending
  <2>4. \A l \in Labels : Arrived(l)' = Arrived(l) BY <1>1 DEF Arrived
  <2>5. TypeOK' BY <1>1, <1>5, <2>2 DEF IInv, TypeOK, Objects
  <2>6. Belongs' BY <1>1, <2>2, <2>3 DEF IInv, Belongs, Others, Places, Fits, HasNote
  <2>7. Once' BY <1>2, <2>1, <2>2 DEF IInv, Once, Alone, Others, Places, Nothing, Progress, Foreign
  <2>8. Witness' BY <1>5, <2>2, <2>3 DEF IInv, Witness, Others, Places
  <2>9. Receipts' BY <1>1, <2>1, <2>2, <2>3, <2>4 DEF IInv, Receipts, Others, Places, Labels, Nothing, Foreign
  <2>10. Progress' BY <1>1, <2>2, <2>3, <2>4 DEF IInv, Progress, Before, Since, Others, Places, Labels, HasNote
  <2>11. Swapped' BY <1>1, <1>2, <2>1, <2>2, <2>3 DEF Swapped, Foreign, Early, Nothing
  <2>12. Hidden' BY <2>2 DEF Hidden, Foreign
  <2>13. Linked' /\ Published' BY <1>1, <1>2, <2>2, <2>3 DEF IInv, Linked, Published, Others, Places, HasNote
  <2>14. Modes' BY <1>1, <1>2, <1>5, <2>2, <2>3, <2>4 DEF IInv, Modes, Others, Places, Labels, Nothing
  <2> QED BY <2>5, <2>6, <2>7, <2>8, <2>9, <2>10, <2>11, <2>12, <2>13, <2>14 DEF IInv
<1> QED BY <1>3, <1>4, <1>5 DEF LookAtDisplaced

LEMMA PuttingAway ==
    ASSUME TypeOK, NEW p \in Places, NEW q \in Places, p # q, PutAway(p, q)
    PROVE  /\ at' \in [Places -> Objects] /\ at'[p] = Nothing /\ at'[q] = at[p] /\ at[p] # Nothing
           /\ Others({p, q})
<1>1. at' = [at EXCEPT ![p] = Nothing, ![q] = at[p]] /\ at[p] # Nothing BY DEF PutAway
<1>2. Nothing \in Objects /\ at[p] \in Objects BY DEF Objects, TypeOK
<1>3. at' \in [Places -> Objects] BY <1>1, <1>2 DEF TypeOK, Objects
<1> QED BY <1>1, <1>3 DEF TypeOK, Others

LEMMA RetireCandidateKeeps == ASSUME IInv, RetireCandidate PROVE IInv'
<1>1. /\ UNCHANGED <<kind, stage, sidecar, mode, checked, edited, crashes>>
      /\ PutAway("candidate", "manifest-retired")
  BY DEF RetireCandidate, PutAway
<1>2. /\ at' \in [Places -> Objects] /\ at'["candidate"] = Nothing /\ at'["manifest-retired"] = "manifest"
      /\ Others({"candidate", "manifest-retired"}) /\ at["candidate"] # Nothing
  BY <1>1, PuttingAway DEF IInv, Places, Belongs
<1>3. Journal' = Journal /\ Pending' = Pending /\ HasNote' = HasNote
  BY <1>1, <1>2 DEF Others, Places, Journal, Pending, HasNote
<1>4. \A l \in Labels : Arrived(l)' = Arrived(l) BY <1>1 DEF Arrived
<1>5. TypeOK' BY <1>1, <1>2 DEF IInv, TypeOK, Objects
<1>6. Belongs' BY <1>1, <1>2, <1>3 DEF IInv, Belongs, Others, Places, Fits
<1>7. Once' BY <1>2 DEF IInv, Once, Alone, Others, Places
<1>8. Witness' BY <1>1, <1>2, <1>3 DEF IInv, Witness, Others, Places
<1>9. Receipts' BY <1>1, <1>2, <1>3, <1>4 DEF IInv, Receipts, Others, Places, Labels
<1>10. Progress' BY <1>1, <1>2, <1>3, <1>4 DEF IInv, Progress, Before, Since, Others, Places, Labels
<1>11. Swapped' /\ Hidden' BY <1>1, <1>2, <1>3 DEF IInv, Swapped, Hidden, Others, Places
<1>12. Linked' /\ Published' BY <1>1, <1>2, <1>3 DEF IInv, Linked, Published, Withdrew, Others, Places
<1>13. Modes' BY <1>1, <1>2, <1>3, <1>4 DEF IInv, Modes, Others, Places, Labels
<1> QED BY <1>5, <1>6, <1>7, <1>8, <1>9, <1>10, <1>11, <1>12, <1>13 DEF IInv

\* Its own manifest is taken back, and the workflow is blocked or the commit taken back.
LEMMA Withdrawing ==
    ASSUME IInv, at' = Withdrawn, UNCHANGED <<kind, stage, sidecar, edited, crashes>>,
           mode \in {"withdraw", "tidying", "committing"}, mode' \in {"blocked", "restoring"}, checked' = FALSE,
           mode' = "restoring" => mode = "committing"
    PROVE  IInv'
<1>1. Journal \in {"manifest_published", "commit_ready"} /\ at["sealed"] = Nothing BY DEF IInv, Modes
<1>2. /\ at' \in [Places -> Objects] /\ Others({"publication", "manifest-aborted"})
      /\ at'["manifest-aborted"] \in {Nothing, "manifest"}
      /\ IF at["publication"] = "manifest" THEN at'["publication"] = Nothing ELSE at'["publication"] = at["publication"]
  <2>1. CASE at["publication"] = "manifest"
    <3>1. at' = [at EXCEPT !["publication"] = Nothing, !["manifest-aborted"] = "manifest"] BY <2>1 DEF Withdrawn
    <3>2. at' \in [Places -> Objects] BY <3>1 DEF IInv, TypeOK, Objects, Labels
    <3>3. at'["publication"] = Nothing /\ at'["manifest-aborted"] = "manifest"
          /\ Others({"publication", "manifest-aborted"})
      BY <3>1 DEF IInv, TypeOK, Others, Places
    <3> QED BY <2>1, <3>2, <3>3
  <2>2. CASE at["publication"] # "manifest" BY <2>2 DEF Withdrawn, IInv, TypeOK, Objects, Others, Belongs
  <2> QED BY <2>1, <2>2
<1>3. Journal' = Journal /\ Pending' = Pending /\ HasNote' = HasNote
  BY <1>2 DEF Others, Places, Journal, Pending, HasNote
<1>4. \A l \in Labels : Arrived(l)' = Arrived(l) BY DEF Arrived
<1>5. TypeOK' BY <1>2 DEF IInv, TypeOK, Objects
<1>6. Belongs' BY <1>2, <1>3 DEF IInv, Belongs, Others, Places, Fits
<1>7. Once' BY <1>2 DEF IInv, Once, Alone, Others, Places
<1>8. Witness' BY <1>2, <1>3 DEF IInv, Witness, Others, Places
<1>9. Receipts' BY <1>2, <1>3, <1>4 DEF IInv, Receipts, Others, Places, Labels
<1>10. Progress' BY <1>2, <1>3, <1>4 DEF IInv, Progress, Before, Since, Others, Places, Labels
<1>11. Swapped' BY <1>2, <1>3 DEF IInv, Swapped, Others, Places
<1>12. Hidden' BY <1>1, <1>2, <1>3 DEF IInv, Hidden, Others, Places
<1>13. Linked' BY <1>1, <1>2, <1>3 DEF IInv, Linked, Early, Nothing
<1>14. Published' BY <1>1, <1>2, <1>3 DEF IInv, Published, Withdrew, Others, Places
<1>15. Modes' BY <1>1, <1>2, <1>3, <1>4 DEF IInv, Modes, Others, Places, Labels
<1> QED BY <1>5, <1>6, <1>7, <1>8, <1>9, <1>10, <1>11, <1>12, <1>13, <1>14, <1>15 DEF IInv

LEMMA WithdrawKeeps == ASSUME IInv, Withdraw PROVE IInv'
BY Withdrawing DEF Withdraw, Block

LEMMA TidyKeeps == ASSUME IInv, Tidy PROVE IInv'
<1>1. mode = "tidying" /\ UNCHANGED <<kind, stage, sidecar, edited, crashes>> BY DEF Tidy
<1>2. /\ Journal = "commit_ready" /\ Arrived("commit") /\ at["sealed"] = Nothing /\ at["journal-retired"] = Nothing
      /\ at["source"] \in {"new", Foreign} /\ (at["swap"] = "old" \/ at["swap-retired"] = "old") /\ ~checked
  BY <1>1 DEF IInv, Modes, Swapped, Early, Nothing
<1>3. \A l \in Labels : Arrived(l)' = Arrived(l) BY <1>1 DEF Arrived
<1>4. CASE PutAway("swap", "swap-retired") /\ UNCHANGED <<mode, checked>>
  <2>1. /\ at' \in [Places -> Objects] /\ at'["swap"] = Nothing /\ at'["swap-retired"] = at["swap"]
        /\ at["swap"] # Nothing /\ Others({"swap", "swap-retired"})
    BY <1>4, PuttingAway DEF IInv, Places
  <2>2. at["swap"] = "old" BY <1>2, <2>1 DEF IInv, Once, Alone, Nothing
  <2>3. Journal' = Journal /\ Pending' = Pending /\ HasNote' = HasNote
    BY <1>1, <2>1 DEF Others, Places, Journal, Pending, HasNote
  <2>4. TypeOK' BY <1>1, <1>4, <2>1 DEF IInv, TypeOK, Objects
  <2>5. Belongs' BY <1>1, <2>1, <2>2, <2>3 DEF IInv, Belongs, Others, Places, Fits
  <2>6. Once' BY <2>1 DEF IInv, Once, Alone, Others, Places
  <2>7. Witness' BY <1>1, <1>4, <2>1, <2>2, <2>3 DEF IInv, Witness, Others, Places
  <2>8. Receipts' BY <1>1, <1>3, <2>1, <2>2, <2>3 DEF IInv, Receipts, Others, Places, Labels
  <2>9. Progress' BY <1>1, <1>2, <1>3, <2>1, <2>3 DEF IInv, Progress, Before, Since, Labels
  <2>10. Swapped' BY <1>1, <1>2, <2>1, <2>2, <2>3 DEF IInv, Swapped, Early, Nothing, Foreign, Others, Places
  <2>11. Hidden' BY <2>1 DEF Hidden, Nothing, Foreign
  <2>12. Linked' /\ Published' BY <1>1, <1>2, <1>4, <2>1, <2>3 DEF IInv, Linked, Published, Withdrew, Others, Places
  <2>13. Modes' BY <1>1, <1>2, <1>3, <1>4, <2>1, <2>3 DEF IInv, Modes, Others, Places, Labels
  <2> QED BY <2>4, <2>5, <2>6, <2>7, <2>8, <2>9, <2>10, <2>11, <2>12, <2>13 DEF IInv
<1>5. CASE PutAway("anchor", "anchor-retired") /\ UNCHANGED <<mode, checked>>
  <2>1. /\ at' \in [Places -> Objects] /\ at'["anchor"] = Nothing /\ at'["anchor-retired"] = at["anchor"]
        /\ at["anchor"] # Nothing /\ Others({"anchor", "anchor-retired"})
    BY <1>5, PuttingAway DEF IInv, Places
  <2>3. Journal' = Journal /\ Pending' = Pending /\ HasNote' = HasNote
    BY <1>1, <2>1 DEF Others, Places, Journal, Pending, HasNote
  <2>4. TypeOK' BY <1>1, <1>5, <2>1 DEF IInv, TypeOK, Objects
  <2>5. Belongs' BY <1>1, <2>1, <2>3 DEF IInv, Belongs, Others, Places, Fits
  <2>6. Once' BY <2>1 DEF IInv, Once, Alone, Others, Places
  <2>7. Witness' BY <1>1, <1>5, <2>1, <2>3 DEF IInv, Witness, Others, Places
  <2>8. Receipts' BY <1>1, <1>3, <2>1, <2>3 DEF IInv, Receipts, Others, Places, Labels
  <2>9. Progress' BY <1>1, <1>2, <1>3, <2>1, <2>3 DEF IInv, Progress, Before, Since, Labels
  <2>10. Swapped' /\ Hidden' BY <1>1, <1>5, <2>1, <2>3 DEF IInv, Swapped, Hidden, Others, Places
  <2>12. Linked' /\ Published' BY <1>1, <1>2, <1>5, <2>1, <2>3 DEF IInv, Linked, Published, Withdrew, Others, Places
  <2>13. Modes' BY <1>1, <1>2, <1>3, <1>5, <2>1, <2>3 DEF IInv, Modes, Others, Places, Labels
  <2> QED BY <2>4, <2>5, <2>6, <2>7, <2>8, <2>9, <2>10, <2>12, <2>13 DEF IInv
<1>6. CASE Bound /\ at["swap"] = Nothing /\ UNCHANGED at /\ mode' = "committing" /\ checked' = TRUE
  <2>1. Journal' = Journal /\ at["swap-retired"] = "old" BY <1>2, <1>6 DEF Journal, Nothing
  <2>2. TypeOK' BY <1>1, <1>6 DEF IInv, TypeOK
  <2>3. Hidden' /\ Published' BY <1>1, <1>2, <1>6, <2>1 DEF IInv, Hidden, Published, Withdrew, HasNote
  <2>4. Modes' BY <1>1, <1>2, <1>3, <1>6, <2>1 DEF IInv, Modes, Labels
  <2> QED BY <1>1, <1>6, <2>1, <2>2, <2>3, <2>4, Still
<1>7. CASE at' = Withdrawn /\ mode' = "blocked" /\ checked' = FALSE
  BY <1>1, <1>7, Withdrawing
<1>8. CASE /\ at["swap"] = Nothing /\ at' = (IF Bound THEN at ELSE Withdrawn)
           /\ mode' = (IF Bound THEN "committing" ELSE "blocked") /\ checked' = Bound
  <2>1. Bound \in BOOLEAN BY DEF Bound, Bindings, BindingsOfRunning
  <2>2. Bound => checked' = TRUE BY <1>8, Zenon
  <2>3. ~Bound => checked' = FALSE BY <1>8, <2>1, Zenon
  <2> QED BY <1>6, <1>7, <1>8, <2>2, <2>3
<1> QED BY <1>4, <1>5, <1>8, Zenon DEF Tidy

\* The next step of the commit.
LEMMA CommitStepKeeps == ASSUME IInv, CommitStep PROVE IInv'
<1>1. /\ mode = "committing" /\ UNCHANGED <<kind, stage, sidecar, edited, crashes>> /\ checked' = FALSE
      /\ PutAway(CommitMove[1], CommitMove[2])
      /\ mode' = IF CommitMove[2] = "sealed" THEN "closing" ELSE "committing"
  BY DEF CommitStep
<1>2. /\ Journal = "commit_ready" /\ Pending /\ at["sealed"] = Nothing /\ at["swap-retired"] = "old"
      /\ Arrived("commit")
  BY <1>1 DEF IInv, Modes, Witness, Receipts
<1>3. \A l \in Labels : Arrived(l)' = Arrived(l) BY <1>1 DEF Arrived
<1>4. HasNote' = HasNote BY <1>1 DEF HasNote
<1>5. at["publication"] # Nothing => ~Withdrew BY DEF Withdrew
<1>6. /\ at' \in [Places -> Objects]
      /\ mode' \in {"committing", "closing"}
      /\ mode' = "committing" => at'["sealed"] = Nothing
      /\ Others({"journal", "journal-retired", "commit", "done", "sealed"})
      /\ at'["journal"] \in {Nothing, "commit_ready"} /\ at'["journal-retired"] \in {Nothing, "commit_ready"}
      /\ at'["commit"] \in {Nothing, "commit"} /\ at'["done"] \in {Nothing, "commit"}
      /\ at'["sealed"] \in {Nothing, "commit"}
      /\ (Journal = "commit_ready")' /\ Pending'
      /\ (Alone("journal", "journal-retired") /\ Alone("commit", "done") /\ Alone("commit", "sealed")
            /\ Alone("done", "sealed"))'
      /\ at'["done"] # Nothing \/ at'["sealed"] # Nothing => at'["journal-retired"] # Nothing
  <2>1. CASE at["journal"] # Nothing
    <3>1. CommitMove = <<"journal", "journal-retired">> BY <2>1 DEF CommitMove
    <3>2. /\ at' \in [Places -> Objects] /\ at'["journal"] = Nothing /\ at'["journal-retired"] = at["journal"]
          /\ Others({"journal", "journal-retired"})
      BY <1>1, <3>1, PuttingAway DEF IInv, Places
    <3>3. at["journal"] = "commit_ready" /\ at["journal-retired"] = Nothing
      BY <1>2, <2>1 DEF Journal, IInv, Once, Alone
    <3>4. /\ at'["commit"] = at["commit"] /\ at'["done"] = at["done"] /\ at'["sealed"] = at["sealed"]
          /\ Others({"journal", "journal-retired", "commit", "done", "sealed"})
      BY <3>2 DEF Others, Places
    <3>5. mode' = "committing" BY <1>1, <3>1
    <3>6. (Journal = "commit_ready")' /\ Pending' BY <1>2, <3>2, <3>3, <3>4 DEF Journal, Pending
    <3>7. at["commit"] \in {Nothing, "commit"} /\ at["done"] \in {Nothing, "commit"} BY DEF IInv, Belongs
    <3>8. (Alone("journal", "journal-retired") /\ Alone("commit", "done") /\ Alone("commit", "sealed")
            /\ Alone("done", "sealed"))'
      BY <1>2, <3>2, <3>4 DEF IInv, Once, Alone
    <3>9. at'["journal-retired"] # Nothing BY <3>2, <3>3 DEF Nothing
    <3> QED BY <1>2, <3>2, <3>3, <3>4, <3>5, <3>6, <3>7, <3>8, <3>9
  <2>2. CASE at["journal"] = Nothing /\ at["commit"] # Nothing
    <3>1. CommitMove = <<"commit", "done">> BY <2>2 DEF CommitMove
    <3>2. /\ at' \in [Places -> Objects] /\ at'["commit"] = Nothing /\ at'["done"] = at["commit"]
          /\ Others({"commit", "done"})
      BY <1>1, <3>1, PuttingAway DEF IInv, Places
    <3>3. at["journal-retired"] = "commit_ready" BY <1>2, <2>2 DEF Journal
    <3>4. /\ at'["journal"] = Nothing /\ at'["journal-retired"] = "commit_ready" /\ at'["sealed"] = Nothing
          /\ Others({"journal", "journal-retired", "commit", "done", "sealed"})
      BY <1>2, <2>2, <3>2, <3>3 DEF Others, Places
    <3>5. mode' = "committing" BY <1>1, <3>1
    <3>6. (Journal = "commit_ready")' /\ Pending' BY <2>2, <3>2, <3>4 DEF Journal, Pending
    <3>7. at["commit"] \in {Nothing, "commit"} BY DEF IInv, Belongs
    <3>8. (Alone("journal", "journal-retired") /\ Alone("commit", "done") /\ Alone("commit", "sealed")
            /\ Alone("done", "sealed"))'
      BY <3>2, <3>4 DEF Alone
    <3>9. at'["journal-retired"] # Nothing BY <3>4 DEF Nothing
    <3> QED BY <3>2, <3>4, <3>5, <3>6, <3>7, <3>8, <3>9
  <2>3. CASE at["journal"] = Nothing /\ at["commit"] = Nothing
    <3>1. CommitMove = <<"done", "sealed">> BY <2>3 DEF CommitMove
    <3>2. /\ at' \in [Places -> Objects] /\ at'["done"] = Nothing /\ at'["sealed"] = at["done"] /\ at["done"] # Nothing
          /\ Others({"done", "sealed"})
      BY <1>1, <3>1, PuttingAway DEF IInv, Places
    <3>3. at["journal-retired"] = "commit_ready" BY <1>2, <2>3 DEF Journal
    <3>4. /\ at'["journal"] = Nothing /\ at'["journal-retired"] = "commit_ready" /\ at'["commit"] = Nothing
          /\ Others({"journal", "journal-retired", "commit", "done", "sealed"})
      BY <2>3, <3>2, <3>3 DEF Others, Places
    <3>5. mode' = "closing" BY <1>1, <3>1
    <3> QED BY <3>2, <3>4, <3>5 DEF IInv, Belongs, Alone, Pending, Journal, Nothing
  <2> QED BY <2>1, <2>2, <2>3
<1>7. TypeOK' BY <1>1, <1>6 DEF IInv, TypeOK, Objects
<1>8. Belongs' BY <1>1, <1>4, <1>6 DEF IInv, Belongs, Others, Places, Fits, AllPhases
<1>9. Once' BY <1>6 DEF IInv, Once, Alone, Others, Places
<1>10. Witness' BY <1>2, <1>6 DEF Witness, Others, Places
<1>11. Receipts' BY <1>1, <1>2, <1>3, <1>6 DEF IInv, Receipts, Others, Places, Labels
<1>12. Progress' BY <1>1, <1>2, <1>3, <1>4, <1>6 DEF IInv, Progress, Before, Since, Labels
<1>13. Swapped' BY <1>1, <1>2, <1>6 DEF IInv, Swapped, Others, Places
<1>14. Hidden' BY <1>2, <1>6 DEF IInv, Hidden, Others, Places
<1>15. Linked' BY <1>1, <1>2, <1>4, <1>6 DEF IInv, Linked, Others, Places, Early, Nothing
<1>16. Published' BY <1>1, <1>2, <1>4, <1>6 DEF IInv, Published, Withdrew, Others, Places
<1>17. Modes' BY <1>1, <1>2, <1>3, <1>6 DEF Modes, Labels
<1> QED BY <1>7, <1>8, <1>9, <1>10, <1>11, <1>12, <1>13, <1>14, <1>15, <1>16, <1>17 DEF IInv

LEMMA RevalidateKeeps == ASSUME IInv, Revalidate PROVE IInv'
<1>1. mode = "committing" /\ ~checked /\ UNCHANGED <<kind, stage, sidecar, edited, crashes>> BY DEF Revalidate
<1>2. CASE checked' = TRUE /\ UNCHANGED <<at, mode>>
  <2>1. Journal' = Journal /\ Journal = "commit_ready" /\ at["swap-retired"] = "old"
    BY <1>1, <1>2 DEF Journal, IInv, Modes, Witness
  <2>2. TypeOK' BY <1>1, <1>2 DEF IInv, TypeOK
  <2>3. Hidden' /\ Published' BY <1>1, <1>2, <2>1 DEF IInv, Hidden, Published, Withdrew, HasNote
  <2>4. Modes' BY <1>1, <1>2, <2>1 DEF IInv, Modes, Arrived
  <2> QED BY <1>1, <1>2, <2>1, <2>2, <2>3, <2>4, Still
<1>3. CASE at' = Withdrawn /\ mode' = "restoring" /\ UNCHANGED checked
  <2>1. checked' = FALSE BY <1>1, <1>3 DEF IInv, TypeOK
  <2> QED BY <1>1, <1>3, <2>1, Withdrawing
<1> QED BY <1>2, <1>3 DEF Revalidate

-----------------------------------------------------------------------------
(* The witness and the journal come back *)

\* The witness is active again, and then the journal.
LEMMA ComingBack ==
    ASSUME IInv, at' \in {WitnessBack, JournalBack(at), Recovered},
           at' # WitnessBack => at' = Recovered \/ at["done"] = Nothing,
           UNCHANGED <<kind, stage, sidecar, edited, crashes>>
    PROVE  /\ Others({"journal", "journal-retired", "commit", "done"}) /\ at' \in [Places -> Objects]
           /\ at'["done"] = Nothing
           /\ Belongs' /\ Once' /\ Pending' = Pending /\ Journal' = Journal
           /\ at'["journal-retired"] # Nothing => Pending
           /\ at'["commit"] # Nothing => Journal = "commit_ready"
           /\ at'["commit"] # Nothing /\ at' # WitnessBack => at'["journal-retired"] = Nothing
           /\ at'["sealed"] # Nothing => at'["journal-retired"] # Nothing
           /\ at["done"] # Nothing => at'["commit"] # Nothing
           /\ at["commit"] # Nothing => at'["commit"] # Nothing
           /\ at["commit"] = Nothing /\ at["done"] = Nothing => at' = at
<1>0. TypeOK /\ Belongs /\ Once /\ Witness BY DEF IInv
<1> DEFINE W == WitnessBack
<1>1. /\ W \in [Places -> Objects] /\ W["done"] = Nothing
      /\ \A q \in Places \ {"commit", "done"} : W[q] = at[q]
      /\ W["commit"] = IF at["done"] # Nothing THEN at["done"] ELSE at["commit"]
  <2>1. CASE at["done"] # Nothing
    <3>1. W = [at EXCEPT !["commit"] = at["done"], !["done"] = Nothing] BY <2>1 DEF WitnessBack
    <3>2. at["done"] \in Objects /\ Nothing \in Objects BY <1>0 DEF TypeOK, Objects, Places
    <3>3. W \in [Places -> Objects] BY <1>0, <3>1, <3>2 DEF TypeOK, Objects
    <3> QED BY <1>0, <2>1, <3>1, <3>3 DEF TypeOK, Places
  <2>2. CASE at["done"] = Nothing BY <1>0, <2>2 DEF WitnessBack, TypeOK, Objects
  <2> QED BY <2>1, <2>2
<1>2. (at' = JournalBack(at) => at["done"] = Nothing) => at' = W \/ at' = JournalBack(W)
  BY DEF WitnessBack, Recovered
<1>3. at' = W \/ at' = JournalBack(W)
  BY <1>2 DEF Recovered
<1>4. \/ at' = W
      \/ /\ W["commit"] # Nothing /\ W["journal"] = Nothing
         /\ at' \in [Places -> Objects]
         /\ at'["journal"] = W["journal-retired"] /\ at'["journal-retired"] = Nothing
         /\ \A q \in Places \ {"journal", "journal-retired"} : at'[q] = W[q]
  <2>1. CASE W["commit"] # Nothing /\ W["journal"] = Nothing /\ at' = JournalBack(W)
    <3> HIDE DEF W
    <3>1. at' = [W EXCEPT !["journal"] = W["journal-retired"], !["journal-retired"] = Nothing]
      BY <2>1 DEF JournalBack
    <3>2. W["journal-retired"] \in Objects /\ Nothing \in Objects BY <1>1 DEF Objects, Places
    <3>3. at' \in [Places -> Objects] BY <1>1, <3>1, <3>2
    <3> QED BY <1>1, <2>1, <3>1, <3>3 DEF Places
  <2>2. CASE ~(W["commit"] # Nothing /\ W["journal"] = Nothing) /\ at' = JournalBack(W) BY <2>2 DEF JournalBack
  <2> QED BY <1>3, <2>1, <2>2
<1> HIDE DEF W
<1>5. /\ at' \in [Places -> Objects] /\ at'["done"] = Nothing /\ at'["commit"] = W["commit"] /\ at'["sealed"] = at["sealed"]
      /\ Others({"journal", "journal-retired", "commit", "done"})
  BY <1>1, <1>4 DEF Others, Places
<1>6. /\ W["journal"] = at["journal"] /\ W["journal-retired"] = at["journal-retired"]
  BY <1>1 DEF Places
<1>7. Pending' = Pending BY <1>1, <1>5 DEF Pending
<1>8. /\ W["commit"] \in {Nothing, "commit"}
      /\ W["commit"] # Nothing => Journal = "commit_ready"
  <2>1. at["done"] # Nothing => Journal = "commit_ready" BY <1>0 DEF Witness, Belongs, Once, Alone, Journal
  <2> QED BY <1>0, <1>1, <2>1 DEF Witness, Belongs
<1>9. at'["journal"] \in {at["journal"], at["journal-retired"]} /\ at'["journal-retired"] \in {Nothing, at["journal-retired"]}
  BY <1>4, <1>6
<1>10. Journal' = Journal /\ (at'["journal"] = Nothing \/ at'["journal-retired"] = Nothing)
  <2>1. CASE at' = W BY <1>0, <1>6, <2>1 DEF Journal, Once, Alone
  <2>2. CASE W["journal"] = Nothing /\ at'["journal"] = W["journal-retired"] /\ at'["journal-retired"] = Nothing
    BY <1>6, <2>2 DEF Journal
  <2> QED BY <1>4, <2>1, <2>2
<1>11. at["sealed"] # Nothing => at' = W /\ at["done"] = Nothing /\ at["commit"] = Nothing /\ at["journal-retired"] # Nothing
  BY <1>0, <1>1, <1>4 DEF Once, Alone, Witness
<1>12. Belongs'
  <2>1. HasNote' = HasNote BY DEF HasNote
  <2>2. at'["journal"] \in AllPhases \cup {Nothing} /\ at'["journal-retired"] \in {Nothing, "commit_ready"}
    BY <1>0, <1>9 DEF Belongs, AllPhases
  <2> QED BY <1>0, <1>5, <1>8, <1>10, <2>1, <2>2 DEF Belongs, Others, Places, Fits
<1>13. Once' BY <1>0, <1>5, <1>10, <1>11, <1>1 DEF Once, Alone, Others, Places
<1>14. at["commit"] = Nothing /\ at["done"] = Nothing => at' = at
  BY <1>1, <1>4 DEF W, WitnessBack
<1>15. at'["commit"] # Nothing /\ at' # W => at'["journal-retired"] = Nothing BY <1>4
<1>16. at'["journal-retired"] # Nothing => Pending BY <1>0, <1>9 DEF Witness
<1>17. at'["sealed"] # Nothing => at'["journal-retired"] # Nothing BY <1>5, <1>6, <1>11
<1> QED BY <1>1, <1>5, <1>7, <1>8, <1>10, <1>12, <1>13, <1>14, <1>15, <1>16, <1>17 DEF W

LEMMA BackKeeps ==
    ASSUME IInv, at' \in {WitnessBack, JournalBack(at), Recovered},
           at' # WitnessBack => at' = Recovered \/ at["done"] = Nothing,
           UNCHANGED <<kind, stage, sidecar, edited, crashes>>,
           mode' \in {"restoring", "blocked", "opened", "ended"}, checked' = FALSE,
           Hidden', Published', Modes'
    PROVE  IInv'
<1>1. /\ Others({"journal", "journal-retired", "commit", "done"}) /\ at' \in [Places -> Objects]
      /\ at'["done"] = Nothing /\ Belongs' /\ Once' /\ Pending' = Pending /\ Journal' = Journal
      /\ at'["journal-retired"] # Nothing => Pending
      /\ at'["commit"] # Nothing => Journal = "commit_ready"
      /\ at'["sealed"] # Nothing => at'["journal-retired"] # Nothing
  BY ComingBack
<1>2. HasNote' = HasNote BY DEF HasNote
<1>3. \A l \in Labels : Arrived(l)' = Arrived(l) BY DEF Arrived
<1>4. TypeOK' BY <1>1 DEF IInv, TypeOK, Objects
<1>5. Witness' BY <1>1 DEF IInv, Witness, Others, Places
<1>6. Receipts' BY <1>1, <1>3 DEF IInv, Receipts, Others, Places, Labels
<1>7. Progress' BY <1>1, <1>2, <1>3 DEF IInv, Progress, Before, Since, Others, Places, Labels
<1>8. Swapped' /\ Linked' BY <1>1, <1>2 DEF IInv, Swapped, Linked, Others, Places
<1> QED BY <1>1, <1>4, <1>5, <1>6, <1>7, <1>8 DEF IInv

LEMMA RestoreKeeps == ASSUME IInv, Restore PROVE IInv'
<1>1. mode = "restoring" /\ UNCHANGED <<kind, stage, sidecar, edited, crashes>> BY DEF Restore
<1>2. /\ Journal = "commit_ready" /\ at["sealed"] = Nothing /\ ~checked /\ Arrived("commit") /\ Pending
  BY <1>1 DEF IInv, Modes, Receipts
<1>3. CASE at' = WitnessBack /\ UNCHANGED <<mode, checked>>
  <2>1. at' \in {WitnessBack, JournalBack(at), Recovered} BY <1>3
  <2>2. Others({"journal", "journal-retired", "commit", "done"}) /\ Journal' = Journal
    BY <1>1, <1>3, <2>1, ComingBack
  <2>3. checked' = FALSE /\ mode' = "restoring" BY <1>1, <1>2, <1>3 DEF IInv, TypeOK
  <2>4. Hidden' BY <1>2, <2>2 DEF IInv, Hidden, Others, Places
  <2>5. Published' BY <1>1, <2>2, <2>3 DEF IInv, Published, Withdrew, Others, Places, HasNote
  <2>6. Modes' BY <1>1, <1>2, <2>2, <2>3 DEF Modes, Arrived, Others, Places
  <2> QED BY <1>1, <1>3, <2>1, <2>3, <2>4, <2>5, <2>6, BackKeeps
<1>4. CASE WitnessBack = at /\ at' = JournalBack(at) /\ Block
  <2>1. at' \in {WitnessBack, JournalBack(at), Recovered} /\ mode' = "blocked" /\ checked' = FALSE
    BY <1>4 DEF Block
  <2>2. at["done"] = Nothing
    <3>1. SUFFICES ASSUME at["done"] # Nothing PROVE FALSE OBVIOUS
    <3>2. at = [at EXCEPT !["commit"] = at["done"], !["done"] = Nothing] BY <1>4, <3>1 DEF WitnessBack
    <3> QED BY <3>1, <3>2 DEF IInv, TypeOK, Places
  <2>3. Others({"journal", "journal-retired", "commit", "done"}) /\ Journal' = Journal
    BY <1>1, <2>1, <2>2, ComingBack
  <2>4. Hidden' BY <1>2, <2>3 DEF IInv, Hidden, Others, Places
  <2>5. Published' BY <1>1, <2>1, <2>3 DEF IInv, Published, Withdrew, Others, Places, HasNote
  <2>6. Modes' BY <1>1, <1>2, <2>1, <2>3 DEF Modes, Arrived, Others, Places
  <2> QED BY <1>1, <2>1, <2>2, <2>4, <2>5, <2>6, BackKeeps
<1> QED BY <1>3, <1>4 DEF Restore

\* The workflow is opened: nothing is left to do, or the journal is active.
LEMMA OpenKeeps == ASSUME IInv, Open PROVE IInv'
<1>1. /\ mode \in {"down", "blocked"} /\ checked' = FALSE /\ at' = Recovered
      /\ mode' = IF ~Needed THEN "ended" ELSE "opened"
      /\ UNCHANGED <<kind, stage, sidecar, edited, crashes>>
  BY DEF Open
<1>2. at' \in {WitnessBack, JournalBack(at), Recovered} BY <1>1
<1>3. /\ Others({"journal", "journal-retired", "commit", "done"}) /\ at' \in [Places -> Objects]
      /\ at'["done"] = Nothing /\ Belongs' /\ Once' /\ Pending' = Pending /\ Journal' = Journal
      /\ at'["journal-retired"] # Nothing => Pending
      /\ at'["sealed"] # Nothing => at'["journal-retired"] # Nothing
      /\ at["commit"] = Nothing /\ at["done"] = Nothing => at' = at
      /\ at["done"] # Nothing => at'["commit"] # Nothing
      /\ at["commit"] # Nothing => at'["commit"] # Nothing
  BY <1>1, <1>2, ComingBack
<1>4. at'["swap"] = at["swap"] /\ at'["source"] = at["source"] /\ at'["publication"] = at["publication"]
      /\ at'["sealed"] = at["sealed"]
  BY <1>3 DEF Others, Places
<1>5. mode \notin {"work", "staging", "swapped"} /\ mode' \in {"opened", "ended"} BY <1>1
<1>6. Hidden'
  <2>1. at["swap"] = Foreign => Needed
    <3>1. at["swap"] = Foreign => Journal = "source_swap_prepared" BY DEF IInv, Hidden
    <3> QED BY <3>1 DEF Needed, Journal, IInv, Belongs, Nothing
  <2> QED BY <1>1, <1>3, <1>4, <2>1 DEF IInv, Hidden
<1>7. Published'
  <2>1. SUFFICES ASSUME HasNote, Journal \in {"manifest_linked", "manifest_published", "commit_ready"},
                        at["publication"] # "manifest", "publication" \notin edited
                 PROVE  Withdrew'
    BY <1>1, <1>3, <1>4 DEF Published, HasNote
  <2>2. at["publication"] = Nothing /\ at["sealed"] = Nothing BY <2>1 DEF IInv, Published, Withdrew
  <2>3. Needed
    BY <2>1, <2>2 DEF IInv, Needed, Journal, Witness, Pending, Nothing
  <2> QED BY <1>1, <1>4, <2>2, <2>3 DEF Withdrew
<1>8. Modes'
  <2>1. Needed => at'["journal-retired"] = Nothing
    <3>1. CASE at["commit"] # Nothing \/ at["done"] # Nothing
      <4>1. at'["commit"] # Nothing BY <1>3, <3>1
      <4>2. CASE at' # WitnessBack BY <1>1, <1>2, <4>1, <4>2, ComingBack
      <4>3. CASE at' = WitnessBack
        <5>1. WitnessBack["commit"] # Nothing /\ JournalBack(WitnessBack) = WitnessBack
          BY <1>1, <4>1, <4>3 DEF Recovered
        <5>2. SUFFICES ASSUME at'["journal-retired"] # Nothing PROVE FALSE OBVIOUS
        <5>3. at'["journal"] = Nothing BY <1>3, <5>2 DEF Once, Alone
        <5>4. at' = [at' EXCEPT !["journal"] = at'["journal-retired"], !["journal-retired"] = Nothing]
          BY <4>1, <4>3, <5>1, <5>3 DEF JournalBack
        <5> QED BY <1>3, <5>2, <5>4 DEF Places
      <4> QED BY <4>2, <4>3
    <3>2. CASE at["commit"] = Nothing /\ at["done"] = Nothing
      <4>1. SUFFICES ASSUME Needed, at["journal-retired"] # Nothing PROVE FALSE BY <1>3, <3>2
      <4>2. at["journal"] = Nothing /\ Journal = "commit_ready" BY <4>1 DEF IInv, Once, Alone, Journal, Belongs
      <4>3. at["source"] # "old" BY <4>2 DEF IInv, Swapped, Early, Nothing, Foreign
      <4> QED BY <3>2, <4>1, <4>2, <4>3 DEF Needed
    <3> QED BY <3>1, <3>2
  <2>2. at'["sealed"] # Nothing => mode' = "ended" BY <1>1, <1>3, <2>1
  <2> QED BY <1>1, <1>5, <2>1, <2>2 DEF Modes
<1> QED BY <1>1, <1>2, <1>5, <1>6, <1>7, <1>8, BackKeeps

-----------------------------------------------------------------------------
(* Another program *)

LEMMA EditKeeps == ASSUME IInv, Edit PROVE IInv'
<1>1. PICK p \in EditedPlaces \ edited : at' = [at EXCEPT ![p] = Foreign] /\ edited' = edited \union {p}
  BY DEF Edit
<1>2. UNCHANGED <<kind, stage, sidecar, mode, checked, crashes>> /\ at["sealed"] = Nothing BY DEF Edit
<1>3. p \in {"source", "backup", "artifact", "publication"} /\ p \notin edited BY FilesAssumption DEF EditsAssumption
<1>4. /\ at' \in [Places -> Objects] /\ at'[p] = Foreign /\ Others({p})
  <2>1. p \in Places /\ Foreign \in Objects BY <1>3 DEF Places, Objects
  <2> QED BY <1>1, <2>1 DEF IInv, TypeOK, Objects, Others
<1>5. Others({"source", "backup", "artifact", "publication"}) BY <1>3, <1>4 DEF Others
<1>6. Journal' = Journal /\ Pending' = Pending /\ HasNote' = HasNote
  BY <1>2, <1>5 DEF Others, Places, Journal, Pending, HasNote
<1>7. \A l \in Labels : Arrived(l)' = Arrived(l) BY <1>2 DEF Arrived
<1>8. \A q \in {"source", "backup", "artifact", "publication"} :
          (at'[q] = Foreign /\ q \in edited' /\ q = p) \/ (at'[q] = at[q] /\ (q \in edited' <=> q \in edited))
  <2>1. \A q \in {"source", "backup", "artifact", "publication"} \ {p} : at'[q] = at[q] BY <1>4 DEF Others, Places
  <2> QED BY <1>1, <1>4, <2>1
<1>9. TypeOK'
  <2>1. edited' \subseteq EditedPlaces BY <1>1 DEF IInv, TypeOK
  <2> QED BY <1>2, <1>4, <2>1 DEF IInv, TypeOK, Objects
<1>10. Belongs' BY <1>2, <1>5, <1>6, <1>8 DEF IInv, Belongs, Others, Places, Fits
<1>11. Once' BY <1>5 DEF IInv, Once, Alone, Others, Places
<1>12. Witness' BY <1>2, <1>5, <1>6 DEF IInv, Witness, Others, Places
<1>13. Receipts' BY <1>2, <1>5, <1>6, <1>7, <1>8 DEF IInv, Receipts, Others, Places, Labels
<1>14. Progress' BY <1>2, <1>5, <1>6, <1>7 DEF IInv, Progress, Before, Since, Others, Places, Labels
<1>15. at'["swap"] = at["swap"] BY <1>5 DEF Others, Places
<1>16. p = "source" => at["swap"] # Foreign /\ at["source"] # Foreign
  BY <1>3 DEF IInv, Swapped
<1>17. Swapped'
  <2>1. CASE p = "source"
    <3>1. at'["source"] = Foreign /\ "source" \in edited' BY <1>8, <1>3, <1>4, <1>1, <2>1
    <3>2. at'["swap-retired"] = at["swap-retired"] BY <1>5 DEF Others, Places
    <3> QED BY <1>6, <1>15, <1>16, <2>1, <3>1, <3>2 DEF IInv, Swapped, Foreign
  <2>2. CASE p # "source"
    <3>1. at'["source"] = at["source"] /\ ("source" \in edited' <=> "source" \in edited) BY <1>8, <2>2
    <3>2. at'["swap-retired"] = at["swap-retired"] BY <1>5 DEF Others, Places
    <3> QED BY <1>6, <1>15, <3>1, <3>2 DEF IInv, Swapped
  <2> QED BY <2>1, <2>2
<1>18. Hidden'
  <2>1. at["swap"] = Foreign => p # "source" /\ at'["source"] = at["source"] BY <1>8, <1>16
  <2>2. p # "source" => edited' # {"source"} BY <1>1
  <2> QED BY <1>2, <1>6, <1>15, <2>1, <2>2 DEF IInv, Hidden
<1>19. at'["publication"] = "manifest" => at["publication"] = "manifest" BY <1>8 DEF Foreign
<1>20. Linked' BY <1>2, <1>6, <1>8, <1>19 DEF IInv, Linked
<1>21. at'["sealed"] = at["sealed"] BY <1>5 DEF Others, Places
<1>22. Published' BY <1>2, <1>6, <1>8, <1>21 DEF IInv, Published, Withdrew
<1>23. Modes' BY <1>2, <1>5, <1>6, <1>7, <1>8 DEF IInv, Modes, Others, Places, Labels
<1> QED BY <1>9, <1>10, <1>11, <1>12, <1>13, <1>14, <1>17, <1>18, <1>20, <1>22, <1>23 DEF IInv

-----------------------------------------------------------------------------
(* The promises of the migration *)

LEMMA Start == Init => IInv
<1> SUFFICES ASSUME Init PROVE IInv OBVIOUS
<1> USE FilesAssumption DEF Init
<1>1. /\ at["source"] = "old" /\ at["backup"] = Nothing /\ at["artifact"] = Nothing /\ at["publication"] = Nothing
      /\ at["swap"] = Nothing /\ at["swap-retired"] = Nothing /\ at["candidate"] = Nothing
      /\ at["manifest-retired"] = Nothing /\ at["manifest-aborted"] = Nothing /\ at["anchor"] = Nothing
      /\ at["anchor-retired"] = Nothing /\ at["journal"] = Nothing /\ at["journal-retired"] = Nothing
      /\ at["commit"] = Nothing /\ at["done"] = Nothing /\ at["sealed"] = Nothing
  BY DEF Places
<1>2. \A l \in Labels : sidecar[l].receipt = Nothing /\ sidecar[l].file = Nothing OBVIOUS
<1>3. stage["manifest_linked"] = Nothing BY DEF AllPhases
<1>4. at \in [Places -> Objects] BY DEF Objects
<1>5. sidecar \in [Labels -> [receipt: {Nothing, "torn", "declared", "allocated", "ready", "published"},
                               file: {Nothing, "allocation", "candidate", "capture", "target"},
                               whole: BOOLEAN]]
  OBVIOUS
<1>6. mode = "down" /\ checked = FALSE /\ edited = {} /\ crashes = 0 /\ kind \in Kinds OBVIOUS
<1>7. stage \in [AllPhases -> {Nothing, "torn", "next", "past"}] OBVIOUS
<1>8. 0 \in 0 .. MaxCrashes BY DEF BoundsAssumption
<1> HIDE DEF Init
<1>9. Journal = Nothing /\ ~Pending BY <1>1 DEF Journal, Pending
<1>10. TypeOK BY <1>4, <1>5, <1>6, <1>7, <1>8 DEF TypeOK, Objects
<1>11. Belongs /\ Once /\ Witness BY <1>1, <1>6, <1>9 DEF Belongs, Once, Alone, Witness, Fits, Nothing
<1>12. \A l \in Labels : ~Arrived(l) BY <1>2 DEF Arrived, Nothing
<1>13. Receipts BY <1>1, <1>2, <1>9, <1>12 DEF Receipts, Labels, Nothing
<1>14. Progress BY <1>1, <1>9, <1>12 DEF Progress, Before, Since, Labels, Nothing
<1>15. Swapped /\ Hidden BY <1>1, <1>6, <1>9 DEF Swapped, Hidden, Nothing, Foreign, Early
<1>16. Linked /\ Published BY <1>1, <1>3, <1>9 DEF Linked, Published, Nothing
<1>17. Modes BY <1>1, <1>6 DEF Modes
<1> QED BY <1>10, <1>11, <1>13, <1>14, <1>15, <1>16, <1>17 DEF IInv

LEMMA StepKeeps == IInv /\ [Next]_vars => IInv'
<1> SUFFICES ASSUME IInv, [Next]_vars PROVE IInv' OBVIOUS
<1>1. CASE UNCHANGED vars
  <2>1. UNCHANGED <<kind, at, stage, sidecar, mode, checked, edited, crashes>> BY <1>1 DEF vars
  <2>2. Journal' = Journal /\ TypeOK' BY <2>1 DEF Journal, IInv, TypeOK
  <2>3. Hidden' /\ Published' BY <2>1, <2>2 DEF IInv, Hidden, Published, Withdrew, HasNote
  <2>4. Modes' BY <2>1, <2>2 DEF IInv, Modes, Arrived
  <2>5. mode' = "committing" => at["swap-retired"] = "old" BY <2>1 DEF IInv, Witness
  <2> QED BY <2>1, <2>2, <2>3, <2>4, <2>5, Still
<1>2. CASE ReadJournal \/ Begin \/ EndStage \/ PublishJournal \/ Look \/ WriteFile \/ AdvancePhase \/ NotBound
  BY <1>2, ReadJournalKeeps, BeginKeeps, EndStageKeeps, PublishJournalKeeps, LookKeeps, WriteFileKeeps,
     AdvancePhaseKeeps, NotBoundKeeps
<1>3. CASE LookAtSource \/ ExchangeSource \/ LookAtDisplaced \/ BindSource
           \/ LinkManifest \/ BindManifest \/ RetireCandidate \/ Withdraw
  BY <1>3, LookAtSourceKeeps, ExchangeSourceKeeps, LookAtDisplacedKeeps, BindSourceKeeps, LinkManifestKeeps,
     BindManifestKeeps, RetireCandidateKeeps, WithdrawKeeps
<1>4. CASE StartCommit \/ Tidy \/ CommitStep \/ Revalidate \/ Restore \/ Close
  BY <1>4, StartCommitKeeps, TidyKeeps, CommitStepKeeps, RevalidateKeeps, RestoreKeeps, CloseKeeps
<1>5. CASE Open \/ Edit \/ Crash BY <1>5, OpenKeeps, EditKeeps, CrashKeeps
<1> QED BY <1>1, <1>2, <1>3, <1>4, <1>5 DEF Next, Steps

LEMMA Invariant == Spec => []IInv
BY Start, StepKeeps, PTL DEF Spec

\* Receipts, journal stages and places take only the values they should.
THEOREM MigrationTypeCorrect == Spec => []TypeOK
<1>1. IInv => TypeOK BY DEF IInv
<1> QED BY <1>1, Invariant, PTL

\* The sealed transaction is whole, whatever crashed and was resumed before
\* (_remove_migration_journal, workflow.py:4244).
THEOREM SealedWhole == Spec => []SealedIsWhole
<1>1. ASSUME IInv PROVE SealedIsWhole
  <2>1. SUFFICES ASSUME at["sealed"] # Nothing
                 PROVE  /\ at["source"] = "new" \/ "source" \in edited
                        /\ at["backup"] = "backup" \/ "backup" \in edited
                        /\ at["swap-retired"] = "old"
                        /\ at["journal"] = Nothing /\ at["commit"] = Nothing /\ at["done"] = Nothing
                        /\ HasNote => /\ at["artifact"] = "artifact" \/ "artifact" \in edited
                                      /\ at["publication"] = "manifest" \/ "publication" \in edited
    BY DEF SealedIsWhole
  <2>2. at["journal-retired"] = "commit_ready" /\ at["swap-retired"] = "old" BY <1>1, <2>1 DEF IInv, Witness, Belongs
  <2>3. at["journal"] = Nothing /\ at["commit"] = Nothing /\ at["done"] = Nothing /\ Journal = "commit_ready"
    BY <1>1, <2>1, <2>2 DEF IInv, Once, Alone, Journal, Nothing
  <2>4. at["source"] = "new" \/ "source" \in edited BY <1>1, <2>3 DEF IInv, Swapped, Early, Nothing
  <2>5. Arrived("backup") /\ (HasNote => Arrived("artifact"))
    BY <1>1, <2>3 DEF IInv, Receipts, Progress, Since, Arrived, Labels, Nothing
  <2>6. HasNote => at["publication"] = "manifest" \/ "publication" \in edited
    BY <1>1, <2>1, <2>3 DEF IInv, Published, Withdrew
  <2> QED BY <1>1, <2>2, <2>3, <2>4, <2>5, <2>6 DEF IInv, Receipts
<1> QED BY <1>1, Invariant, PTL

\* A batch file another program wrote is never left hidden by the new one
\* (_resolve_source_swap, workflow.py:5025).
THEOREM EditedStands == Spec => []EditedSourceStands
<1>1. IInv => EditedSourceStands BY DEF IInv, Swapped, Hidden, EditedSourceStands
<1> QED BY <1>1, Invariant, PTL

\* An object that is not a journal stays when its place keeps it, or another takes it.
LEMMA Kept ==
    ASSUME NEW S \in SUBSET Places, Others(S),
           \A p \in S : at[p] \in AllPhases \cup {Nothing} \/ \E q \in Places : at'[q] = at[p]
    PROVE  Held \subseteq Held'
<1>1. SUFFICES ASSUME NEW p \in Places, at[p] \notin AllPhases \cup {Nothing} PROVE \E q \in Places : at'[q] = at[p]
  BY DEF Held
<1> QED BY <1>1 DEF Others

LEMMA KeptWhole == ASSUME at' = at PROVE Held \subseteq Held'
BY DEF Held

LEMMA KeptAway ==
    ASSUME TypeOK, NEW p \in Places, NEW q \in Places, p # q, PutAway(p, q), at[q] \in AllPhases \cup {Nothing}
    PROVE  Held \subseteq Held'
<1>1. at'[q] = at[p] /\ Others({p, q}) BY PuttingAway
<1> QED BY <1>1, Kept

LEMMA KeptExchanged == ASSUME TypeOK, at' = Exchange PROVE Held \subseteq Held'
<1>1. "source" \in Places /\ "swap" \in Places BY DEF Places
<1> QED BY <1>1, Exchanging, Kept

LEMMA KeptNoted == ASSUME IInv, NEW p \in AllPhases, at' = [at EXCEPT !["journal"] = p] PROVE Held \subseteq Held'
<1>1. "journal" \in Places /\ at["journal"] \in AllPhases \cup {Nothing} BY DEF Places, IInv, Belongs
<1>2. Others({"journal"}) BY Noting DEF IInv
<1> QED BY <1>1, <1>2, Kept

LEMMA KeptWithdrawn == ASSUME IInv, at' = Withdrawn PROVE Held \subseteq Held'
<1>1. CASE at["publication"] = "manifest"
  <2>1. at' = [at EXCEPT !["publication"] = Nothing, !["manifest-aborted"] = "manifest"] BY <1>1 DEF Withdrawn
  <2>2. at'["manifest-aborted"] = "manifest" /\ Others({"publication", "manifest-aborted"})
    BY <2>1 DEF IInv, TypeOK, Others, Places
  <2>3. at["manifest-aborted"] \in {Nothing, "manifest"} BY DEF IInv, Belongs
  <2>4. {"publication", "manifest-aborted"} \subseteq Places BY DEF Places
  <2> QED BY <1>1, <2>2, <2>3, <2>4, Kept
<1>2. CASE at["publication"] # "manifest" BY <1>2, KeptWhole DEF Withdrawn
<1> QED BY <1>1, <1>2

LEMMA KeptBack ==
    ASSUME IInv, at' \in {WitnessBack, JournalBack(at), Recovered},
           at' # WitnessBack => at' = Recovered \/ at["done"] = Nothing,
           UNCHANGED <<kind, stage, sidecar, edited, crashes>>
    PROVE  Held \subseteq Held'
<1>1. /\ Others({"journal", "journal-retired", "commit", "done"}) /\ Belongs'
      /\ at["done"] # Nothing => at'["commit"] # Nothing
      /\ at["commit"] # Nothing => at'["commit"] # Nothing
  BY ComingBack
<1>2. /\ at["journal"] \in AllPhases \cup {Nothing} /\ at["journal-retired"] \in AllPhases \cup {Nothing}
      /\ at["commit"] \in {Nothing, "commit"} /\ at["done"] \in {Nothing, "commit"}
      /\ at'["commit"] \in {Nothing, "commit"}
  BY <1>1 DEF IInv, Belongs, AllPhases
<1>3. {"journal", "journal-retired", "commit", "done"} \subseteq Places BY DEF Places
<1> QED BY <1>1, <1>2, <1>3, Kept

\* No step of the migration takes away the last name of a file: every move finds its
\* place empty, or exchanges two (workflow.py:1039).
THEOREM NothingLost == Spec => NothingIsLost
<1> DEFINE Holds == edited' = edited => Held \subseteq Held'
<1>1. ASSUME IInv, [Next]_vars PROVE [Holds]_vars
  <2>1. SUFFICES ASSUME Next, edited' = edited PROVE Held \subseteq Held' BY <1>1
  <2>2. CASE UNCHANGED at BY <2>2, KeptWhole
  <2>3. CASE Open BY <1>1, <2>3, KeptBack DEF Open
  <2>4. CASE PublishJournal BY <1>1, <2>4, KeptNoted DEF PublishJournal, AllPhases
  <2>5. CASE WriteFile
    <3>1. PICK l \in Written : Declare(l) \/ Fill(l) \/ Publish(l) BY <2>5 DEF WriteFile
    <3>2. CASE /\ MayPublish(l) /\ sidecar[l].file = "capture" /\ at' = [at EXCEPT ![Target(l)] = Object(l)]
      <4>1. at[Target(l)] = Nothing /\ Target(l) \in Places BY <3>2 DEF MayPublish, Written, Target, Places
      <4>2. Others({Target(l)}) BY <3>2, <4>1, <1>1 DEF IInv, TypeOK, Others
      <4> QED BY <4>1, <4>2, Kept
    <3> QED BY <2>2, <3>1, <3>2 DEF Declare, Fill, Publish
  <2>6. ASSUME NEW next, next \in AllPhases, BeginStage(next) \/ ExchangeJournal(next) \/ TornStage(next)
        PROVE  Held \subseteq Held'
    BY <1>1, <2>2, <2>6, KeptNoted DEF BeginStage, ExchangeJournal, TornStage
  <2>7. PhaseNow BY <1>1, Now
  <2>8. CASE AdvancePhase
    <3>1. Journal # "commit_ready" /\ Journal # Nothing
      BY <2>8 DEF AdvancePhase, PhaseDone, Working, Journal
    <3> QED BY <2>6, <2>7, <2>8, <3>1, Following DEF AdvancePhase, Advance
  <2>9. CASE BindSource
    <3>1. Journal = "source_swap_prepared" BY <1>1, <2>9 DEF BindSource, IInv, Modes
    <3> QED BY <2>6, <2>7, <2>9, <3>1, Following DEF BindSource, Nothing
  <2>10. CASE ExchangeSource BY <1>1, <2>10, KeptExchanged DEF ExchangeSource, IInv
  <2>11. CASE LookAtDisplaced BY <1>1, <2>2, <2>11, KeptExchanged DEF LookAtDisplaced, IInv
  <2>12. CASE LinkManifest
    <3>1. CASE at["publication"] = Nothing /\ at' = [at EXCEPT !["publication"] = at["candidate"]]
      <4>1. "publication" \in Places BY DEF Places
      <4>2. Others({"publication"}) BY <1>1, <3>1 DEF IInv, TypeOK, Others
      <4> QED BY <3>1, <4>1, <4>2, Kept
    <3> QED BY <2>2, <2>12, <3>1 DEF LinkManifest, BeginStage
  <2>13. CASE BindManifest BY <2>6, <2>13 DEF BindManifest, AllPhases
  <2>14. CASE RetireCandidate
    <3>1. PutAway("candidate", "manifest-retired") /\ at["candidate"] # Nothing
      BY <2>14 DEF RetireCandidate, PutAway
    <3>2. at["manifest-retired"] = Nothing BY <1>1, <3>1 DEF IInv, Once, Alone
    <3> QED BY <1>1, <3>1, <3>2, KeptAway DEF IInv, Places
  <2>15. CASE Withdraw BY <1>1, <2>15, KeptWithdrawn DEF Withdraw
  <2>16. CASE Tidy
    <3>1. CASE PutAway("swap", "swap-retired")
      <4>1. at["swap-retired"] = Nothing BY <1>1, <3>1 DEF IInv, Once, Alone, PutAway
      <4> QED BY <1>1, <3>1, <4>1, KeptAway DEF IInv, Places
    <3>2. CASE PutAway("anchor", "anchor-retired")
      <4>1. at["anchor-retired"] = Nothing BY <1>1, <3>2 DEF IInv, Once, Alone, PutAway
      <4> QED BY <1>1, <3>2, <4>1, KeptAway DEF IInv, Places
    <3>3. CASE at' = (IF Bound THEN at ELSE Withdrawn) BY <1>1, <2>2, <3>3, KeptWithdrawn
    <3> QED BY <2>16, <3>1, <3>2, <3>3 DEF Tidy
  <2>17. CASE CommitStep
    <3>1. PutAway(CommitMove[1], CommitMove[2]) BY <2>17 DEF CommitStep
    <3>2. \/ CommitMove[1] = "journal" /\ CommitMove[2] = "journal-retired"
          \/ CommitMove[1] = "commit" /\ CommitMove[2] = "done"
          \/ CommitMove[1] = "done" /\ CommitMove[2] = "sealed"
      BY DEF CommitMove
    <3>3. at[CommitMove[2]] \in AllPhases \cup {Nothing}
      <4>1. at["journal-retired"] \in AllPhases \cup {Nothing} BY <1>1 DEF IInv, Belongs, AllPhases
      <4>2. (at["commit"] # Nothing => at["done"] = Nothing) /\ (at["done"] # Nothing => at["sealed"] = Nothing)
        BY <1>1 DEF IInv, Once, Alone
      <4> QED BY <3>1, <3>2, <4>1, <4>2 DEF PutAway
    <3>4. CommitMove[1] \in Places /\ CommitMove[2] \in Places /\ CommitMove[1] # CommitMove[2]
      BY <3>2 DEF Places
    <3> QED BY <1>1, <3>1, <3>3, <3>4, KeptAway DEF IInv
  <2>18. CASE Revalidate BY <1>1, <2>2, <2>18, KeptWithdrawn DEF Revalidate
  <2>19. CASE Restore
    <3>1. CASE at' = WitnessBack BY <1>1, <2>19, <3>1, KeptBack DEF Restore
    <3>2. CASE WitnessBack = at /\ at' = JournalBack(at)
      <4>1. at["done"] = Nothing
        <5>1. SUFFICES ASSUME at["done"] # Nothing PROVE FALSE OBVIOUS
        <5>2. at = [at EXCEPT !["commit"] = at["done"], !["done"] = Nothing] BY <3>2, <5>1 DEF WitnessBack
        <5> QED BY <1>1, <5>1, <5>2 DEF IInv, TypeOK, Places
      <4> QED BY <1>1, <2>19, <3>2, <4>1, KeptBack DEF Restore
    <3> QED BY <2>19, <3>1, <3>2 DEF Restore
  <2>20. CASE ReadJournal \/ Begin \/ EndStage \/ Look \/ NotBound \/ LookAtSource \/ StartCommit \/ Close \/ Crash
    <3>1. UNCHANGED at
      BY <2>20 DEF ReadJournal, Begin, EndStage, Look, NotBound, LookAtSource, StartCommit, Close, Crash
    <3> QED BY <2>2, <3>1
  <2>21. CASE Edit
    <3>1. PICK p \in EditedPlaces \ edited : edited' = edited \union {p} BY <2>21 DEF Edit
    <3> QED BY <2>1, <3>1
  <2> QED BY <2>1, <2>3, <2>4, <2>5, <2>8, <2>9, <2>10, <2>11, <2>12, <2>13, <2>14, <2>15, <2>16, <2>17,
             <2>18, <2>19, <2>20, <2>21 DEF Next, Steps
<1> QED BY <1>1, Invariant, PTL DEF Spec, NothingIsLost

-----------------------------------------------------------------------------
(* The locks of a state root *)

\* Who is inside the transaction holds the publication file.
LockInv ==
    /\ file \in L!Threads \cup {None}
    /\ thread \in [L!Threads -> {"idle"} \cup L!ClaimSteps \cup L!PublicationSteps \cup L!ReleaseSteps]
    /\ \A t \in L!Threads : thread[t] = "held" => file = t

\* A thread that goes to another step than "held" leaves the file alone.
LEMMA Elsewhere ==
    ASSUME LockInv, NEW t \in L!Threads,
           NEW where \in {"idle"} \cup L!ClaimSteps \cup L!PublicationSteps \cup L!ReleaseSteps,
           where # "held", L!Go(t, where), file' = file
    PROVE  LockInv'
BY DEF LockInv, L!Go

LEMMA LockStep == LockInv /\ [L!Next]_(L!vars) => LockInv'
<1> SUFFICES ASSUME LockInv, [L!Next]_(L!vars) PROVE LockInv' OBVIOUS
<1> USE FilesAssumption DEF L!LocksAssumption
<1>1. CASE UNCHANGED L!vars BY <1>1 DEF LockInv, L!vars
<1>2. ASSUME NEW p \in Procs, L!Claims(p) \/ L!Releases(p) PROVE LockInv'
  <2>1. p \in L!Threads BY DEF L!Threads
  <2>2. file' = file /\ \E where \in {"idle"} \cup L!ClaimSteps \cup L!ReleaseSteps : L!Go(p, where)
    BY <1>2 DEF L!Claims, L!Releases, L!ClaimMutex, L!ClaimRoot, L!ClaimFile, L!ClaimShare, L!GiveUp,
                L!EndWork, L!Unregister, L!ReleaseFile, L!ReleaseRoot, L!ClaimSteps, L!ReleaseSteps
  <2>3. "held" \notin {"idle"} \cup L!ClaimSteps \cup L!ReleaseSteps BY DEF L!ClaimSteps, L!ReleaseSteps
  <2> QED BY <2>1, <2>2, <2>3, Elsewhere
<1>3. ASSUME NEW p \in Procs, L!Crash(p) PROVE LockInv'
  <2> DEFINE gone == {t \in L!Threads : L!Home(t) = p}
  <2>1. /\ file' = IF file \in gone THEN None ELSE file
        /\ thread' = [t \in L!Threads |-> IF t \in gone THEN "idle" ELSE thread[t]]
    BY <1>3 DEF L!Crash
  <2> QED BY <2>1 DEF LockInv
<1>4. ASSUME NEW t \in L!Threads, L!Begin(t) PROVE LockInv'
  <2>1. L!Go(t, "turn") /\ file' = file BY <1>4 DEF L!Begin
  <2> QED BY <2>1, Elsewhere DEF L!PublicationSteps
<1>5. ASSUME NEW t \in L!Threads, L!Publishes(t) PROVE LockInv'
  <2>1. CASE L!TakeTurn(t) \/ L!Look(t) \/ L!AskRoot(t) \/ L!GetRoot(t) \/ L!GiveRoot(t) \/ L!GetShare(t)
    <3>1. file' = file /\ \E where \in {"idle"} \cup L!ClaimSteps \cup (L!PublicationSteps \ {"held"}) : L!Go(t, where)
      BY <2>1 DEF L!TakeTurn, L!Look, L!AskRoot, L!GetRoot, L!GiveRoot, L!GetShare, L!Done,
                  L!ClaimSteps, L!PublicationSteps
    <3>2. "held" \notin {"idle"} \cup L!ClaimSteps BY DEF L!ClaimSteps
    <3> QED BY <3>1, <3>2, Elsewhere
  <2>2. CASE L!GetFile(t)
    <3>1. CASE L!FileFree /\ file' = t /\ L!Go(t, "held")
      <4>1. \A u \in L!Threads : thread[u] # "held" BY <3>1 DEF LockInv, L!FileFree
      <4> QED BY <3>1, <4>1 DEF LockInv, L!Go, L!PublicationSteps
    <3>2. CASE file' = file /\ L!Go(t, "failed") BY <3>2, Elsewhere DEF L!PublicationSteps
    <3> QED BY <2>2, <3>1, <3>2 DEF L!GetFile, L!LockRefused
  <2>3. CASE L!Leave(t)
    <3>1. thread[t] = "held" /\ file' = None /\ L!Go(t, "give root") BY <2>3 DEF L!Leave
    <3>2. \A u \in L!Threads \ {t} : thread[u] # "held" BY <3>1 DEF LockInv
    <3> QED BY <3>1, <3>2 DEF LockInv, L!Go, L!PublicationSteps
  <2> QED BY <1>5, <2>1, <2>2, <2>3 DEF L!Publishes
<1> QED BY <1>1, <1>2, <1>3, <1>4, <1>5 DEF L!Next

\* One publication at a time is inside the transaction: the file is given to one, and
\* comes back when that one leaves or its process stops (_publication_transaction_lock,
\* workflow.py:2527), whatever becomes of the directory.
THEOREM OneAtATime == L!Spec => []OnePublication
<1>1. L!Init => LockInv BY DEF L!Init, LockInv
<1>2. LockInv => OnePublication BY DEF LockInv, OnePublication, L!OnePublication
<1> QED BY <1>1, <1>2, LockStep, PTL DEF L!Spec

(* Sets in the instance of PageCache are those of FiniteSets. *)

LEMMA Card == ASSUME NEW S PROVE C!Cardinality(S) = Cardinality(S)
BY DEF C!Cardinality, Cardinality

LEMMA Fin == ASSUME NEW S PROVE C!IsFiniteSet(S) = IsFiniteSet(S)
BY DEF C!IsFiniteSet, IsFiniteSet

-----------------------------------------------------------------------------
(* The page cache *)

AtJob == {"job dir", "render", "image", "publish", "meta", "commit", "clean"}

\* A client that holds a reservation for a job has one to clean up.
HasJob(c) == client[c] \in AtJob \ {"job dir"} \/ (client[c] = "refused" /\ <<c, "jobs">> \in held)

CacheTypes ==
    /\ held \subseteq (Clients \cup {Dead}) \X C!Categories
    /\ lock \in [Pages -> Clients \cup {None}]
    /\ job \in [Clients -> (Books \X Pages) \cup {None}]
    /\ client \in [Clients -> C!Steps]

Fine(c) ==
    /\ client[c] \notin {"off", "idle", "refused"} => job[c] \in Books \X Pages
    \* Its reservations are in the quota file.
    /\ client[c] \in AtJob => <<c, "jobs">> \in held
    /\ <<c, "jobs">> \in held => client[c] \in AtJob \cup {"refused"}
    /\ client[c] \in {"publish", "meta", "commit"} => <<c, "pages">> \in held
    \* It holds the lock of its page.
    /\ client[c] \in {"job", "job dir"} \/ HasJob(c) => job[c] \in Books \X Pages /\ lock[C!Page(c)] = c
    \* What it works with is there.
    /\ HasJob(c) => C!Piece("jobs", c) \in disk
    /\ client[c] \in {"image", "publish"} => C!Piece("pages", c) \in disk
    /\ client[c] \in {"meta", "commit"} => C!Piece("pages", C!Page(c)) \in disk

CacheInv == CacheTypes /\ \A c \in Clients : Fine(c)

\* A reservation is granted or refused; what it drops belongs to dead clients, and what
\* it evicts nobody has locked.
LEMMA Reserving ==
    ASSUME CacheTypes, NEW c \in Clients, NEW cat \in C!Categories, NEW next, C!Reserve(c, cat, next)
    PROVE  /\ \E gone \in SUBSET {x \in disk : C!Unlocked(c, x)} : disk' = disk \ gone
           /\ \A r \in held : r[1] # Dead => r \in held'
           /\ \/ C!Go(c, next) /\ <<c, cat>> \in held' /\ held' \subseteq held \cup {<<c, cat>>}
              \/ C!Go(c, "refused") /\ held' \subseteq held
<1> DEFINE full == C!Exceeded(committed, held, cat) \/ C!Cardinality(held) >= MaxReservations
           live == IF full THEN C!Recovered(held) ELSE held
           grant(h) == IF C!Cardinality(h) >= MaxReservations
                       THEN held' = h /\ C!Go(c, "refused")
                       ELSE held' = h \cup {<<c, cat>>} /\ C!Go(c, next)
           count == C!Measured(disk \ C!Protected(c))
<1>1. IF ~C!Exceeded(committed, live, cat)
      THEN grant(live) /\ UNCHANGED <<disk, valid, committed>>
      ELSE \E gone \in C!Evictions(c, count, live, cat) :
             /\ C!Evict(gone)
             /\ committed' = [k \in C!Categories |-> count[k] - C!Measured(gone)[k]]
             /\ IF C!Exceeded(committed', live, cat)
                THEN held' = live /\ C!Go(c, "refused")
                ELSE grant(live)
  BY DEF C!Reserve
<1>2. live \subseteq held /\ \A r \in held : r[1] # Dead => r \in live BY DEF C!Recovered
<1> HIDE DEF live, full
<1>3. \/ held' = live /\ C!Go(c, "refused")
      \/ held' = live \cup {<<c, cat>>} /\ C!Go(c, next)
  BY <1>1
<1>4. \E gone \in SUBSET {x \in disk : C!Unlocked(c, x)} : disk' = disk \ gone
  <2>1. CASE UNCHANGED disk
    <3>1. disk' = disk \ {} /\ {} \in SUBSET {x \in disk : C!Unlocked(c, x)} BY <2>1
    <3> QED BY <3>1
  <2>2. CASE \E gone \in C!Evictions(c, count, live, cat) : C!Evict(gone)
    <3>1. PICK gone \in C!Evictions(c, count, live, cat) : disk' = disk \ gone BY <2>2 DEF C!Evict
    <3>2. gone \subseteq {x \in disk : C!Unlocked(c, x)}
      <4> DEFINE free == {x \in disk : C!Unlocked(c, x)}
                 own == {x \in free : x.cat = cat}
      <4>1. gone = own \/ gone = free \/ gone \in SUBSET free BY DEF C!Evictions
      <4> QED BY <4>1
    <3> QED BY <3>1, <3>2
  <2> QED BY <1>1, <2>1, <2>2
<1> QED BY <1>2, <1>3, <1>4

\* What a client works with nobody may evict.
LEMMA Safe ==
    ASSUME CacheInv, NEW c \in Clients, NEW d \in Clients
    PROVE  /\ ~C!Unlocked(d, C!Piece("jobs", c)) /\ ~C!Unlocked(d, C!Piece("pages", c))
           /\ client[c] \in {"meta", "commit"} => ~C!Unlocked(d, C!Piece("pages", C!Page(c)))
<1> USE FilesAssumption DEF C!PageCacheAssumption
<1>1. C!Piece("jobs", c).cat = "jobs" /\ C!Piece("jobs", c).name = c /\ C!Piece("pages", c).cat = "pages"
      /\ C!Piece("pages", c).name = c
  BY DEF C!Piece
<1>2. ~C!Unlocked(d, C!Piece("jobs", c)) /\ ~C!Unlocked(d, C!Piece("pages", c)) BY <1>1 DEF C!Unlocked
<1>3. ASSUME client[c] \in {"meta", "commit"} PROVE ~C!Unlocked(d, C!Piece("pages", C!Page(c)))
  <2>1. C!Page(c) \in Pages /\ lock[C!Page(c)] = c
    <3>1. Fine(c) /\ HasJob(c) BY <1>3 DEF CacheInv, HasJob, AtJob
    <3>2. job[c] \in Books \X Pages /\ lock[C!Page(c)] = c BY <3>1 DEF Fine
    <3>3. job[c] \in Books \X Pages BY <3>2 DEF CacheInv, CacheTypes
    <3> QED BY <3>2, <3>3 DEF C!Page
  <2>2. C!Piece("pages", C!Page(c)).cat = "pages" /\ C!Piece("pages", C!Page(c)).name = C!Page(c) BY DEF C!Piece
  <2> QED BY <2>1, <2>2 DEF C!Unlocked
<1> QED BY <1>2, <1>3

\* What a step of c leaves to the others: their reservations, their locks, and every
\* piece that is not its own and that it may not evict.
Leaves(c) ==
    /\ \A d \in Clients \ {c} : job'[d] = job[d]
    /\ job' \in [Clients -> (Books \X Pages) \cup {None}]
    /\ \A r \in held : r[1] \notin {c, Dead} => r \in held'
    /\ held' \subseteq held \cup ({c, Dead} \X C!Categories)
    /\ lock' \in [Pages -> Clients \cup {None}]
    /\ \A k \in Pages : lock'[k] = lock[k] \/ lock[k] \in {c, None}
    /\ \A x \in disk : x.name # c /\ ~C!Unlocked(c, x) => x \in disk'

LEMMA Frame ==
    ASSUME CacheInv, NEW c \in Clients, NEW where \in C!Steps, C!Go(c, where), Leaves(c), Fine(c)'
    PROVE  CacheInv'
<1> USE FilesAssumption DEF C!PageCacheAssumption
<1>1. client' = [client EXCEPT ![c] = where] /\ client \in [Clients -> C!Steps] BY DEF C!Go, CacheInv, CacheTypes
<1>2. CacheTypes'
  <2>1. client' \in [Clients -> C!Steps] BY <1>1
  <2>2. held' \subseteq (Clients \cup {Dead}) \X C!Categories BY DEF Leaves, CacheInv, CacheTypes
  <2> QED BY <2>1, <2>2 DEF Leaves, CacheTypes
<1>3. ASSUME NEW d \in Clients, d # c PROVE Fine(d)'
  <2>1. client'[d] = client[d] /\ job'[d] = job[d] /\ C!Page(d)' = C!Page(d) BY <1>1, <1>3 DEF Leaves, C!Page
  <2>2. ASSUME NEW cat \in {"jobs", "pages"} PROVE <<d, cat>> \in held' <=> <<d, cat>> \in held
    <3>1. <<d, cat>>[1] = d /\ d \notin {c, Dead} BY <1>3
    <3>2. <<d, cat>> \notin {c, Dead} \X C!Categories BY <3>1
    <3> QED BY <3>1, <3>2 DEF Leaves
  <2>3. HasJob(d)' <=> HasJob(d) BY <2>1, <2>2 DEF HasJob
  <2>4. \A k \in Pages : lock[k] = d => lock'[k] = d BY <1>3 DEF Leaves
  <2>5. /\ C!Piece("jobs", d).name = d /\ C!Piece("pages", d).name = d
        /\ C!Piece("pages", C!Page(d)).name = C!Page(d)
    BY DEF C!Piece
  <2>6. job[d] \in Books \X Pages => C!Page(d) \in Pages /\ C!Page(d) # c BY DEF CacheInv, CacheTypes, C!Page
  <2>7. C!Piece("jobs", d) \in disk => C!Piece("jobs", d) \in disk' BY <1>3, <2>5, Safe DEF Leaves
  <2>8. C!Piece("pages", d) \in disk => C!Piece("pages", d) \in disk' BY <1>3, <2>5, Safe DEF Leaves
  <2>9. client[d] \in {"meta", "commit"} /\ C!Piece("pages", C!Page(d)) \in disk =>
            C!Piece("pages", C!Page(d)) \in disk'
    BY <2>5, <2>6, Safe DEF Leaves, CacheInv, Fine
  <2>10. Fine(d) BY DEF CacheInv
  <2>11. (job[d] \in Books \X Pages /\ lock[C!Page(d)] = d) => (job[d] \in Books \X Pages /\ lock[C!Page(d)] = d)' BY <2>1, <2>4, <2>6
  <2>12. C!Piece("pages", C!Page(d))' = C!Piece("pages", C!Page(d)) BY <2>1 DEF C!Piece
  <2> QED BY <2>1, <2>2, <2>3, <2>7, <2>8, <2>9, <2>10, <2>11, <2>12 DEF Fine
<1> QED BY <1>2, <1>3 DEF CacheInv

\* A reservation leaves them that too.
LEMMA ReserveLeaves ==
    ASSUME CacheInv, NEW c \in Clients, NEW cat \in C!Categories, NEW next, C!Reserve(c, cat, next),
           UNCHANGED <<lock, job>>
    PROVE  /\ Leaves(c)
           /\ \A x \in disk : ~C!Unlocked(c, x) => x \in disk'
           /\ \A k \in {"source", "jobs", "pages"} : <<c, k>> \in held => <<c, k>> \in held'
           /\ \/ C!Go(c, next) /\ <<c, cat>> \in held' /\ held' \subseteq held \cup {<<c, cat>>}
              \/ C!Go(c, "refused") /\ held' \subseteq held
<1> USE FilesAssumption DEF C!PageCacheAssumption
<1>1. /\ \E gone \in SUBSET {x \in disk : C!Unlocked(c, x)} : disk' = disk \ gone
      /\ \A r \in held : r[1] # Dead => r \in held'
      /\ \/ C!Go(c, next) /\ <<c, cat>> \in held' /\ held' \subseteq held \cup {<<c, cat>>}
         \/ C!Go(c, "refused") /\ held' \subseteq held
  BY Reserving DEF CacheInv
<1>2. \A x \in disk : ~C!Unlocked(c, x) => x \in disk' BY <1>1
<1>3. held' \subseteq held \cup ({c, Dead} \X C!Categories) BY <1>1
<1>4. \A k \in {"source", "jobs", "pages"} : <<c, k>>[1] = c /\ c # Dead OBVIOUS
<1> QED BY <1>1, <1>2, <1>3, <1>4 DEF Leaves, CacheInv, CacheTypes

LEMMA ReserveSourceKeeps == ASSUME CacheInv, NEW c \in Clients, C!ReserveSource(c) PROVE CacheInv'
<1>1. client[c] = "source" /\ C!Reserve(c, "source", "copy") /\ UNCHANGED <<lock, job>> BY DEF C!ReserveSource
<1>2. /\ Leaves(c)
      /\ \/ C!Go(c, "copy") /\ held' \subseteq held \cup {<<c, "source">>}
         \/ C!Go(c, "refused") /\ held' \subseteq held
  BY <1>1, ReserveLeaves DEF C!Categories
<1>3. <<c, "jobs">> \notin held' /\ job[c] \in Books \X Pages
  BY <1>1, <1>2 DEF CacheInv, Fine, AtJob
<1>4. PICK where \in {"copy", "refused"} : C!Go(c, where) BY <1>2
<1>5. client'[c] = where BY <1>4 DEF C!Go, CacheInv, CacheTypes
<1>6. Fine(c)' BY <1>1, <1>3, <1>5 DEF Fine, HasJob, AtJob
<1> QED BY <1>2, <1>4, <1>6, Frame DEF C!Steps

LEMMA ReserveJobKeeps == ASSUME CacheInv, NEW c \in Clients, C!ReserveJob(c) PROVE CacheInv'
<1>1. client[c] = "job" /\ C!Reserve(c, "jobs", "job dir") /\ UNCHANGED <<lock, job>> BY DEF C!ReserveJob
<1>2. /\ Leaves(c)
      /\ \/ C!Go(c, "job dir") /\ <<c, "jobs">> \in held'
         \/ C!Go(c, "refused") /\ held' \subseteq held
  BY <1>1, ReserveLeaves DEF C!Categories
<1>3. <<c, "jobs">> \notin held /\ job[c] \in Books \X Pages /\ lock[C!Page(c)] = c
  BY <1>1 DEF CacheInv, Fine, AtJob
<1>4. C!Page(c)' = C!Page(c) BY <1>1 DEF C!Page
<1>5. CASE C!Go(c, "job dir") /\ <<c, "jobs">> \in held'
  <2>1. client'[c] = "job dir" BY <1>5 DEF C!Go, CacheInv, CacheTypes
  <2>2. Fine(c)' BY <1>1, <1>3, <1>4, <1>5, <2>1 DEF Fine, HasJob, AtJob
  <2> QED BY <1>2, <1>5, <2>2, Frame DEF C!Steps
<1>6. CASE C!Go(c, "refused") /\ held' \subseteq held
  <2>1. client'[c] = "refused" BY <1>6 DEF C!Go, CacheInv, CacheTypes
  <2>2. Fine(c)' BY <1>3, <1>6, <2>1 DEF Fine, HasJob, AtJob
  <2> QED BY <1>2, <1>6, <2>2, Frame DEF C!Steps
<1> QED BY <1>2, <1>5, <1>6

LEMMA ReservePageKeeps == ASSUME CacheInv, NEW c \in Clients, C!ReservePage(c) PROVE CacheInv'
<1>1. client[c] = "image" /\ C!Reserve(c, "pages", "publish") /\ UNCHANGED <<lock, job>> BY DEF C!ReservePage
<1>2. /\ Leaves(c)
      /\ \A x \in disk : ~C!Unlocked(c, x) => x \in disk'
      /\ \A k \in {"source", "jobs", "pages"} : <<c, k>> \in held => <<c, k>> \in held'
      /\ \/ C!Go(c, "publish") /\ <<c, "pages">> \in held'
         \/ C!Go(c, "refused")
  BY <1>1, ReserveLeaves DEF C!Categories
<1>3. /\ <<c, "jobs">> \in held' /\ job[c] \in Books \X Pages /\ lock[C!Page(c)] = c
      /\ C!Piece("jobs", c) \in disk' /\ C!Piece("pages", c) \in disk'
  BY <1>1, <1>2, Safe DEF CacheInv, Fine, AtJob, HasJob
<1>4. C!Page(c)' = C!Page(c) BY <1>1 DEF C!Page
<1>5. PICK where \in {"publish", "refused"} : C!Go(c, where) /\ (where = "publish" => <<c, "pages">> \in held')
  BY <1>2
<1>6. client'[c] = where BY <1>5 DEF C!Go, CacheInv, CacheTypes
<1>7. Fine(c)' BY <1>1, <1>3, <1>4, <1>5, <1>6 DEF Fine, HasJob, AtJob
<1> QED BY <1>2, <1>5, <1>7, Frame DEF C!Steps

LEMMA OpenCacheKeeps == ASSUME CacheInv, NEW c \in Clients, C!Open(c) PROVE CacheInv'
<1> USE FilesAssumption DEF C!PageCacheAssumption
<1>1. /\ client[c] = "off" /\ C!Go(c, "idle") /\ held' = {r \in held : r[1] # Dead}
      /\ UNCHANGED <<disk, lock, job>>
  BY DEF C!Open, C!Recovered
<1>2. Leaves(c) BY <1>1 DEF Leaves, CacheInv, CacheTypes
<1>3. client'[c] = "idle" /\ <<c, "jobs">> \notin held'
  BY <1>1 DEF C!Go, CacheInv, CacheTypes, Fine, AtJob
<1>4. Fine(c)' BY <1>3 DEF Fine, HasJob, AtJob
<1> QED BY <1>1, <1>2, <1>4, Frame DEF C!Steps

LEMMA RecognizeKeeps ==
    ASSUME CacheInv, NEW c \in Clients, NEW b \in Books, NEW k \in Pages, C!Recognize(c, b, k)
    PROVE  CacheInv'
<1>1. /\ client[c] = "idle" /\ C!Go(c, "source") /\ job' = [job EXCEPT ![c] = <<b, k>>]
      /\ UNCHANGED <<disk, lock, held>>
  BY DEF C!Recognize
<1>2. Leaves(c) BY <1>1 DEF Leaves, CacheInv, CacheTypes
<1>3. client'[c] = "source" /\ <<c, "jobs">> \notin held' /\ job'[c] = <<b, k>> /\ <<b, k>> \in Books \X Pages
  BY <1>1 DEF C!Go, CacheInv, CacheTypes, Fine, AtJob
<1>4. Fine(c)' BY <1>3 DEF Fine, HasJob, AtJob
<1> QED BY <1>1, <1>2, <1>4, Frame DEF C!Steps

LEMMA KnownSourceKeeps == ASSUME CacheInv, NEW c \in Clients, C!KnownSource(c) PROVE CacheInv'
<1>1. /\ client[c] = "source" /\ UNCHANGED <<disk, lock, held>>
      /\ (C!Go(c, "lock") /\ job' = job) \/ C!Finish(c)
  BY DEF C!KnownSource
<1>2. PICK where \in {"lock", "idle"} : /\ C!Go(c, where)
                                        /\ job' = job \/ job' = [job EXCEPT ![c] = None]
                                        /\ where = "lock" => job' = job
  BY <1>1 DEF C!Finish
<1>3. Leaves(c) BY <1>1, <1>2 DEF Leaves, CacheInv, CacheTypes
<1>4. client'[c] = where /\ <<c, "jobs">> \notin held'
  BY <1>1, <1>2 DEF C!Go, CacheInv, CacheTypes, Fine, AtJob
<1>5. Fine(c)' BY <1>1, <1>2, <1>4 DEF CacheInv, Fine, HasJob, AtJob
<1> QED BY <1>2, <1>3, <1>5, Frame DEF C!Steps

LEMMA CopySourceKeeps == ASSUME CacheInv, NEW c \in Clients, C!CopySource(c) PROVE CacheInv'
<1>1. /\ client[c] = "copy" /\ UNCHANGED <<lock, held, job>> /\ C!Go(c, "link") /\ disk \subseteq disk'
  BY DEF C!CopySource
<1>2. Leaves(c) BY <1>1 DEF Leaves, CacheInv, CacheTypes
<1>3. client'[c] = "link" BY <1>1 DEF C!Go, CacheInv, CacheTypes
<1>4. Fine(c)' BY <1>1, <1>3 DEF CacheInv, Fine, HasJob, AtJob
<1> QED BY <1>1, <1>2, <1>4, Frame DEF C!Steps

\* The end of the source snapshot, good or bad.
LEMMA SourceEnds ==
    ASSUME CacheInv, NEW c \in Clients, NEW where \in {"linked", "lock", "idle"}, C!Go(c, where),
           client[c] \in {"copy", "link", "linked"}, UNCHANGED lock,
           job' = job \/ job' = [job EXCEPT ![c] = None], where # "idle" => job' = job,
           held' = held \/ held' = held \ {<<c, "source">>},
           \A x \in disk : x.name # c => x \in disk'
    PROVE  CacheInv'
<1>1. \A r \in held : r[1] # c => r \in held'
  <2>1. <<c, "source">>[1] = c OBVIOUS
  <2> QED BY <2>1
<1>2. Leaves(c) BY <1>1 DEF Leaves, CacheInv, CacheTypes
<1>3. client'[c] = where /\ <<c, "jobs">> \notin held' BY DEF C!Go, CacheInv, CacheTypes, Fine, AtJob
<1>4. Fine(c)' BY <1>3 DEF CacheInv, Fine, HasJob, AtJob
<1> QED BY <1>2, <1>4, Frame DEF C!Steps

LEMMA SourceKeeps ==
    ASSUME CacheInv, NEW c \in Clients, C!LinkSource(c) \/ C!CommitSource(c) \/ C!SourceFails(c)
    PROVE  CacheInv'
<1>0. C!Piece("source", c).name = c BY DEF C!Piece
<1>1. CASE C!LinkSource(c)
  <2>1. /\ client[c] = "link" /\ UNCHANGED lock
        /\ disk' \in {disk \ {C!Piece("source", c)}, disk \cup {C!Piece("source", C!Book(c))}, disk}
        /\ held' = held \/ held' = held \ {<<c, "source">>}
        /\ \/ (C!Go(c, "lock") \/ C!Go(c, "linked")) /\ job' = job
           \/ C!Go(c, "idle") /\ job' = [job EXCEPT ![c] = None]
    BY <1>1 DEF C!LinkSource, C!Release, C!Finish
  <2>2. \A x \in disk : x.name # c => x \in disk' BY <1>0, <2>1
  <2> QED BY <2>1, <2>2, SourceEnds
<1>2. CASE C!CommitSource(c)
  <2>1. /\ client[c] = "linked" /\ UNCHANGED lock /\ disk' = disk \ {C!Piece("source", c)}
        /\ held' = held \/ held' = held \ {<<c, "source">>}
        /\ \/ C!Go(c, "lock") /\ job' = job
           \/ C!Go(c, "idle") /\ job' = [job EXCEPT ![c] = None]
    BY <1>2 DEF C!CommitSource, C!Commit, C!Finish
  <2>2. \A x \in disk : x.name # c => x \in disk' BY <1>0, <2>1
  <2> QED BY <2>1, <2>2, SourceEnds
<1>3. CASE C!SourceFails(c)
  <2>1. /\ client[c] \in {"copy", "link"} /\ UNCHANGED lock /\ disk' = disk \ {C!Piece("source", c)}
        /\ held' = held \ {<<c, "source">>} /\ C!Go(c, "idle") /\ job' = [job EXCEPT ![c] = None]
    BY <1>3 DEF C!SourceFails, C!Release, C!Finish
  <2>2. \A x \in disk : x.name # c => x \in disk' BY <1>0, <2>1
  <2> QED BY <2>1, <2>2, SourceEnds
<1> QED BY <1>1, <1>2, <1>3

\* Each page is locked by at most one client, so that the lock a client gives back is its own.
LEMMA LockPageKeeps == ASSUME CacheInv, NEW c \in Clients, C!LockPage(c) PROVE CacheInv'
<1>1. client[c] = "lock" /\ lock[C!Page(c)] = None /\ UNCHANGED <<disk, held>> BY DEF C!LockPage
<1>2. job[c] \in Books \X Pages /\ C!Page(c) \in Pages /\ <<c, "jobs">> \notin held
  BY <1>1 DEF CacheInv, Fine, AtJob, C!Page
<1>3. CASE C!Go(c, "idle") /\ job' = [job EXCEPT ![c] = None] /\ lock' = lock
  <2>1. Leaves(c) BY <1>1, <1>3 DEF Leaves, CacheInv, CacheTypes
  <2>2. client'[c] = "idle" BY <1>3 DEF C!Go, CacheInv, CacheTypes
  <2>3. Fine(c)' BY <1>1, <1>2, <2>2 DEF Fine, HasJob, AtJob
  <2> QED BY <1>3, <2>1, <2>3, Frame DEF C!Steps
<1>4. CASE lock' = [lock EXCEPT ![C!Page(c)] = c] /\ C!Go(c, "job") /\ job' = job
  <2>1. Leaves(c) BY <1>1, <1>2, <1>4 DEF Leaves, CacheInv, CacheTypes
  <2>2. client'[c] = "job" /\ C!Page(c)' = C!Page(c) BY <1>4 DEF C!Go, CacheInv, CacheTypes, C!Page
  <2>3. lock'[C!Page(c)] = c BY <1>2, <1>4 DEF CacheInv, CacheTypes
  <2>4. Fine(c)' BY <1>1, <1>2, <1>4, <2>2, <2>3 DEF Fine, HasJob, AtJob
  <2> QED BY <1>4, <2>1, <2>4, Frame DEF C!Steps
<1> QED BY <1>3, <1>4 DEF C!LockPage, C!Finish

\* The job is over, or could not begin: reservation, lock and directory are given back.
LEMMA JobEnds ==
    ASSUME CacheInv, NEW c \in Clients, client[c] \in {"job dir", "clean"}, C!Go(c, "idle"),
           held' = held \ {<<c, "jobs">>}, lock' = [lock EXCEPT ![C!Page(c)] = None],
           job' = [job EXCEPT ![c] = None], \A x \in disk : x.name # c => x \in disk'
    PROVE  CacheInv'
<1>1. job[c] \in Books \X Pages /\ lock[C!Page(c)] = c /\ C!Page(c) \in Pages
  <2>1. Fine(c) BY DEF CacheInv
  <2>2. job[c] \in Books \X Pages /\ lock[C!Page(c)] = c BY <2>1 DEF Fine, HasJob, AtJob
  <2> QED BY <2>2 DEF C!Page
<1>2. \A r \in held : r[1] # c => r \in held'
  <2>1. <<c, "jobs">>[1] = c OBVIOUS
  <2> QED BY <2>1
<1>3. Leaves(c) BY <1>1, <1>2 DEF Leaves, CacheInv, CacheTypes
<1>4. client'[c] = "idle" /\ <<c, "jobs">> \notin held' BY DEF C!Go, CacheInv, CacheTypes
<1>5. Fine(c)' BY <1>4 DEF Fine, HasJob, AtJob
<1> QED BY <1>3, <1>5, Frame DEF C!Steps

LEMMA MakeJobKeeps == ASSUME CacheInv, NEW c \in Clients, C!MakeJob(c) PROVE CacheInv'
<1>1. client[c] = "job dir" BY DEF C!MakeJob
<1>2. CASE disk' = disk \cup {C!Piece("jobs", c)} /\ C!Go(c, "render") /\ UNCHANGED <<held, lock, job>>
  <2>1. Leaves(c) BY <1>2 DEF Leaves, CacheInv, CacheTypes
  <2>2. client'[c] = "render" BY <1>2 DEF C!Go, CacheInv, CacheTypes
  <2>3. C!Page(c)' = C!Page(c) /\ Fine(c) BY <1>2 DEF C!Page, CacheInv
  <2>4. Fine(c)' BY <1>1, <1>2, <2>2, <2>3 DEF Fine, HasJob, AtJob
  <2> QED BY <1>2, <2>1, <2>4, Frame DEF C!Steps
<1>3. CASE /\ held' = held \ {<<c, "jobs">>} /\ lock' = [lock EXCEPT ![C!Page(c)] = None] /\ UNCHANGED disk
           /\ job' = [job EXCEPT ![c] = None] /\ C!Go(c, "idle")
  BY <1>1, <1>3, JobEnds
<1> QED BY <1>2, <1>3 DEF C!MakeJob, C!Release, C!Unlock, C!Finish

\* A step of the job that keeps its reservation, its lock and its directory.
LEMMA JobGoesOn ==
    ASSUME CacheInv, NEW c \in Clients, NEW where \in AtJob \ {"job dir"}, C!Go(c, where), HasJob(c),
           UNCHANGED <<lock, job>>, <<c, "jobs">> \in held',
           \A r \in held : r[1] # c => r \in held', held' \subseteq held,
           \A x \in disk : x.name # c => x \in disk', C!Piece("jobs", c) \in disk',
           where \in {"publish", "meta", "commit"} => <<c, "pages">> \in held',
           where \in {"image", "publish"} => C!Piece("pages", c) \in disk',
           where \in {"meta", "commit"} => C!Piece("pages", C!Page(c)) \in disk'
    PROVE  CacheInv'
<1>1. Leaves(c) BY DEF Leaves, CacheInv, CacheTypes
<1>2. client'[c] = where /\ C!Page(c)' = C!Page(c) BY DEF C!Go, CacheInv, CacheTypes, C!Page
<1>3. Fine(c) BY DEF CacheInv
<1>4. Fine(c)' BY <1>2, <1>3 DEF Fine, HasJob, AtJob
<1> QED BY <1>1, <1>4, Frame DEF C!Steps, AtJob

LEMMA RenderKeeps == ASSUME CacheInv, NEW c \in Clients, C!Render(c) PROVE CacheInv'
<1>1. /\ client[c] = "render" /\ UNCHANGED <<lock, job, held>>
      /\ \/ disk' = disk \cup {C!Piece("pages", c)} /\ C!Go(c, "image")
         \/ disk' = disk /\ C!Go(c, "clean")
  BY DEF C!Render, C!CopyImage
<1>2. HasJob(c) /\ Fine(c) BY <1>1 DEF HasJob, AtJob, CacheInv
<1>3. <<c, "jobs">> \in held /\ C!Piece("jobs", c) \in disk BY <1>1, <1>2 DEF Fine, AtJob
<1>4. CASE disk' = disk \cup {C!Piece("pages", c)} /\ C!Go(c, "image")
  BY <1>1, <1>2, <1>3, <1>4, JobGoesOn DEF AtJob
<1>5. CASE disk' = disk /\ C!Go(c, "clean") BY <1>1, <1>2, <1>3, <1>5, JobGoesOn DEF AtJob
<1> QED BY <1>1, <1>4, <1>5

LEMMA Pieces ==
    ASSUME NEW c \in Clients
    PROVE  C!Piece("pages", c).name = c /\ C!Piece("jobs", c) # C!Piece("pages", c)
           /\ C!Piece("jobs", c).name = c
BY DEF C!Piece

LEMMA PublishImageKeeps == ASSUME CacheInv, NEW c \in Clients, C!PublishImage(c) PROVE CacheInv'
<1>1. /\ client[c] = "publish" /\ C!Go(c, "meta") /\ UNCHANGED <<lock, job, held>>
      /\ disk' = (disk \ {C!Piece("pages", c)}) \cup {C!Piece("pages", C!Page(c))}
  BY DEF C!PublishImage
<1>2. HasJob(c) /\ Fine(c) BY <1>1 DEF HasJob, AtJob, CacheInv
<1>3. <<c, "jobs">> \in held /\ <<c, "pages">> \in held /\ C!Piece("jobs", c) \in disk BY <1>1, <1>2 DEF Fine, AtJob
<1> QED BY <1>1, <1>2, <1>3, Pieces, JobGoesOn DEF AtJob

LEMMA PublishMetaKeeps == ASSUME CacheInv, NEW c \in Clients, C!PublishMeta(c) PROVE CacheInv'
<1>1. client[c] = "meta" /\ C!Go(c, "commit") /\ UNCHANGED <<lock, job, held, disk>> BY DEF C!PublishMeta
<1>2. HasJob(c) /\ Fine(c) BY <1>1 DEF HasJob, AtJob, CacheInv
<1>3. /\ <<c, "jobs">> \in held /\ <<c, "pages">> \in held /\ C!Piece("jobs", c) \in disk
      /\ C!Piece("pages", C!Page(c)) \in disk
  BY <1>1, <1>2 DEF Fine, AtJob
<1> QED BY <1>1, <1>2, <1>3, JobGoesOn DEF AtJob

\* The page is counted, or the image given up.
LEMMA PageEnds ==
    ASSUME CacheInv, NEW c \in Clients, client[c] \in {"publish", "meta", "commit"}, C!Go(c, "clean"),
           UNCHANGED <<lock, job>>, held' \in {held, held \ {<<c, "pages">>}},
           disk' \in {disk, disk \ {C!Piece("pages", c)}}
    PROVE  CacheInv'
<1>1. HasJob(c) /\ Fine(c) BY DEF HasJob, AtJob, CacheInv
<1>2. <<c, "jobs">> \in held /\ C!Piece("jobs", c) \in disk BY <1>1 DEF Fine, AtJob
<1>3. <<c, "pages">>[1] = c /\ <<c, "pages">> # <<c, "jobs">> OBVIOUS
<1> QED BY <1>1, <1>2, <1>3, Pieces, JobGoesOn DEF AtJob

LEMMA CommitPageKeeps == ASSUME CacheInv, NEW c \in Clients, C!CommitPage(c) PROVE CacheInv'
BY PageEnds DEF C!CommitPage, C!Commit

LEMMA PublishFailsKeeps == ASSUME CacheInv, NEW c \in Clients, C!PublishFails(c) PROVE CacheInv'
BY PageEnds DEF C!PublishFails, C!Commit, C!Release

LEMMA CleanJobKeeps == ASSUME CacheInv, NEW c \in Clients, C!CleanJob(c) PROVE CacheInv'
<1>1. /\ client[c] = "clean" /\ disk' = disk \ {C!Piece("jobs", c)} /\ held' = held \ {<<c, "jobs">>}
      /\ lock' = [lock EXCEPT ![C!Page(c)] = None] /\ job' = [job EXCEPT ![c] = None] /\ C!Go(c, "idle")
  BY DEF C!CleanJob, C!Release, C!Unlock, C!Finish
<1> QED BY <1>1, Pieces, JobEnds

\* A refused client gives up what it has: with a job it has that to clean.
LEMMA GiveUpKeeps == ASSUME CacheInv, NEW c \in Clients, C!GiveUp(c) PROVE CacheInv'
<1>1. client[c] = "refused" /\ disk' = disk \ {C!Piece("pages", c)} /\ UNCHANGED held BY DEF C!GiveUp
<1>2. CASE <<c, "jobs">> \in held /\ C!Go(c, "clean") /\ UNCHANGED <<job, lock>>
  <2>1. HasJob(c) /\ Fine(c) BY <1>1, <1>2 DEF HasJob, CacheInv
  <2>2. C!Piece("jobs", c) \in disk BY <2>1 DEF Fine
  <2> QED BY <1>1, <1>2, <2>1, <2>2, Pieces, JobGoesOn DEF AtJob
<1>3. CASE /\ <<c, "jobs">> \notin held /\ job' = [job EXCEPT ![c] = None] /\ C!Go(c, "idle")
           /\ lock' = [k \in Pages |-> IF lock[k] = c THEN None ELSE lock[k]]
  <2>1. Leaves(c) BY <1>1, <1>3, Pieces DEF Leaves, CacheInv, CacheTypes
  <2>2. client'[c] = "idle" BY <1>3 DEF C!Go, CacheInv, CacheTypes
  <2>3. Fine(c)' BY <1>1, <1>3, <2>2 DEF Fine, HasJob, AtJob
  <2> QED BY <1>3, <2>1, <2>3, Frame DEF C!Steps
<1> QED BY <1>2, <1>3 DEF C!GiveUp, C!Finish

\* A client dies; what it leaves is no longer its own.
LEMMA CrashesKeep == ASSUME CacheInv, NEW c \in Clients, C!Crash(c) \/ C!CrashEvicting(c) PROVE CacheInv'
<1> USE FilesAssumption DEF C!PageCacheAssumption
<1>1. /\ C!Go(c, "off") /\ job' = [job EXCEPT ![c] = None]
      /\ held' = {IF r[1] = c THEN <<Dead, r[2]>> ELSE r : r \in held}
      /\ lock' = [k \in Pages |-> IF lock[k] = c THEN None ELSE lock[k]]
  BY DEF C!Crash, C!CrashEvicting, C!Dies
<1>2. \A x \in disk : x.name # c /\ ~C!Unlocked(c, x) => x \in disk'
  <2>1. PICK pieces \in SUBSET disk : /\ disk' = {IF x.name = c THEN C!Piece(x.cat, Dead) ELSE x : x \in pieces}
                                      /\ \A x \in disk : ~C!Unlocked(c, x) => x \in pieces
    <3>1. CASE C!Crash(c) BY <3>1 DEF C!Crash, C!Left
    <3>2. CASE C!CrashEvicting(c)
      <4>1. PICK x \in {y \in disk : C!Unlocked(c, y)} : disk' = C!Left(c, disk \ {x}) BY <3>2 DEF C!CrashEvicting
      <4>2. disk \ {x} \in SUBSET disk /\ \A y \in disk : ~C!Unlocked(c, y) => y \in disk \ {x} BY <4>1
      <4>3. disk' = {IF y.name = c THEN C!Piece(y.cat, Dead) ELSE y : y \in disk \ {x}} BY <4>1 DEF C!Left
      <4> QED BY <4>2, <4>3
    <3> QED BY <3>1, <3>2
  <2> QED BY <2>1
<1>3. held' \subseteq held \cup ({c, Dead} \X C!Categories) BY <1>1 DEF CacheInv, CacheTypes
<1>4. \A r \in held : r[1] # c => r \in held' BY <1>1
<1>5. Leaves(c) BY <1>1, <1>2, <1>3, <1>4 DEF Leaves, CacheInv, CacheTypes
<1>6. <<c, "jobs">> \notin held'
  <2>1. \A r \in held' : r[1] # c BY <1>1
  <2>2. <<c, "jobs">>[1] = c OBVIOUS
  <2> QED BY <2>1, <2>2
<1>7. client'[c] = "off" BY <1>1 DEF C!Go, CacheInv, CacheTypes
<1>8. Fine(c)' BY <1>6, <1>7 DEF Fine, HasJob, AtJob
<1> QED BY <1>1, <1>5, <1>8, Frame DEF C!Steps

LEMMA CacheStep == CacheInv /\ [C!Next]_(C!vars) => CacheInv'
<1> SUFFICES ASSUME CacheInv, [C!Next]_(C!vars) PROVE CacheInv' OBVIOUS
<1>1. CASE UNCHANGED C!vars
  <2>1. UNCHANGED <<disk, held, lock, job, client>> BY <1>1 DEF C!vars
  <2> QED BY <2>1 DEF CacheInv, CacheTypes, Fine, HasJob, C!Page
<1>2. ASSUME NEW c \in Clients, C!Open(c) \/ C!Crash(c) \/ C!CrashEvicting(c)
      PROVE  CacheInv'
  BY <1>2, OpenCacheKeeps, CrashesKeep
<1>3. ASSUME NEW c \in Clients, NEW b \in Books, NEW k \in Pages, C!Recognize(c, b, k) PROVE CacheInv'
  BY <1>3, RecognizeKeeps
<1>4. ASSUME NEW c \in Clients, C!Step(c) PROVE CacheInv'
  BY <1>4, KnownSourceKeeps, ReserveSourceKeeps, CopySourceKeeps, SourceKeeps, LockPageKeeps, ReserveJobKeeps,
     MakeJobKeeps, RenderKeeps, ReservePageKeeps, PublishImageKeeps, PublishMetaKeeps, CommitPageKeeps,
     PublishFailsKeeps, CleanJobKeeps, GiveUpKeeps
  DEF C!Step
<1> QED BY <1>1, <1>2, <1>3, <1>4 DEF C!Next

LEMMA CacheStart == C!Init => CacheInv
BY DEF C!Init, CacheInv, CacheTypes, Fine, HasJob, AtJob, C!Steps

\* What a client works with, nobody takes away: neither its reservations, nor its job
\* directory, nor the page whose lock it holds (_recover_reservations_locked and
\* _try_candidate_lock, page_cache.py:583 and 1072).
THEOREM UsedKept == C!Spec => []UsedIsKept
<1>1. CacheInv => UsedIsKept
  <2>1. SUFFICES ASSUME CacheInv, NEW c \in Clients
                 PROVE  /\ client[c] \in {"render", "image", "publish", "meta", "commit", "clean"} =>
                              C!Piece("jobs", c) \in disk /\ <<c, "jobs">> \in held
                        /\ client[c] \in {"publish", "meta", "commit"} => <<c, "pages">> \in held
                        /\ client[c] \in {"meta", "commit"} => C!Piece("pages", C!Page(c)) \in disk
                        /\ client[c] = "publish" => C!Piece("pages", c) \in disk
    BY DEF UsedIsKept, C!UsedIsKept
  <2>2. Fine(c) BY <2>1 DEF CacheInv
  <2> QED BY <2>2 DEF Fine, HasJob, AtJob
<1> QED BY <1>1, CacheStart, CacheStep, PTL DEF C!Spec

-----------------------------------------------------------------------------
(* What the cache holds and has reserved is finite, and of a category *)

Countable == IsFiniteSet(disk) /\ IsFiniteSet(held) /\ \A x \in disk : x.cat \in C!Categories

\* Most steps add at most one piece, and reserve for at most one client.
LEMMA AtMostOneMore ==
    ASSUME Countable, NEW p, p.cat \in C!Categories, NEW r, disk' \subseteq disk \cup {p}, held' \subseteq held \cup {r}
    PROVE  Countable'
<1>1. IsFiniteSet(disk \cup {p}) /\ IsFiniteSet(held \cup {r}) BY FS_AddElement DEF Countable
<1>2. IsFiniteSet(disk') /\ IsFiniteSet(held') BY <1>1, FS_Subset
<1> QED BY <1>2 DEF Countable

LEMMA PiecesCount ==
    /\ \A k \in C!Categories : \A n : C!Piece(k, n).cat \in C!Categories
    /\ {"source", "pages", "jobs"} = C!Categories
BY DEF C!Piece, C!Categories

\* One that dies leaves as many.
LEMMA DyingCounts == ASSUME Countable, NEW c \in Clients, C!Crash(c) \/ C!CrashEvicting(c) PROVE Countable'
<1>1. held' = {IF r[1] = c THEN <<Dead, r[2]>> ELSE r : r \in held} BY DEF C!Crash, C!CrashEvicting, C!Dies
<1>2. IsFiniteSet(held')
  <2> DEFINE f == [r \in held |-> IF r[1] = c THEN <<Dead, r[2]>> ELSE r]
  <2>1. f \in Surjection(held, held') BY <1>1 DEF Surjection
  <2> QED BY <2>1, FS_Surjection DEF Countable
<1>3. PICK pieces \in SUBSET disk : disk' = C!Left(c, pieces)
  <2>1. CASE C!Crash(c) BY <2>1 DEF C!Crash
  <2>2. CASE C!CrashEvicting(c)
    <3>1. PICK x \in disk : disk' = C!Left(c, disk \ {x}) BY <2>2 DEF C!CrashEvicting
    <3>2. disk \ {x} \in SUBSET disk OBVIOUS
    <3> QED BY <3>1, <3>2
  <2> QED BY <2>1, <2>2
<1>4. IsFiniteSet(disk')
  <2> DEFINE f == [x \in pieces |-> IF x.name = c THEN C!Piece(x.cat, Dead) ELSE x]
  <2>1. f \in Surjection(pieces, disk') BY <1>3 DEF Surjection, C!Left
  <2>2. IsFiniteSet(pieces) BY FS_Subset DEF Countable
  <2> QED BY <2>1, <2>2, FS_Surjection
<1>5. \A x \in disk' : x.cat \in C!Categories
  <2>1. SUFFICES ASSUME NEW x \in pieces PROVE (IF x.name = c THEN C!Piece(x.cat, Dead) ELSE x).cat \in C!Categories
    BY <1>3 DEF C!Left
  <2>2. x.cat \in C!Categories BY DEF Countable
  <2> QED BY <2>2, PiecesCount
<1> QED BY <1>2, <1>4, <1>5 DEF Countable

LEMMA CountableStep == Countable /\ CacheInv /\ [C!Next]_(C!vars) => Countable'
<1> SUFFICES ASSUME Countable, CacheInv, [C!Next]_(C!vars) PROVE Countable' OBVIOUS
<1>0. ASSUME NEW k \in C!Categories, NEW n, NEW r, disk' \subseteq disk \cup {C!Piece(k, n)}, held' \subseteq held \cup {r}
      PROVE  Countable'
  BY <1>0, AtMostOneMore, PiecesCount
<1>1. ASSUME disk' \subseteq disk, held' \subseteq held PROVE Countable'
  BY <1>0, <1>1, PiecesCount
<1>2. CASE UNCHANGED C!vars BY <1>1, <1>2 DEF C!vars
<1>3. ASSUME NEW c \in Clients, NEW cat \in C!Categories, NEW next, C!Reserve(c, cat, next) PROVE Countable'
  <2>1. disk' \subseteq disk /\ held' \subseteq held \cup {<<c, cat>>} BY <1>3, Reserving DEF CacheInv
  <2> QED BY <1>0, <2>1, PiecesCount
<1>4. ASSUME NEW c \in Clients, C!Step(c) PROVE Countable'
  <2>1. CASE C!ReserveSource(c) \/ C!ReserveJob(c) \/ C!ReservePage(c)
    BY <1>3, <2>1, PiecesCount DEF C!ReserveSource, C!ReserveJob, C!ReservePage
  <2>2. CASE C!KnownSource(c) \/ C!LockPage(c) \/ C!PublishMeta(c) BY <1>1, <2>2 DEF C!KnownSource, C!LockPage, C!PublishMeta
  <2>3. CASE C!CopySource(c) \/ C!LinkSource(c)
    <3>1. held' \subseteq held /\ \E n : disk' \subseteq disk \cup {C!Piece("source", n)}
      BY <2>3 DEF C!CopySource, C!LinkSource, C!Release
    <3> QED BY <1>0, <3>1, PiecesCount
  <2>4. CASE C!CommitSource(c) \/ C!SourceFails(c) \/ C!CommitPage(c) \/ C!PublishFails(c)
    BY <1>1, <2>4 DEF C!CommitSource, C!SourceFails, C!CommitPage, C!PublishFails, C!Commit, C!Release
  <2>5. CASE C!CleanJob(c) \/ C!GiveUp(c) BY <1>1, <2>5 DEF C!CleanJob, C!GiveUp, C!Release
  <2>6. CASE C!MakeJob(c)
    <3>1. held' \subseteq held /\ disk' \subseteq disk \cup {C!Piece("jobs", c)}
      BY <2>6 DEF C!MakeJob, C!Release
    <3> QED BY <1>0, <3>1, PiecesCount
  <2>7. CASE C!Render(c) \/ C!PublishImage(c)
    <3>1. held' \subseteq held /\ \E n : disk' \subseteq disk \cup {C!Piece("pages", n)}
      BY <2>7 DEF C!Render, C!CopyImage, C!PublishImage
    <3> QED BY <1>0, <3>1, PiecesCount
  <2> QED BY <1>4, <2>1, <2>2, <2>3, <2>4, <2>5, <2>6, <2>7 DEF C!Step
<1>5. ASSUME NEW c \in Clients, C!Open(c) PROVE Countable' BY <1>1, <1>5 DEF C!Open, C!Recovered
<1>6. ASSUME NEW c \in Clients, NEW b \in Books, NEW k \in Pages, C!Recognize(c, b, k) PROVE Countable'
  BY <1>1, <1>6 DEF C!Recognize
<1> QED BY <1>2, <1>4, <1>5, <1>6, DyingCounts DEF C!Next

-----------------------------------------------------------------------------
(* A reservation is refused for a reason *)

LEMMA CountFacts ==
    /\ \A S : IsFiniteSet(S) => C!Cardinality(S) \in Nat
    /\ \A S, T : IsFiniteSet(S) /\ T \subseteq S => IsFiniteSet(T) /\ C!Cardinality(T) \in Nat /\ C!Cardinality(T) <= C!Cardinality(S)
BY Card, FS_CardinalityType, FS_Subset

\* Finite sets that share nothing are counted one by one.
LEMMA CountDisjoint ==
    ASSUME NEW S, NEW T, IsFiniteSet(S), IsFiniteSet(T), S \cap T = {}
    PROVE  IsFiniteSet(S \cup T) /\ Cardinality(S \cup T) = Cardinality(S) + Cardinality(T)
<1>1. /\ IsFiniteSet(S \cup T)
      /\ Cardinality(S \cup T) = Cardinality(S) + Cardinality(T) - Cardinality(S \cap T)
  BY FS_Union
<1>2. Cardinality(S \cap T) = 0 BY FS_EmptySet
<1>3. Cardinality(S) \in Nat /\ Cardinality(T) \in Nat BY FS_CardinalityType
<1> QED BY <1>1, <1>2, <1>3

\* The whole is the sum of the categories.
LEMMA MeasuredAll ==
    ASSUME NEW e, IsFiniteSet(e), \A x \in e : x.cat \in C!Categories
    PROVE  /\ C!Measured(e) \in [C!Categories -> Nat]
           /\ C!Cardinality(e) = C!Measured(e)["source"] + C!Measured(e)["pages"] + C!Measured(e)["jobs"]
<1> DEFINE of(k) == {x \in e : x.cat = k}
<1>1. \A k : IsFiniteSet(of(k)) /\ C!Cardinality(of(k)) \in Nat
  <2>1. \A k : of(k) \subseteq e OBVIOUS
  <2> QED BY <2>1, CountFacts
<1>2. C!Measured(e) = [k \in C!Categories |-> C!Cardinality(of(k))] BY DEF C!Measured
<1>3. e = (of("source") \cup of("pages")) \cup of("jobs") BY DEF C!Categories
<1>4. of("source") \cap of("pages") = {} /\ (of("source") \cup of("pages")) \cap of("jobs") = {} OBVIOUS
<1> HIDE DEF of
<1>5. /\ IsFiniteSet(of("source") \cup of("pages"))
      /\ Cardinality(of("source") \cup of("pages")) = Cardinality(of("source")) + Cardinality(of("pages"))
  BY <1>1, <1>4, CountDisjoint
<1>6. Cardinality(e) = Cardinality(of("source") \cup of("pages")) + Cardinality(of("jobs"))
  BY <1>1, <1>3, <1>4, <1>5, CountDisjoint
<1>7. /\ C!Cardinality(e) = Cardinality(e)
      /\ \A k : C!Cardinality(of(k)) = Cardinality(of(k))
  BY Card
<1>8. C!Measured(e) \in [C!Categories -> Nat] BY <1>1, <1>2
<1> QED BY <1>2, <1>5, <1>6, <1>7, <1>8 DEF C!Categories

\* What was evicted for being enough is enough.
LEMMA EnoughIsEnough ==
    ASSUME Countable, NEW c \in Clients, NEW cat \in C!Categories, NEW live, live \subseteq held,
           NEW count, count = C!Measured(disk \ C!Protected(c)),
           NEW gone, gone \in C!Evictions(c, count, live, cat),
           C!Exceeded([k \in C!Categories |-> count[k] - C!Measured(gone)[k]], live, cat)
    PROVE  \A x \in disk \ gone : x.cat = cat => ~C!Unlocked(c, x)
<1> DEFINE free == {x \in disk : C!Unlocked(c, x)}
           own == {x \in free : x.cat = cat}
           need == C!OverCategory(count, live, cat)
           all == IF C!OverAll(count, live) > need THEN C!OverAll(count, live) ELSE need
           after == [k \in C!Categories |-> count[k] - C!Measured(gone)[k]]
<1>1. CASE gone = own \/ gone = free BY <1>1
<1>2. CASE gone \in SUBSET free /\ C!Cardinality(gone) = all /\ C!Cardinality(gone \cap own) >= need
  <2>1. gone \subseteq disk /\ gone \subseteq disk \ C!Protected(c) BY <1>2 DEF C!Unlocked
  <2>2. IsFiniteSet(gone) /\ IsFiniteSet(disk \ C!Protected(c)) BY <2>1, CountFacts DEF Countable
  <2>3. /\ C!Measured(gone) \in [C!Categories -> Nat]
        /\ C!Cardinality(gone) = C!Measured(gone)["source"] + C!Measured(gone)["pages"] + C!Measured(gone)["jobs"]
    BY <2>1, <2>2, MeasuredAll DEF Countable
  <2>4. count \in [C!Categories -> Nat] BY <2>2, MeasuredAll DEF Countable
  <2>5. C!Measured(gone)[cat] = C!Cardinality(gone \cap own)
    <3>1. gone \cap own = {x \in gone : x.cat = cat} BY <1>2
    <3> QED BY <3>1 DEF C!Measured
  <2>6. C!Cardinality(live) \in Nat /\ C!Reserved(live, cat) \in Nat
    <3>1. IsFiniteSet(live) BY CountFacts DEF Countable
    <3>2. {r \in live : r[2] = cat} \subseteq live OBVIOUS
    <3> QED BY <3>1, <3>2, CountFacts DEF C!Reserved
  <2>7. Limit(cat) \in Nat /\ MaxCache \in Nat BY FilesAssumption DEF C!PageCacheAssumption
  <2>8. \A k \in {"source", "pages", "jobs"} : k \in C!Categories BY DEF C!Categories
  <2>9. after[cat] = count[cat] - C!Measured(gone)[cat] OBVIOUS
  <2>10. after["source"] + after["pages"] + after["jobs"] = count["source"] + count["pages"] + count["jobs"] - C!Cardinality(gone)
    BY <2>3, <2>4, <2>8
  <2>11. /\ count["source"] \in Nat /\ count["pages"] \in Nat /\ count["jobs"] \in Nat /\ count[cat] \in Nat
         /\ C!Measured(gone)[cat] \in Nat /\ C!Cardinality(gone) \in Nat
    BY <2>2, <2>3, <2>4, <2>8, CountFacts
  <2> DEFINE total == count["source"] + count["pages"] + count["jobs"]
             left == after["source"] + after["pages"] + after["jobs"]
  <2>12. total \in Nat /\ left = total - C!Cardinality(gone) BY <2>10, <2>11
  <2>13. C!OverCategory(count, live, cat) = C!Over(count[cat] + C!Reserved(live, cat) + 1, Limit(cat))
         /\ C!OverCategory(after, live, cat) = C!Over(after[cat] + C!Reserved(live, cat) + 1, Limit(cat))
    BY DEF C!OverCategory
  <2>14. C!OverAll(count, live) = C!Over(total + C!Cardinality(live) + 1, MaxCache)
         /\ C!OverAll(after, live) = C!Over(left + C!Cardinality(live) + 1, MaxCache)
    BY DEF C!OverAll
  <2>15. C!Measured(gone)[cat] >= need /\ C!Cardinality(gone) = all BY <1>2, <2>5
  <2> HIDE DEF total, left, after
  <2>16. C!OverCategory(after, live, cat) = 0
    BY <2>6, <2>7, <2>9, <2>11, <2>13, <2>15 DEF C!Over
  <2>17. C!OverAll(after, live) = 0
    <3>1. need \in Nat /\ C!OverAll(count, live) \in Nat BY <2>6, <2>7, <2>11, <2>12, <2>13, <2>14 DEF C!Over
    <3>2. C!Cardinality(gone) >= C!OverAll(count, live) BY <2>15, <3>1
    <3> QED BY <2>6, <2>7, <2>11, <2>12, <2>14, <3>2 DEF C!Over
  <2>18. ~C!Exceeded(after, live, cat) BY <2>16, <2>17 DEF C!Exceeded
  <2> QED BY <2>18 DEF after
<1>3. gone \in (IF C!Cardinality(own) < need THEN {own} ELSE IF C!Cardinality(free) < all THEN {free}
                ELSE {e \in SUBSET free : C!Cardinality(e) = all /\ C!Cardinality(e \cap own) >= need})
  BY DEF C!Evictions
<1> QED BY <1>1, <1>2, <1>3

LEMMA Refusing ==
    ASSUME CacheTypes, Countable, NEW c \in Clients, NEW cat \in C!Categories, NEW next,
           C!Reserve(c, cat, next), next # "refused", client'[c] = "refused"
    PROVE  /\ \A r \in held' : r[1] # Dead
           /\ C!Cardinality(held') >= MaxReservations \/ \A x \in disk' : x.cat = cat => ~C!Unlocked(c, x)
<1> DEFINE full == C!Exceeded(committed, held, cat) \/ C!Cardinality(held) >= MaxReservations
           live == IF full THEN C!Recovered(held) ELSE held
           count == C!Measured(disk \ C!Protected(c))
           grant(h) == IF C!Cardinality(h) >= MaxReservations
                       THEN held' = h /\ C!Go(c, "refused")
                       ELSE held' = h \cup {<<c, cat>>} /\ C!Go(c, next)
<1>1. ASSUME C!Go(c, next) PROVE FALSE BY <1>1 DEF C!Go, CacheTypes
<1>2. ASSUME grant(live) PROVE held' = live /\ C!Cardinality(live) >= MaxReservations BY <1>1, <1>2
<1>3. ASSUME full, held' = live PROVE \A r \in held' : r[1] # Dead BY <1>3 DEF C!Recovered
<1>4. live \subseteq held BY DEF C!Recovered
<1>5. CASE ~C!Exceeded(committed, live, cat)
  <2>1. grant(live) BY <1>5 DEF C!Reserve
  <2>2. held' = live /\ C!Cardinality(live) >= MaxReservations BY <1>2, <2>1
  <2>3. full BY <2>2
  <2> QED BY <1>3, <2>2, <2>3
<1>6. CASE C!Exceeded(committed, live, cat)
  <2>1. full BY <1>6
  <2>2. PICK gone \in C!Evictions(c, count, live, cat) :
          /\ C!Evict(gone)
          /\ committed' = [k \in C!Categories |-> count[k] - C!Measured(gone)[k]]
          /\ IF C!Exceeded(committed', live, cat) THEN held' = live /\ C!Go(c, "refused") ELSE grant(live)
    BY <1>6 DEF C!Reserve
  <2>3. disk' = disk \ gone BY <2>2 DEF C!Evict
  <2>4. held' = live BY <1>2, <2>2
  <2>5. CASE C!Exceeded(committed', live, cat)
    <3>1. C!Exceeded([k \in C!Categories |-> count[k] - C!Measured(gone)[k]], live, cat) BY <2>2, <2>5
    <3>2. \A x \in disk \ gone : x.cat = cat => ~C!Unlocked(c, x)
      <4> HIDE DEF full, live, count
      <4> QED BY <1>4, <3>1, EnoughIsEnough DEF count
    <3> QED BY <1>3, <2>1, <2>3, <2>4, <3>2
  <2>6. CASE ~C!Exceeded(committed', live, cat) BY <1>2, <1>3, <2>1, <2>2, <2>6
  <2> QED BY <2>5, <2>6
<1> QED BY <1>5, <1>6

\* Nothing but a reservation is refused.
LEMMA OnlyReserving ==
    ASSUME CacheTypes, NEW c \in Clients, C!Next, client[c] # "refused", client'[c] = "refused"
    PROVE  \/ client[c] = "source" /\ C!Reserve(c, "source", "copy")
           \/ client[c] = "job" /\ C!Reserve(c, "jobs", "job dir")
           \/ client[c] = "image" /\ C!Reserve(c, "pages", "publish")
<1>1. PICK d \in Clients : C!Open(d) \/ C!Step(d) \/ C!Crash(d) \/ C!CrashEvicting(d)
                            \/ \E b \in Books, k \in Pages : C!Recognize(d, b, k)
  BY DEF C!Next
<1>2. ASSUME NEW where, C!Go(d, where) PROVE d = c /\ where = "refused" BY <1>2 DEF C!Go, CacheTypes
<1>3. CASE C!Open(d) \/ C!Crash(d) \/ C!CrashEvicting(d) BY <1>3 DEF CacheTypes, C!Go, C!Open, C!Crash, C!CrashEvicting, C!Dies
<1>4. CASE \E b \in Books, k \in Pages : C!Recognize(d, b, k) BY <1>4 DEF CacheTypes, C!Go, C!Recognize
<1>5. ASSUME NEW cat \in C!Categories, NEW next, C!Reserve(d, cat, next) PROVE d = c
  <2>1. C!Go(d, next) \/ C!Go(d, "refused") BY <1>5, Reserving
  <2> QED BY <1>2, <2>1
<1>6. CASE C!Step(d)
  <2>1. CASE C!ReserveSource(d) BY <1>5, <2>1, PiecesCount DEF C!ReserveSource
  <2>2. CASE C!ReserveJob(d) BY <1>5, <2>2, PiecesCount DEF C!ReserveJob
  <2>3. CASE C!ReservePage(d) BY <1>5, <2>3, PiecesCount DEF C!ReservePage
  <2>4. CASE C!KnownSource(d) \/ C!CopySource(d) \/ C!LinkSource(d) \/ C!CommitSource(d) \/ C!SourceFails(d)
    BY <2>4 DEF CacheTypes, C!Go, C!KnownSource, C!CopySource, C!LinkSource, C!CommitSource, C!SourceFails, C!Finish
  <2>5. CASE C!LockPage(d) \/ C!MakeJob(d) \/ C!Render(d) BY <2>5 DEF CacheTypes, C!Go, C!LockPage, C!MakeJob, C!Render, C!Finish
  <2>6. CASE C!PublishImage(d) \/ C!PublishMeta(d) \/ C!CommitPage(d) \/ C!PublishFails(d)
    BY <2>6 DEF CacheTypes, C!Go, C!PublishImage, C!PublishMeta, C!CommitPage, C!PublishFails
  <2>7. CASE C!CleanJob(d) \/ C!GiveUp(d) BY <2>7 DEF CacheTypes, C!Go, C!CleanJob, C!GiveUp, C!Finish
  <2> QED BY <1>6, <2>1, <2>2, <2>3, <2>4, <2>5, <2>6, <2>7 DEF C!Step
<1> QED BY <1>1, <1>3, <1>4, <1>6

\* Theorem: a reservation is refused only when the dead ones have been given back, and
\* nothing of its category could be evicted any more or all the slots are in use
\* (_reserve_capacity:819), for any sizes, limits and numbers of clients.
THEOREM ForAReason == C!Spec => RefusedForAReason
<1> DEFINE Justified == \A c \in Clients : client[c] # "refused" /\ client'[c] = "refused" =>
        /\ \A r \in held' : r[1] # Dead
        /\ \/ C!Cardinality(held') >= MaxReservations
           \/ LET cat == IF client[c] = "source" THEN "source"
                         ELSE IF client[c] = "job" THEN "jobs" ELSE "pages"
              IN \A x \in disk' : x.cat = cat => ~C!Unlocked(c, x)
<1>1. C!Init => Countable BY FS_EmptySet DEF C!Init, Countable
<1>2. CacheInv /\ Countable /\ [C!Next]_(C!vars) => [Justified]_(C!vars)
  <2> SUFFICES ASSUME CacheInv, Countable, C!Next, NEW c \in Clients, client[c] # "refused", client'[c] = "refused"
               PROVE  /\ \A r \in held' : r[1] # Dead
                      /\ \/ C!Cardinality(held') >= MaxReservations
                         \/ LET cat == IF client[c] = "source" THEN "source"
                                       ELSE IF client[c] = "job" THEN "jobs" ELSE "pages"
                            IN \A x \in disk' : x.cat = cat => ~C!Unlocked(c, x)
    OBVIOUS
  <2>1. CacheTypes BY DEF CacheInv
  <2>2. CASE client[c] = "source" /\ C!Reserve(c, "source", "copy") BY <2>1, <2>2, Refusing, PiecesCount
  <2>3. CASE client[c] = "job" /\ C!Reserve(c, "jobs", "job dir") BY <2>1, <2>3, Refusing, PiecesCount
  <2>4. CASE client[c] = "image" /\ C!Reserve(c, "pages", "publish") BY <2>1, <2>4, Refusing, PiecesCount
  <2> QED BY <2>1, <2>2, <2>3, <2>4, OnlyReserving
<1>3. C!Init /\ [][C!Next]_(C!vars) => [][Justified]_(C!vars)
  <2>1. C!Init => CacheInv BY CacheStart
  <2>2. CacheInv /\ [C!Next]_(C!vars) => CacheInv' BY CacheStep
  <2>3. Countable /\ CacheInv /\ [C!Next]_(C!vars) => Countable' BY CountableStep
  <2> QED BY <1>1, <1>2, <2>1, <2>2, <2>3, PTL
<1> QED BY <1>3 DEF C!Spec, RefusedForAReason, C!RefusedForAReason
=============================================================================
