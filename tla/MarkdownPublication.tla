------------------------ MODULE MarkdownPublication ------------------------
(***************************************************************************)
(* The publication of a chapter's Markdown files by                        *)
(* workbench/markdown_sync.py, and its fence in the database               *)
(* (workbench/repository.py).                                              *)
(*                                                                         *)
(* A publisher renders the files from the database, writes a claim, locks  *)
(* the directories, recovers what an earlier publisher left in them, opens *)
(* a database transaction, puts the new files in place behind a journal    *)
(* per directory that keeps the old ones, and commits.  Whether a journal  *)
(* is undone or done is decided by the receipt in the database.  Any step  *)
(* may raise, and the process may stop between any two.                    *)
(*                                                                         *)
(* A file's content is the database revision it was rendered at; 0 stands  *)
(* for a file that does not exist.  Locking the directories one by one in  *)
(* a fixed order is one step: nothing else locks a single one of them      *)
(* while the server runs.                                                  *)
(***************************************************************************)
EXTENDS Naturals, FiniteSets

CONSTANTS
    Publishers,     \* threads that serve a request
    Boot, None,     \* the start of the server; nobody
    Main, Runs,     \* the chapter's directory, its directory runs
    FilesOf,        \* FilesOf[d]: the files published in directory d
    MaxRevision,    \* bound of the model: revisions made by edits
    MaxIds          \* bound of the model: publication ids

Dirs == {Main, Runs}
Actors == Publishers \cup {Boot}

ASSUME PublicationAssumption ==
    /\ Boot \notin Publishers /\ None \notin Actors /\ Main # Runs
    /\ MaxRevision \in Nat /\ MaxIds \in Nat

VARIABLES
    revision,       \* wb_markdown_state_revision
    runsExist,      \* the chapter has rows in wb_runs: runs is part of a bundle
    nextId,         \* publication ids are fresh: the next one
    pending,        \* the row of wb_chapter_generation_publications, and its owner
    claim,          \* the row of wb_markdown_publications
    receipt,        \* the row of wb_markdown_publication_receipts
    chapterReceipt, \* the row of wb_chapter_publication_receipts
    file,           \* file[d][f]: the content of the file
    journal,        \* journal[d]: transaction_id of the PREPARED journal, 0: none
    existed,        \* existed[d]: the files that the journal says existed before
    backup,         \* backup[d][f]: the content kept in the backup, 0: no backup
    temp,           \* temp[d]: the files whose new content waits in a temporary file
    lock,           \* who holds the locks of the directories
    pc,             \* pc[a]: what actor a does
    chapter,        \* chapter[p]: p publishes a generation that is pending
    pub,            \* pub[p]: the publication id p works with
    rev,            \* rev[p]: the revision p took before it rendered
    content,        \* content[p][d]: what p rendered for d, 0: d has no bundle
    todo,           \* todo[a]: the directories left in this phase of a
    handled         \* the entries of the current journal that are recovered

dbVars == <<revision, runsExist, nextId, pending, claim, receipt, chapterReceipt>>
fileVars == <<file, journal, existed, backup, temp>>
jobVars == <<chapter, pub, rev, content>>
vars == <<dbVars, fileVars, lock, pc, jobVars, todo, handled>>

NoClaim == [id |-> 0, owner |-> None, rev |-> 0]
NoPending == [id |-> 0, owner |-> None]

TypeOK ==
    /\ revision \in Nat /\ runsExist \in BOOLEAN /\ nextId \in 1..(MaxIds + 1)
    /\ pending \in [id : 0..MaxIds, owner : Publishers \cup {None}]
    /\ claim \in [id : 0..MaxIds, owner : Publishers \cup {None}, rev : Nat]
    /\ receipt \in [id : 0..MaxIds, rev : Nat] /\ chapterReceipt \in 0..MaxIds
    /\ DOMAIN file = Dirs /\ DOMAIN backup = Dirs
    /\ journal \in [Dirs -> 0..MaxIds] /\ DOMAIN existed = Dirs /\ DOMAIN temp = Dirs
    /\ \A d \in Dirs :
        /\ file[d] \in [FilesOf[d] -> Nat] /\ backup[d] \in [FilesOf[d] -> Nat]
        /\ existed[d] \subseteq FilesOf[d] /\ temp[d] \subseteq FilesOf[d]
        /\ journal[d] = 0 => temp[d] = {} /\ \A f \in FilesOf[d] : backup[d][f] = 0
    /\ lock \in Actors \cup {None}
    /\ pc \in [Actors -> {"idle", "render", "claimed", "recover", "prepare", "replace",
                          "settle", "undo", "boot"}]
    /\ chapter \in [Publishers -> BOOLEAN] /\ pub \in [Publishers -> 0..MaxIds]
    /\ rev \in [Publishers -> Nat] /\ content \in [Publishers -> [Dirs -> Nat]]
    /\ todo \in [Actors -> SUBSET Dirs]
    /\ handled \subseteq UNION {FilesOf[d] : d \in Dirs}

Init ==
    /\ revision = 1 /\ runsExist = FALSE /\ nextId = 1
    /\ pending = NoPending /\ claim = NoClaim
    /\ receipt = [id |-> 0, rev |-> 0] /\ chapterReceipt = 0
    /\ file = [d \in Dirs |-> [f \in FilesOf[d] |-> 0]]
    /\ journal = [d \in Dirs |-> 0] /\ existed = [d \in Dirs |-> {}]
    /\ backup = [d \in Dirs |-> [f \in FilesOf[d] |-> 0]]
    /\ temp = [d \in Dirs |-> {}]
    /\ lock = None /\ pc = [a \in Actors |-> "idle"]
    /\ chapter = [p \in Publishers |-> FALSE] /\ pub = [p \in Publishers |-> 0]
    /\ rev = [p \in Publishers |-> 0]
    /\ content = [p \in Publishers |-> [d \in Dirs |-> 0]]
    /\ todo = [a \in Actors |-> {}] /\ handled = {}

\* BEGIN IMMEDIATE: no other transaction writes while one is open.
TxOpen == \E p \in Publishers : pc[p] \in {"prepare", "replace"}
DbFree == ~TxOpen /\ lock # Boot

\* The variables of p go with its call.
Returns(p) ==
    /\ pc' = [pc EXCEPT ![p] = "idle"] /\ todo' = [todo EXCEPT ![p] = {}]
    /\ chapter' = [chapter EXCEPT ![p] = FALSE] /\ pub' = [pub EXCEPT ![p] = 0]
    /\ rev' = [rev EXCEPT ![p] = 0]
    /\ content' = [content EXCEPT ![p] = [d \in Dirs |-> 0]]

\* The bundle of p, and the directory that actor a works on.
Bundle(p) == {d \in Dirs : content[p][d] # 0}
Current(a) == IF Main \in todo[a] THEN Main ELSE Runs

-----------------------------------------------------------------------------
(* The database: edits, and the generation that stages a publication *)

\* Some operation changes what the files are rendered from; triggers count it.
Edit ==
    /\ DbFree /\ revision < MaxRevision
    /\ revision' = revision + 1
    /\ runsExist' \in BOOLEAN /\ (runsExist => runsExist')
    /\ UNCHANGED <<nextId, pending, claim, receipt, chapterReceipt,
                   fileVars, lock, pc, jobVars, todo, handled>>

\* publish_chapter_generation: the publication is staged with its id.
Stage ==
    /\ DbFree /\ pending.id = 0 /\ nextId <= MaxIds /\ revision < MaxRevision
    /\ pending' = [id |-> nextId, owner |-> None] /\ nextId' = nextId + 1
    /\ revision' = revision + 1 /\ runsExist' = TRUE
    /\ UNCHANGED <<claim, receipt, chapterReceipt,
                   fileVars, lock, pc, jobVars, todo, handled>>

\* start_chapter_generation finds that the input of the staged publication has
\* changed: the generation starts again.
Discard ==
    /\ DbFree /\ pending.id # 0 /\ revision < MaxRevision
    /\ pending' = NoPending /\ revision' = revision + 1
    /\ UNCHANGED <<runsExist, nextId, claim, receipt, chapterReceipt,
                   fileVars, lock, pc, jobVars, todo, handled>>

-----------------------------------------------------------------------------
(* Rendering and claiming: no lock is held *)

Begins(p, r) ==
    /\ pc' = [pc EXCEPT ![p] = "render"]
    /\ rev' = [rev EXCEPT ![p] = r]
    /\ content' = [content EXCEPT ![p] = [d \in Dirs |-> 0]]
    /\ todo' = [todo EXCEPT ![p] = Dirs]
    /\ UNCHANGED <<fileVars, lock, handled>>

\* sync_chapter_markdown after an edit takes the revision and renders.
StartSync(p) ==
    /\ DbFree /\ pc[p] = "idle"
    /\ Begins(p, revision)
    /\ chapter' = [chapter EXCEPT ![p] = FALSE] /\ pub' = [pub EXCEPT ![p] = 0]
    /\ UNCHANGED dbVars

\* publish_chapter_markdown by the owner of the staged publication: the one who
\* staged it, or one who took it over when the lease of an earlier owner had
\* expired or was given up, which changes rows.
StartChapter(p) ==
    /\ DbFree /\ pc[p] = "idle" /\ pending.id # 0
    /\ pending' = [id |-> pending.id, owner |-> p]
    /\ IF pending.owner = None THEN revision' = revision
       ELSE revision < MaxRevision /\ revision' = revision + 1
    /\ Begins(p, revision')
    /\ chapter' = [chapter EXCEPT ![p] = TRUE] /\ pub' = [pub EXCEPT ![p] = pending.id]
    /\ UNCHANGED <<runsExist, nextId, claim, receipt, chapterReceipt>>

\* _sync_chapter_markdown renders a directory from the rows of that moment.
Render(p) ==
    /\ DbFree /\ pc[p] = "render" /\ todo[p] # {}
    /\ LET d == Current(p)
       IN /\ content' = [content EXCEPT ![p][d] =
                            IF d = Main \/ runsExist THEN revision ELSE 0]
          /\ todo' = [todo EXCEPT ![p] = @ \ {d}]
    /\ UNCHANGED <<dbVars, fileVars, lock, pc, chapter, pub, rev, handled>>

\* Mutant: the claim takes the revision of its own moment.
ClaimsNow(p) ==
    /\ claim' = [id |-> pub'[p], owner |-> p, rev |-> revision]
    /\ rev' = [rev EXCEPT ![p] = revision]

\* The row says for which revision the files were rendered.
ClaimsRendered(p) ==
    /\ revision = rev[p]
    /\ claim' = [id |-> pub'[p], owner |-> p, rev |-> rev[p]]
    /\ UNCHANGED rev

\* claim_markdown_publication: the last claim replaces the earlier ones.
Claim(p) ==
    /\ DbFree /\ pc[p] = "render" /\ todo[p] = {}
    /\ IF chapter[p]
       THEN pending = [id |-> pub[p], owner |-> p] /\ UNCHANGED <<pub, nextId>>
       ELSE /\ nextId <= MaxIds /\ nextId' = nextId + 1
            /\ pub' = [pub EXCEPT ![p] = nextId]
    /\ ClaimsRendered(p)
    /\ pc' = [pc EXCEPT ![p] = "claimed"]
    /\ UNCHANGED <<revision, runsExist, pending, receipt, chapterReceipt,
                   fileVars, lock, chapter, content, todo, handled>>

\* The state changed, the lease is lost, or rendering raised.
GivesUp(p) ==
    /\ pc[p] = "render"
    /\ Returns(p)
    /\ UNCHANGED <<dbVars, fileVars, lock, handled>>

-----------------------------------------------------------------------------
(* Recovery of a directory: _recover_atomic_bundle_locked *)

\* The publications that actor a finds committed.
Committed(a) == IF a = Boot THEN {receipt.id, chapterReceipt} ELSE {receipt.id}

\* What the journal of d makes of file f when it is undone.
Undone(d, f) ==
    IF f \notin existed[d] THEN 0 ELSE IF backup[d][f] # 0 THEN backup[d][f] ELSE file[d][f]

Recovering(a) ==
    /\ lock = a /\ pc[a] \in {"recover", "settle", "undo", "boot"} /\ todo[a] # {}

\* An entry of a committed transaction stays as it is, of another one it is
\* undone; its temporary file and its backup go.
RecoverEntry(a) ==
    LET d == Current(a)
    IN /\ Recovering(a) /\ journal[d] # 0
       /\ \E f \in FilesOf[d] \ handled :
            /\ file' = IF journal[d] \in Committed(a) THEN file
                       ELSE [file EXCEPT ![d][f] = Undone(d, f)]
            /\ backup' = [backup EXCEPT ![d][f] = 0]
            /\ temp' = [temp EXCEPT ![d] = @ \ {f}]
            /\ handled' = handled \cup {f}
       /\ UNCHANGED <<dbVars, journal, existed, lock, pc, jobVars, todo>>

\* No journal, or every entry is handled and the journal goes.
RecoverDone(a) ==
    LET d == Current(a)
    IN /\ Recovering(a)
       /\ journal[d] # 0 => FilesOf[d] \subseteq handled
       /\ journal' = [journal EXCEPT ![d] = 0] /\ existed' = [existed EXCEPT ![d] = {}]
       /\ todo' = [todo EXCEPT ![a] = @ \ {d}] /\ handled' = {}
       /\ UNCHANGED <<dbVars, file, backup, temp, lock, pc, jobVars>>

-----------------------------------------------------------------------------
(* The publication under the locks: commit_markdown_publication *)

\* Mutant: what an earlier publisher left in the directories is not looked at.
LockAndWrite(p) ==
    /\ pc[p] = "claimed" /\ lock = None
    /\ lock' = p /\ pc' = [pc EXCEPT ![p] = "recover"] /\ handled' = {}
    /\ UNCHANGED <<dbVars, fileVars, jobVars, todo>>

Lock(p) ==
    /\ pc[p] = "claimed" /\ lock = None
    /\ lock' = p /\ pc' = [pc EXCEPT ![p] = "recover"]
    /\ todo' = [todo EXCEPT ![p] = Bundle(p)] /\ handled' = {}
    /\ UNCHANGED <<dbVars, fileVars, jobVars>>

\* The fence: the claim is still p's, the state is the one it rendered, and a
\* staged publication still belongs to p.
Valid(p) ==
    /\ claim = [id |-> pub[p], owner |-> p, rev |-> rev[p]] /\ revision = rev[p]
    /\ chapter[p] => pending = [id |-> pub[p], owner |-> p]

\* Every directory is recovered; the transaction begins.
Fence(p) ==
    /\ pc[p] = "recover" /\ todo[p] = {} /\ DbFree /\ Valid(p)
    /\ pc' = [pc EXCEPT ![p] = "prepare"] /\ todo' = [todo EXCEPT ![p] = Bundle(p)]
    /\ UNCHANGED <<dbVars, fileVars, lock, jobVars, handled>>

\* _prepare_atomic_bundle_locked: the new contents are in temporary files, the
\* old ones in backups, and the journal that names them is in place.
WriteJournal(p) ==
    LET d == Current(p)
    IN /\ pc[p] = "prepare" /\ todo[p] # {}
       /\ journal' = [journal EXCEPT ![d] = pub[p]]
       /\ existed' = [existed EXCEPT ![d] = {f \in FilesOf[d] : file[d][f] # 0}]
       /\ backup' = [backup EXCEPT ![d] = file[d]]
       /\ temp' = [temp EXCEPT ![d] = FilesOf[d]]
       /\ pc' = [pc EXCEPT ![p] = "replace"]
       /\ UNCHANGED <<dbVars, file, lock, jobVars, todo, handled>>

\* The journal is in place, but the sync of its directory raises: what it
\* names is removed again.
WriteJournalRaises(p) ==
    LET d == Current(p)
    IN /\ pc[p] = "prepare" /\ todo[p] # {}
       /\ journal' = [journal EXCEPT ![d] = pub[p]]
       /\ existed' = [existed EXCEPT ![d] = {f \in FilesOf[d] : file[d][f] # 0}]
       /\ pc' = [pc EXCEPT ![p] = "undo"] /\ todo' = [todo EXCEPT ![p] = Bundle(p)]
       /\ handled' = {}
       /\ UNCHANGED <<dbVars, file, backup, temp, lock, jobVars>>

Replace(p) ==
    LET d == Current(p)
    IN /\ pc[p] = "replace"
       /\ \E f \in temp[d] :
            /\ file' = [file EXCEPT ![d][f] = content[p][d]]
            /\ temp' = [temp EXCEPT ![d] = @ \ {f}]
       /\ UNCHANGED <<dbVars, journal, existed, backup, lock, pc, jobVars, todo, handled>>

\* The next directory of the bundle.
Replaced(p) ==
    LET d == Current(p)
    IN /\ pc[p] = "replace" /\ temp[d] = {}
       /\ pc' = [pc EXCEPT ![p] = "prepare"] /\ todo' = [todo EXCEPT ![p] = @ \ {d}]
       /\ UNCHANGED <<dbVars, fileVars, lock, jobVars, handled>>

\* The files are bound to the fence, which checks again, writes the receipts
\* and commits; a generation is finalized with it, which changes rows too.
Commit(p) ==
    /\ pc[p] = "prepare" /\ todo[p] = {} /\ Valid(p)
    /\ receipt' = [id |-> pub[p], rev |-> rev[p]] /\ claim' = NoClaim
    /\ IF chapter[p]
       THEN chapterReceipt' = pub[p] /\ pending' = NoPending /\ revision' = revision + 1
       ELSE UNCHANGED <<chapterReceipt, pending, revision>>
    /\ pc' = [pc EXCEPT ![p] = "settle"] /\ todo' = [todo EXCEPT ![p] = Bundle(p)]
    /\ handled' = {}
    /\ UNCHANGED <<runsExist, nextId, fileVars, lock, jobVars>>

\* A step raises: a transaction that is open is rolled back, and every
\* directory is recovered.
Raises(p) ==
    /\ lock = p /\ pc[p] \in {"recover", "prepare", "replace", "settle"}
    /\ pc' = [pc EXCEPT ![p] = "undo"] /\ todo' = [todo EXCEPT ![p] = Bundle(p)]
    /\ handled' = {}
    /\ UNCHANGED <<dbVars, fileVars, lock, jobVars>>

\* The directories are recovered, or their recovery after an exception raises
\* itself: the locks are released with what is on disk.
Unlock(p) ==
    /\ lock = p
    /\ \/ pc[p] = "settle" /\ todo[p] = {}
       \/ pc[p] = "undo"
    /\ lock' = None /\ Returns(p) /\ handled' = {}
    /\ UNCHANGED <<dbVars, fileVars>>

-----------------------------------------------------------------------------
(* Crash and start *)

\* The process ends; at its next start the journals of the chapter are
\* recovered before any request is served.
Crash ==
    /\ lock' = Boot
    /\ pc' = [a \in Actors |-> IF a = Boot THEN "boot" ELSE "idle"]
    /\ todo' = [a \in Actors |-> IF a = Boot THEN Dirs ELSE {}] /\ handled' = {}
    /\ chapter' = [p \in Publishers |-> FALSE] /\ pub' = [p \in Publishers |-> 0]
    /\ rev' = [p \in Publishers |-> 0]
    /\ content' = [p \in Publishers |-> [d \in Dirs |-> 0]]
    /\ UNCHANGED <<dbVars, fileVars>>

\* _recover_pending_chapter_publications: the claim goes if the recovery of
\* the journals succeeded.
BootEnds ==
    /\ lock = Boot
    /\ \/ todo[Boot] = {} /\ claim' = NoClaim
       \/ UNCHANGED claim
    /\ lock' = None /\ pc' = [pc EXCEPT ![Boot] = "idle"]
    /\ todo' = [todo EXCEPT ![Boot] = {}] /\ handled' = {}
    /\ UNCHANGED <<revision, runsExist, nextId, pending, receipt, chapterReceipt,
                   fileVars, jobVars>>

Next ==
    \/ Edit \/ Stage \/ Discard \/ Crash \/ BootEnds
    \/ \E p \in Publishers :
        \/ StartSync(p) \/ StartChapter(p) \/ Render(p) \/ Claim(p) \/ GivesUp(p)
        \/ Lock(p) \/ Fence(p) \/ WriteJournal(p) \/ WriteJournalRaises(p)
        \/ Replace(p) \/ Replaced(p) \/ Commit(p) \/ Raises(p) \/ Unlock(p)
    \/ \E a \in Actors : RecoverEntry(a) \/ RecoverDone(a)

Spec == Init /\ [][Next]_vars

-----------------------------------------------------------------------------
(* Properties *)

\* What a reader sees once the journals are recovered: a journal whose
\* transaction did not commit is undone.
Shown ==
    [d \in Dirs |-> [f \in FilesOf[d] |->
        IF journal[d] \in {0, receipt.id} THEN file[d][f] ELSE Undone(d, f)]]

Contract == INSTANCE AtomicPublication WITH shown <- Shown

\* The files of all directories change together, when the receipt is written,
\* and neither an exception nor a crash between two file operations or between
\* the commit and the removal of the journals shows anything else.
ImplementsContract == Contract!Spec

\* What is committed was rendered from the rows as they are at the commit: an
\* edit made while the files were rendered or waited for the locks is not lost.
CommittedIsCurrent ==
    [][\A p \in Publishers : pc[p] = "prepare" /\ pc'[p] = "settle" =>
        /\ \A d \in Dirs : d = Main \/ runsExist => content[p][d] = revision]_vars
=============================================================================
