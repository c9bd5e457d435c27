------------------------- MODULE OcrWorkflowProofs -------------------------
(***************************************************************************)
(* Theorems about OcrWorkflow: the types of its state, and for any         *)
(* processes, pages, sources and limits, that a final says what its pages  *)
(* hold, that a completed publication is kept, and that a note is bound to *)
(* the final it was generated from.                                        *)
(***************************************************************************)
EXTENDS OcrWorkflow, TLAPS

\* A page of a batch of the file s.
PageOK(r, pg, s) ==
    /\ r.evidence <= Len(Evidence(pg))
    /\ r.evidence > 0 => r.of = s
    /\ r.status = "review_pending" => pg \in Escalated
    /\ r.status = "completed" => r.evidence = Len(Evidence(pg))

BatchOK(b) == \A pg \in Pages : PageOK(b.pages[pg], pg, b.of)

\* What the loop leaves behind: pages with all their evidence, or that wait.
Passed(b, n) ==
    \A pg \in Pages :
        pg < n => \/ ValidPage(b, pg)
                  \/ b.pages[pg].status = "review_pending" /\ pg \in Escalated

\* A page is being worked on.
OnPage ==
    /\ step \in {"stage", "call", "engine"} => page \in Pages /\ (prior => page \in Escalated)
    /\ step \in {"call", "engine"} => mem.pages[page].evidence < Len(Evidence(page))

\* The batch on its way to be published.
Sealing ==
    step = "seal" =>
        /\ state = mem /\ page > LastPage
        /\ mem.status \in {"completed", "review_required"}
        /\ mem.status = "completed" => \A pg \in Pages : ValidPage(mem, pg)

Walk ==
    /\ BatchOK(state) /\ BatchOK(mem) /\ OnPage /\ Sealing
    /\ step \in {"pages", "stage", "call", "engine", "seal"} => Passed(mem, page)
    /\ step \in {"finish", "ending"} => ending \in Results
    /\ FinalIsSound /\ final.status \in {"none", "completed", "review_required"}

NoteLock == api.op \in {"generating", "bound"} <=> pub = "api"

IInv == TypeOK /\ Walk /\ NoteLock

-----------------------------------------------------------------------------
(* Pages and batches *)

LEMMA EvidenceFacts ==
    ASSUME NEW pg \in Pages
    PROVE  /\ Len(Evidence(pg)) \in {3, 4}
           /\ Evidence(pg)[1] = "vision"
           /\ \A i \in 1..Len(Evidence(pg)) :
                /\ Evidence(pg)[i] = "vision" => i = 1
                /\ Evidence(pg)[i] = "baidu" => pg \in Escalated
<1>1. CASE pg \in Escalated BY <1>1 DEF Evidence
<1>2. CASE pg \notin Escalated BY <1>2 DEF Evidence
<1> QED BY <1>1, <1>2

LEMMA NewPageOK ==
    /\ NewPage \in PageRecords /\ NewPage.attempts = 0 /\ NewPage.evidence = 0
    /\ NewPage.status = "pending"
    /\ \A pg \in Pages, s \in 0..MaxSource : PageOK(NewPage, pg, s)
<1>1. NewPage \in PageRecords BY OcrAssumption DEF NewPage, PageRecords
<1>2. ASSUME NEW pg \in Pages, NEW s \in 0..MaxSource PROVE PageOK(NewPage, pg, s)
  BY EvidenceFacts DEF NewPage, PageOK
<1> QED BY <1>1, <1>2 DEF NewPage

LEMMA NoBatchOK == NoBatch \in Batches /\ BatchOK(NoBatch) /\ NoBatch.status = "none"
<1>1. NoBatch \in Batches BY NewPageOK, OcrAssumption DEF NoBatch, Batches
<1>2. BatchOK(NoBatch) BY NewPageOK, OcrAssumption DEF NoBatch, BatchOK
<1> QED BY <1>1, <1>2 DEF NoBatch

LEMMA FreshOK ==
    ASSUME NEW s \in Sources PROVE Fresh(s) \in Batches /\ BatchOK(Fresh(s))
<1>1. s \in 0..MaxSource BY OcrAssumption DEF Sources
<1>2. Fresh(s) \in Batches BY <1>1, NewPageOK DEF Fresh, Batches
<1>3. BatchOK(Fresh(s)) BY <1>1, NewPageOK DEF Fresh, BatchOK
<1> QED BY <1>2, <1>3

\* A page of a batch is replaced.
LEMMA Replace ==
    ASSUME NEW b \in Batches, BatchOK(b), NEW pg \in Pages, NEW r \in PageRecords,
           PageOK(r, pg, b.of)
    PROVE  LET c == [b EXCEPT !.pages[pg] = r]
           IN /\ c \in Batches /\ BatchOK(c)
              /\ c.status = b.status /\ c.of = b.of /\ c.pages[pg] = r
              /\ Passed(b, pg) => Passed(c, pg)
<1> DEFINE c == [b EXCEPT !.pages[pg] = r]
<1>1. /\ c \in Batches /\ c.status = b.status /\ c.of = b.of /\ c.pages[pg] = r
      /\ \A q \in Pages : q # pg => c.pages[q] = b.pages[q]
  BY DEF Batches
<1>2. BatchOK(c) BY <1>1 DEF BatchOK
<1>3. Passed(b, pg) => Passed(c, pg) BY <1>1 DEF Passed, ValidPage, Pages
<1> QED BY <1>1, <1>2, <1>3

\* The status of a batch is replaced.
LEMMA Restatus ==
    ASSUME NEW b \in Batches, BatchOK(b), NEW s \in Results \cup {"running"}
    PROVE  LET c == [b EXCEPT !.status = s]
           IN /\ c \in Batches /\ BatchOK(c)
              /\ c.status = s /\ c.of = b.of /\ c.pages = b.pages
              /\ \A pg \in Pages : ValidPage(c, pg) = ValidPage(b, pg)
<1> DEFINE c == [b EXCEPT !.status = s]
<1>1. c \in Batches /\ c.status = s /\ c.of = b.of /\ c.pages = b.pages BY DEF Batches
<1>2. BatchOK(c) BY <1>1 DEF BatchOK
<1>3. \A pg \in Pages : ValidPage(c, pg) = ValidPage(b, pg) BY <1>1 DEF ValidPage
<1> QED BY <1>1, <1>2, <1>3

\* What the handlers of run_batch do to the batch.
LEMMA Marks ==
    ASSUME NEW b \in Batches, BatchOK(b), NEW pg \in Pages,
           NEW s \in {"cancelled", "failed"}
    PROVE  LET c == [b EXCEPT !.pages[pg].status = s] IN c \in Batches /\ BatchOK(c)
<1> DEFINE r == [b.pages[pg] EXCEPT !.status = s]
<1>1. b.pages[pg] \in PageRecords /\ PageOK(b.pages[pg], pg, b.of) BY DEF Batches, BatchOK
<1>2. r \in PageRecords /\ PageOK(r, pg, b.of) BY <1>1 DEF PageRecords, PageOK
<1>3. [b EXCEPT !.pages[pg].status = s] = [b EXCEPT !.pages[pg] = r] BY DEF Batches
<1> HIDE DEF r
<1> QED BY <1>2, <1>3, Replace

\* A page that is completed stays behind the loop.
LEMMA Passes ==
    ASSUME NEW b \in Batches, BatchOK(b), NEW pg \in Pages, Passed(b, pg),
           b.pages[pg].status \in {"completed", "review_pending"}
    PROVE  Passed(b, pg + 1)
<1>1. \/ ValidPage(b, pg)
      \/ b.pages[pg].status = "review_pending" /\ pg \in Escalated
  BY EvidenceFacts DEF BatchOK, PageOK, ValidPage
<1>2. \A q \in Pages : q < pg + 1 => q < pg \/ q = pg BY DEF Pages
<1> QED BY <1>1, <1>2 DEF Passed

-----------------------------------------------------------------------------
(* Steps that leave the batches alone *)

batchVars == <<state, final, mem, page, step, prior, ending>>

LEMMA Frame == ASSUME Walk, UNCHANGED batchVars PROVE Walk'
BY DEF Walk, OnPage, Sealing, FinalIsSound, batchVars

LEMMA FinalPrint == ASSUME IInv PROVE Fingerprint(final) \in Prints
BY DEF IInv, TypeOK, Walk, Fingerprint, Prints, Batches

LEMMA NoCallOK ==
    /\ NoPrint \in Prints
    /\ NoCall \in [op : {"none", "prepared", "generating", "bound"},
                   by : Procs \cup {None}, final : Prints, before : Prints]
    /\ NoCall.op = "none"
<1>1. NoPrint \in Prints BY OcrAssumption DEF NoPrint, Fingerprint, NoBatch, Prints
<1> QED BY <1>1 DEF NoCall

\* The worker starts, with nothing in its hands.
LEMMA LaunchKeeps ==
    ASSUME IInv, NEW p \in Procs, NEW key \in BOOLEAN, NEW review \in BOOLEAN,
           Launch(p, key, review), up'[p], up' \in [Procs -> BOOLEAN],
           UNCHANGED <<diskVars, pub, api, crashes>>
    PROVE  IInv'
<1> USE DEF IInv, Launch, diskVars
<1>1. TypeOK' BY OcrAssumption DEF TypeOK
<1>2. Walk' BY DEF Walk, OnPage, Sealing, FinalIsSound
<1>3. NoteLock' BY DEF NoteLock
<1> QED BY <1>1, <1>2, <1>3

LEMMA StartKeeps == ASSUME IInv, NEW p \in Procs, Start(p) PROVE IInv'
<1>1. PICK key \in BOOLEAN : Launch(p, key, FALSE) BY DEF Start
<1>2. up'[p] /\ up' \in [Procs -> BOOLEAN] BY DEF Start, IInv, TypeOK
<1> QED BY <1>1, <1>2, LaunchKeeps DEF Start

LEMMA StartReviewKeeps == ASSUME IInv, NEW p \in Procs, StartReview(p) PROVE IInv'
<1>1. up'[p] /\ up' \in [Procs -> BOOLEAN] BY DEF StartReview, IInv, TypeOK
<1> QED BY <1>1, LaunchKeeps DEF StartReview

LEMMA CancelKeeps == ASSUME IInv, NEW p \in Procs, Cancel(p) PROVE IInv'
<1> USE DEF IInv, Cancel, diskVars, workerVars
<1>1. TypeOK' BY DEF TypeOK
<1>2. Walk' BY Frame DEF batchVars
<1> QED BY <1>1, <1>2 DEF NoteLock

LEMMA GoneKeeps ==
    ASSUME Walk, WorkerGone, UNCHANGED <<state, final>> PROVE Walk'
BY NoBatchOK DEF Walk, WorkerGone, OnPage, Sealing, FinalIsSound

LEMMA EndRunKeeps == ASSUME IInv, EndRun PROVE IInv'
<1> USE DEF IInv, EndRun, diskVars
<1>1. TypeOK'
  <2>1. ending \in Results /\ claim \in Procs BY DEF Walk, TypeOK
  <2>2. status' \in [Procs -> Results \cup {"idle", "running"}] BY <2>1 DEF TypeOK
  <2>3. 1 \in 1..(LastPage + 1) BY OcrAssumption
  <2> QED BY <2>2, <2>3, NoBatchOK DEF TypeOK, WorkerGone
<1>2. Walk' BY GoneKeeps
<1>3. NoteLock' BY DEF NoteLock
<1> QED BY <1>1, <1>2, <1>3

LEMMA CrashKeeps == ASSUME IInv, NEW p \in Procs, Crash(p) PROVE IInv'
<1> USE DEF IInv, Crash, diskVars
<1>1. Walk'
  <2>1. CASE claim = p BY <2>1, GoneKeeps
  <2>2. CASE claim # p BY <2>2, Frame DEF batchVars, workerVars
  <2> QED BY <2>1, <2>2
<1>2. /\ up' \in [Procs -> BOOLEAN] /\ cancel' \in [Procs -> BOOLEAN]
      /\ status' \in [Procs -> Results \cup {"idle", "running"}] /\ crashes' \in 0..MaxCrashes
  BY OcrAssumption DEF TypeOK
<1>3. api' \in [op : {"none", "prepared", "generating", "bound"},
                by : Procs \cup {None}, final : Prints, before : Prints]
  BY NoCallOK DEF TypeOK
<1>4. pub' \in {"worker", "api", None} /\ (pub' = "worker" <=> step' = "seal")
  BY OcrAssumption DEF TypeOK, NoteLock, WorkerGone, workerVars
<1>5. (step' = "none") = (claim' = None) /\ (claim' # None => up'[claim'])
  BY OcrAssumption DEF TypeOK, WorkerGone, workerVars
<1>6. /\ claim' \in Procs \cup {None} /\ mem' \in Batches /\ page' \in 1..(LastPage + 1)
      /\ baidu' \in BOOLEAN /\ prior' \in BOOLEAN /\ reviewing' \in BOOLEAN
      /\ ending' \in Results \cup {"none"}
      /\ step' \in {"none", "begin", "mark", "pages", "stage", "call", "engine",
                    "publish", "seal", "finish", "ending"}
  <2>1. 1 \in 1..(LastPage + 1) BY OcrAssumption
  <2>2. CASE claim = p BY <2>1, <2>2, NoBatchOK DEF WorkerGone
  <2>3. CASE claim # p BY <2>3 DEF TypeOK, workerVars
  <2> QED BY <2>2, <2>3
<1>7. TypeOK' BY <1>2, <1>3, <1>4, <1>5, <1>6 DEF TypeOK
<1>8. NoteLock'
  <2>1. api.op \in {"generating", "bound"} <=> pub = "api" BY DEF NoteLock
  <2>2. claim = p /\ pub = "worker" => pub # "api" OBVIOUS
  <2> QED BY <2>1, <2>2, NoCallOK, OcrAssumption DEF NoteLock
<1> QED BY <1>1, <1>7, <1>8

LEMMA RestartKeeps == ASSUME IInv, NEW p \in Procs, Restart(p) PROVE IInv'
<1>1. up'[p] /\ up' \in [Procs -> BOOLEAN] BY DEF Restart, IInv, TypeOK
<1>2. CASE Interrupted /\ claim = None
  <2>1. PICK key \in BOOLEAN : Launch(p, key, FALSE) BY <1>2 DEF Restart
  <2> QED BY <1>1, <2>1, LaunchKeeps DEF Restart
<1>3. CASE ~(Interrupted /\ claim = None)
  <2>1. /\ UNCHANGED <<diskVars, workerVars, status, cancel, pub, api, crashes>>
        /\ up' = [up EXCEPT ![p] = TRUE]
    BY <1>3 DEF Restart
  <2>2. claim' # None => up'[claim'] BY <2>1 DEF IInv, TypeOK, workerVars
  <2>3. TypeOK' BY <1>1, <2>1, <2>2 DEF IInv, TypeOK, diskVars, workerVars
  <2>4. Walk' BY <2>1, Frame DEF IInv, batchVars, diskVars, workerVars
  <2> QED BY <2>1, <2>3, <2>4 DEF IInv, NoteLock
<1> QED BY <1>2, <1>3

LEMMA ReplaceSourceKeeps == ASSUME IInv, ReplaceSource PROVE IInv'
<1> USE DEF IInv, ReplaceSource, workerVars, procVars
<1>1. TypeOK' BY OcrAssumption DEF TypeOK, Sources
<1>2. Walk' BY Frame DEF batchVars
<1> QED BY <1>1, <1>2 DEF NoteLock

LEMMA DetectChaptersKeeps == ASSUME IInv, NEW p \in Procs, DetectChapters(p) PROVE IInv'
<1> USE DEF IInv, DetectChapters, workerVars, procVars
<1>1. TypeOK' BY FinalPrint DEF TypeOK
<1>2. Walk' BY Frame DEF batchVars
<1> QED BY <1>1, <1>2 DEF NoteLock

LEMMA ConfirmChapterKeeps == ASSUME IInv, NEW p \in Procs, ConfirmChapter(p) PROVE IInv'
<1> USE DEF IInv, ConfirmChapter, workerVars, procVars
<1>1. TypeOK' BY DEF TypeOK
<1>2. Walk' BY Frame DEF batchVars
<1> QED BY <1>1, <1>2 DEF NoteLock

LEMMA PrepareNoteKeeps == ASSUME IInv, NEW p \in Procs, PrepareNote(p) PROVE IInv'
<1> USE DEF IInv, PrepareNote, diskVars, workerVars, procVars
<1>1. TypeOK' BY NoCallOK DEF TypeOK
<1>2. Walk' BY Frame DEF batchVars
<1>3. NoteLock' BY NoCallOK DEF NoteLock, NoCall
<1> QED BY <1>1, <1>2, <1>3

LEMMA LockForNoteKeeps == ASSUME IInv, LockForNote PROVE IInv'
<1> USE DEF IInv, LockForNote, diskVars, workerVars, procVars
<1>1. TypeOK' BY NoCallOK, OcrAssumption DEF TypeOK
<1>2. Walk' BY Frame DEF batchVars
<1>3. NoteLock' BY NoCallOK, OcrAssumption DEF NoteLock, TypeOK
<1> QED BY <1>1, <1>2, <1>3

LEMMA BindNoteKeeps == ASSUME IInv, BindNote PROVE IInv'
<1> USE DEF IInv, BindNote, NoteRefused, workerVars, procVars
<1>1. pub = "api" BY DEF NoteLock
<1>2. manifest' \in Prints /\ pub' \in {pub, None} BY DEF TypeOK
<1>3. api' \in [op : {"none", "prepared", "generating", "bound"},
                by : Procs \cup {None}, final : Prints, before : Prints]
  BY NoCallOK DEF TypeOK
<1>4. TypeOK' BY <1>1, <1>2, <1>3, OcrAssumption DEF TypeOK
<1>5. Walk' BY Frame DEF batchVars
<1>6. NoteLock' BY <1>1, NoCallOK, OcrAssumption DEF NoteLock, TypeOK
<1> QED BY <1>4, <1>5, <1>6

LEMMA CheckNoteKeeps == ASSUME IInv, CheckNote PROVE IInv'
<1> USE DEF IInv, CheckNote, workerVars, procVars
<1>1. pub = "api" BY DEF NoteLock
<1>2. TypeOK' BY <1>1, NoCallOK, OcrAssumption DEF TypeOK
<1>3. Walk' BY Frame DEF batchVars
<1>4. NoteLock' BY <1>1, NoCallOK, OcrAssumption DEF NoteLock, TypeOK
<1> QED BY <1>2, <1>3, <1>4

-----------------------------------------------------------------------------
(* Steps of the worker *)

LEMMA Persists ==
    ASSUME IInv, NEW b \in Batches, BatchOK(b), Persist(b)
    PROVE  state' \in Batches /\ BatchOK(state')
BY DEF IInv, TypeOK, Walk, Persist

\* A step that ends the run leaves a batch of the right form.
LEMMA Finishes ==
    ASSUME IInv, NEW r \in Results, NEW m \in {"none", "cancelled", "failed"},
           Finishing(r, m), m = "none" \/ page \in Pages
    PROVE  /\ mem' \in Batches /\ BatchOK(mem') /\ step' = "finish"
           /\ ending' \in Results
<1>1. mem \in Batches /\ BatchOK(mem) BY DEF IInv, TypeOK, Walk
<1>2. CASE mem' = mem BY <1>1, <1>2 DEF Finishing
<1>3. CASE m # "none" /\ mem' = [mem EXCEPT !.pages[page].status = m]
  <2>1. m \in {"cancelled", "failed"} /\ page \in Pages BY <1>3
  <2>2. [mem EXCEPT !.pages[page].status = m] \in Batches
        /\ BatchOK([mem EXCEPT !.pages[page].status = m])
    BY <1>1, <2>1, Marks
  <2> QED BY <1>3, <2>2 DEF Finishing
<1> QED BY <1>2, <1>3 DEF Finishing

LEMMA BeginKeeps == ASSUME IInv, Begin PROVE IInv'
<1> USE DEF IInv, Begin, procVars
<1>1. mem' \in Batches /\ BatchOK(mem')
  <2>1. source \in Sources BY DEF TypeOK
  <2> QED BY <2>1, FreshOK DEF TypeOK, Walk
<1>2. final' \in {final, NoBatch} OBVIOUS
<1>3. step' \in {"ending", "mark"} /\ ending' \in Results \cup {"none"}
      /\ (step' = "ending" => ending' \in Results)
  BY DEF Return, TypeOK, Results
<1>4. TypeOK' BY <1>1, <1>2, <1>3, NoBatchOK, OcrAssumption DEF TypeOK
<1>5. Walk' BY <1>1, <1>2, <1>3, NoBatchOK DEF Walk, OnPage, Sealing, FinalIsSound
<1> QED BY <1>4, <1>5 DEF NoteLock

LEMMA BeginFailsKeeps == ASSUME IInv, BeginFails PROVE IInv'
<1> USE DEF IInv, BeginFails, diskVars, procVars
<1>1. step' = "ending" /\ ending' \in Results BY DEF Return, Results
<1>2. TypeOK' BY <1>1, OcrAssumption DEF TypeOK
<1>3. Walk' BY <1>1 DEF Walk, OnPage, Sealing, FinalIsSound
<1> QED BY <1>2, <1>3 DEF NoteLock

LEMMA MarkKeeps == ASSUME IInv, Mark PROVE IInv'
<1> USE DEF IInv, Mark, procVars
<1>1. CASE Cancelled
  <2>1. Finishing("cancelled", "none") /\ UNCHANGED <<state, page>> BY <1>1
  <2>2. /\ mem' \in Batches /\ BatchOK(mem') /\ step' = "finish" /\ ending' \in Results
    BY <2>1, Finishes DEF Results
  <2>3. TypeOK' BY <1>1, <2>1, <2>2, OcrAssumption DEF TypeOK
  <2>4. Walk' BY <1>1, <2>1, <2>2 DEF Walk, OnPage, Sealing, FinalIsSound
  <2> QED BY <1>1, <2>3, <2>4 DEF NoteLock
<1>2. CASE ~Cancelled
  <2>1. mem' \in Batches /\ BatchOK(mem') BY <1>2, Restatus DEF TypeOK, Walk
  <2>2. state' \in Batches /\ BatchOK(state') BY <1>2, <2>1, Persists
  <2>3. TypeOK' BY <1>2, <2>1, <2>2, OcrAssumption DEF TypeOK
  <2>4. Passed(mem', page') BY <1>2 DEF Passed, Pages
  <2>5. Walk' BY <1>2, <2>1, <2>2, <2>4 DEF Walk, OnPage, Sealing, FinalIsSound
  <2> QED BY <1>2, <2>3, <2>5 DEF NoteLock
<1> QED BY <1>1, <1>2

LEMMA TakePageKeeps == ASSUME IInv, TakePage PROVE IInv'
<1> DEFINE rec == mem.pages[page]
           reset == rec.status \in {"review_pending", "completed"}
           start == IF reset THEN NewPage ELSE rec
<1>1. /\ step = "pages" /\ page \in Pages /\ UNCHANGED <<diskVars, claim, baidu, reviewing>>
      /\ UNCHANGED <<procVars, pub, api, crashes>>
  BY DEF TakePage
<1>2. /\ mem \in Batches /\ BatchOK(mem) /\ Passed(mem, page) /\ BatchOK(state)
      /\ rec \in PageRecords /\ PageOK(rec, page, mem.of) /\ mem.of \in 0..MaxSource
  BY <1>1 DEF IInv, TypeOK, Walk, Batches, BatchOK
<1>3. FinalIsSound' /\ BatchOK(state') /\ final'.status \in {"none", "completed", "review_required"}
  BY <1>1 DEF IInv, Walk, FinalIsSound, diskVars
<1>4. CASE Finishing("cancelled", "cancelled") /\ UNCHANGED <<page, prior>>
  <2>1. /\ mem' \in Batches /\ BatchOK(mem') /\ step' = "finish" /\ ending' \in Results
    BY <1>1, <1>4, Finishes DEF Results
  <2>2. TypeOK' BY <1>1, <1>4, <2>1, OcrAssumption DEF IInv, TypeOK, diskVars, procVars
  <2>3. Walk' BY <1>3, <2>1 DEF Walk, OnPage, Sealing
  <2> QED BY <1>1, <2>2, <2>3 DEF IInv, NoteLock
<1>5. CASE Settled(mem, page) /\ page' = page + 1 /\ UNCHANGED <<step, mem, prior, ending>>
  <2>1. Passed(mem, page + 1)
    BY <1>1, <1>2, <1>5, Passes DEF Settled, ValidPage
  <2>2. page' \in 1..(LastPage + 1) BY <1>1, <1>5, OcrAssumption DEF Pages
  <2>3. TypeOK' BY <1>1, <1>5, <2>2 DEF IInv, TypeOK, diskVars, procVars
  <2>4. Walk' BY <1>1, <1>2, <1>3, <1>5, <2>1 DEF Walk, OnPage, Sealing
  <2> QED BY <1>1, <2>3, <2>4 DEF IInv, NoteLock
<1>6. CASE Finishing("failed", "none") /\ UNCHANGED <<page, prior>>
  <2>1. /\ mem' \in Batches /\ BatchOK(mem') /\ step' = "finish" /\ ending' \in Results
    BY <1>1, <1>6, Finishes DEF Results
  <2>2. TypeOK' BY <1>1, <1>6, <2>1, OcrAssumption DEF IInv, TypeOK, diskVars, procVars
  <2>3. Walk' BY <1>3, <2>1 DEF Walk, OnPage, Sealing
  <2> QED BY <1>1, <2>2, <2>3 DEF IInv, NoteLock
<1>7. CASE /\ ~(start.attempts >= MaxAttempts)
           /\ mem' = [mem EXCEPT !.pages[page] = Charged(start)]
           /\ prior' = (rec.status = "review_pending") /\ step' = "stage"
           /\ UNCHANGED <<page, ending>>
  <2>1. start \in PageRecords /\ PageOK(start, page, mem.of) /\ start.attempts < MaxAttempts
    BY <1>1, <1>2, <1>7, NewPageOK, OcrAssumption DEF PageRecords
  <2>2. Charged(start) \in PageRecords /\ PageOK(Charged(start), page, mem.of)
    BY <2>1, OcrAssumption DEF Charged, PageRecords, PageOK
  <2>3. mem' \in Batches /\ BatchOK(mem') /\ Passed(mem', page)
    BY <1>1, <1>2, <1>7, <2>2, Replace
  <2>4. prior' => page \in Escalated BY <1>2, <1>7 DEF PageOK
  <2>5. TypeOK' BY <1>1, <1>7, <2>3, OcrAssumption DEF IInv, TypeOK, diskVars, procVars
  <2>6. Walk' BY <1>1, <1>3, <1>7, <2>3, <2>4 DEF Walk, OnPage, Sealing
  <2> QED BY <1>1, <2>5, <2>6 DEF IInv, NoteLock
<1> QED BY <1>4, <1>5, <1>6, <1>7 DEF TakePage

\* A page is persisted in a new form, and the batch goes on.
LEMMA Persisting ==
    ASSUME IInv, NEW r \in PageRecords, page \in Pages, PageOK(r, page, mem.of),
           Passed(mem, page), SetPage(r), Persist(mem')
    PROVE  /\ mem' \in Batches /\ BatchOK(mem') /\ Passed(mem', page)
           /\ mem'.pages[page] = r /\ state' \in Batches /\ BatchOK(state')
<1>1. mem \in Batches /\ BatchOK(mem) BY DEF IInv, TypeOK, Walk
<1>2. /\ mem' \in Batches /\ BatchOK(mem') /\ Passed(mem', page) /\ mem'.pages[page] = r
  BY <1>1, Replace DEF SetPage
<1> QED BY <1>2, Persists

LEMMA StageKeeps == ASSUME IInv, Stage PROVE IInv'
<1> DEFINE rec == mem.pages[page]
<1>1. /\ step = "stage" /\ pub = None /\ UNCHANGED <<source, final, tree, confirmed, manifest>>
      /\ UNCHANGED <<claim, baidu, prior, reviewing, procVars, pub, api, crashes>>
  BY DEF Stage
<1>2. /\ mem \in Batches /\ Passed(mem, page) /\ page \in Pages /\ (prior => page \in Escalated)
      /\ rec \in PageRecords /\ PageOK(rec, page, mem.of)
  BY <1>1 DEF IInv, TypeOK, Walk, OnPage, Batches, BatchOK
<1>3. FinalIsSound' /\ final'.status \in {"none", "completed", "review_required"}
  BY <1>1 DEF IInv, Walk, FinalIsSound
<1>4. CASE Finishing("cancelled", "cancelled") /\ UNCHANGED <<state, page>>
  <2>1. /\ mem' \in Batches /\ BatchOK(mem') /\ step' = "finish" /\ ending' \in Results
    BY <1>2, <1>4, Finishes DEF Results
  <2>2. TypeOK' BY <1>1, <1>4, <2>1, OcrAssumption DEF IInv, TypeOK, procVars
  <2>3. BatchOK(state') BY <1>4 DEF IInv, Walk
  <2>4. Walk' BY <1>3, <2>1, <2>3 DEF Walk, OnPage, Sealing
  <2> QED BY <1>1, <2>2, <2>4 DEF IInv, NoteLock
<1>5. ASSUME NEW s \in {"completed", "review_pending"},
             s = "completed" => rec.evidence = Len(Evidence(page)),
             s = "review_pending" => page \in Escalated,
             SetPage([rec EXCEPT !.status = s]), Persist(mem'),
             page' = page + 1, step' = "pages", ending' = ending
      PROVE  IInv'
  <2> DEFINE r == [rec EXCEPT !.status = s]
  <2>1. r \in PageRecords /\ PageOK(r, page, mem.of) /\ r.status = s
    BY <1>2, <1>5 DEF PageRecords, PageOK
  <2>2. SetPage(r) BY <1>5
  <2> HIDE DEF r
  <2>3. /\ mem' \in Batches /\ BatchOK(mem') /\ Passed(mem', page) /\ mem'.pages[page] = r
        /\ state' \in Batches /\ BatchOK(state')
    BY <1>2, <1>5, <2>1, <2>2, Persisting
  <2>4. Passed(mem', page') BY <1>2, <1>5, <2>1, <2>3, Passes
  <2>5. page' \in 1..(LastPage + 1) BY <1>2, <1>5, OcrAssumption DEF Pages
  <2>6. TypeOK' BY <1>1, <1>5, <2>3, <2>5, OcrAssumption DEF IInv, TypeOK, procVars
  <2>7. Walk' BY <1>3, <1>5, <2>3, <2>4 DEF Walk, OnPage, Sealing
  <2> QED BY <1>1, <2>6, <2>7 DEF IInv, NoteLock
<1>6. CASE /\ SetPage([rec EXCEPT !.status = "working"]) /\ Persist(mem')
           /\ step' = "call" /\ UNCHANGED <<page, ending>>
           /\ rec.evidence # Len(Evidence(page))
  <2> DEFINE r == [rec EXCEPT !.status = "working"]
  <2>1. /\ r \in PageRecords /\ PageOK(r, page, mem.of)
        /\ r.evidence < Len(Evidence(page))
    BY <1>2, <1>6, EvidenceFacts DEF PageRecords, PageOK
  <2>2. SetPage(r) BY <1>6
  <2> HIDE DEF r
  <2>3. /\ mem' \in Batches /\ BatchOK(mem') /\ Passed(mem', page) /\ mem'.pages[page] = r
        /\ state' \in Batches /\ BatchOK(state')
    BY <1>2, <1>6, <2>1, <2>2, Persisting
  <2>4. TypeOK' BY <1>1, <1>6, <2>3, OcrAssumption DEF IInv, TypeOK, procVars
  <2>5. Walk' BY <1>1, <1>2, <1>3, <1>6, <2>1, <2>3 DEF Walk, OnPage, Sealing
  <2> QED BY <1>1, <2>4, <2>5 DEF IInv, NoteLock
<1>7. NextEvidence = "baidu" /\ rec.evidence # Len(Evidence(page)) => page \in Escalated
  BY <1>2, EvidenceFacts DEF NextEvidence, PageRecords, PageOK
<1> QED BY <1>4, <1>5, <1>6, <1>7 DEF Stage

LEMMA CallKeeps == ASSUME IInv, Call PROVE IInv'
<1> USE DEF IInv, Call, diskVars, procVars
<1>1. page \in Pages BY DEF Walk, OnPage
<1>2. CASE Cancelled
  <2>1. /\ mem' \in Batches /\ BatchOK(mem') /\ step' = "finish" /\ ending' \in Results
    BY <1>1, <1>2, Finishes DEF Results
  <2>2. TypeOK' BY <1>2, <2>1, OcrAssumption DEF TypeOK
  <2>3. Walk' BY <1>2, <2>1 DEF Walk, OnPage, Sealing, FinalIsSound
  <2> QED BY <2>2, <2>3 DEF NoteLock
<1>3. CASE ~Cancelled
  <2>1. TypeOK' BY <1>3, OcrAssumption DEF TypeOK
  <2>2. Walk' BY <1>3 DEF Walk, OnPage, Sealing, FinalIsSound
  <2> QED BY <2>1, <2>2 DEF NoteLock
<1> QED BY <1>2, <1>3

\* A page with one more piece of evidence, of the file that the batch is of.
LEMMA OneMore ==
    ASSUME NEW pg \in Pages, NEW s \in 0..MaxSource, NEW r \in PageRecords,
           PageOK(r, pg, s), r.evidence < Len(Evidence(pg)), NEW f \in 0..MaxSource,
           Evidence(pg)[r.evidence + 1] = "vision" => f = s
    PROVE  LET q == [r EXCEPT !.evidence = @ + 1,
                        !.of = IF Evidence(pg)[r.evidence + 1] = "vision" THEN f ELSE @]
           IN q \in PageRecords /\ PageOK(q, pg, s)
<1> DEFINE of == IF Evidence(pg)[r.evidence + 1] = "vision" THEN f ELSE r.of
           q == [r EXCEPT !.evidence = @ + 1, !.of = of]
<1>1. r.evidence \in 0..4 /\ r.of \in 0..MaxSource BY DEF PageRecords
<1>2. r.evidence + 1 \in 0..4 /\ r.evidence + 1 <= Len(Evidence(pg))
  BY <1>1, EvidenceFacts
<1>3. r.evidence = 0 => Evidence(pg)[r.evidence + 1] = "vision" BY EvidenceFacts
<1>4. of \in 0..MaxSource BY <1>1
<1>5. of = s BY <1>1, <1>3 DEF PageOK
<1> HIDE DEF of
<1>6. q \in PageRecords /\ q.evidence = r.evidence + 1 /\ q.of = of /\ q.status = r.status
  BY <1>2, <1>4 DEF PageRecords
<1>7. r.status # "completed"
  BY <1>1, EvidenceFacts DEF PageOK
<1>8. PageOK(q, pg, s) BY <1>2, <1>5, <1>6, <1>7 DEF PageOK
<1> QED BY <1>6, <1>8 DEF of

LEMMA EngineAnswersKeeps == ASSUME IInv, EngineAnswers PROVE IInv'
<1> DEFINE r == [mem.pages[page] EXCEPT !.evidence = @ + 1,
                            !.of = IF NextEvidence = "vision" THEN source ELSE @]
<1>1. step = "engine" /\ step' = "stage" /\ UNCHANGED <<diskVars, claim, page, baidu, prior>>
      /\ UNCHANGED <<reviewing, ending, procVars, pub, api, crashes>>
  BY DEF EngineAnswers
<1>2. /\ mem \in Batches /\ BatchOK(mem) /\ Passed(mem, page) /\ page \in Pages
      /\ (prior => page \in Escalated) /\ mem.pages[page].evidence < Len(Evidence(page))
      /\ source \in 0..MaxSource
  BY <1>1, OcrAssumption DEF IInv, TypeOK, Walk, OnPage, Sources
<1>3. /\ mem.pages[page] \in PageRecords /\ PageOK(mem.pages[page], page, mem.of)
      /\ mem.of \in 0..MaxSource
  BY <1>2 DEF Batches, BatchOK
<1>4. NextEvidence = "vision" => source = mem.of BY DEF EngineAnswers, SnapshotMatches
<1>5. r \in PageRecords /\ PageOK(r, page, mem.of)
  BY <1>2, <1>3, <1>4, OneMore DEF NextEvidence
<1>6. mem' = [mem EXCEPT !.pages[page] = r] BY <1>2, <1>3 DEF EngineAnswers, Batches, PageRecords
<1> HIDE DEF r
<1>7. mem' \in Batches /\ BatchOK(mem') /\ Passed(mem', page) BY <1>2, <1>5, <1>6, Replace
<1>8. TypeOK' BY <1>1, <1>7, OcrAssumption DEF IInv, TypeOK, diskVars, procVars
<1>9. Walk' BY <1>1, <1>2, <1>7 DEF IInv, Walk, OnPage, Sealing, FinalIsSound, diskVars
<1> QED BY <1>1, <1>8, <1>9 DEF IInv, NoteLock

LEMMA EngineFailsKeeps == ASSUME IInv, EngineFails PROVE IInv'
<1>1. /\ step = "engine" /\ pub = None /\ UNCHANGED <<source, final, tree, confirmed, manifest>>
      /\ UNCHANGED <<claim, baidu, prior, reviewing, procVars, pub, api, crashes>>
  BY DEF EngineFails
<1>2. /\ mem \in Batches /\ Passed(mem, page) /\ page \in Pages /\ (prior => page \in Escalated)
      /\ mem.pages[page] \in PageRecords /\ PageOK(mem.pages[page], page, mem.of)
      /\ mem.pages[page].evidence < Len(Evidence(page))
  BY <1>1 DEF IInv, TypeOK, Walk, OnPage, Batches, BatchOK
<1>3. FinalIsSound' /\ final'.status \in {"none", "completed", "review_required"}
  BY <1>1 DEF IInv, Walk, FinalIsSound
<1>4. ASSUME NEW r \in Results, NEW m \in {"cancelled", "failed"}, Finishing(r, m),
             UNCHANGED <<state, page>>
      PROVE  IInv'
  <2>1. /\ mem' \in Batches /\ BatchOK(mem') /\ step' = "finish" /\ ending' \in Results
    BY <1>2, <1>4, Finishes
  <2>2. TypeOK' BY <1>1, <1>4, <2>1, OcrAssumption DEF IInv, TypeOK, procVars
  <2>3. BatchOK(state') BY <1>4 DEF IInv, Walk
  <2>4. Walk' BY <1>3, <2>1, <2>3 DEF Walk, OnPage, Sealing
  <2> QED BY <1>1, <2>2, <2>4 DEF IInv, NoteLock
<1>5. CASE /\ mem' = [mem EXCEPT !.pages[page].status = "review_pending"] /\ prior
           /\ Persist(mem') /\ page' = page + 1 /\ step' = "pages" /\ ending' = ending
  <2> DEFINE r == [mem.pages[page] EXCEPT !.status = "review_pending"]
  <2>1. r \in PageRecords /\ PageOK(r, page, mem.of) /\ r.status = "review_pending"
    BY <1>2, <1>5 DEF PageRecords, PageOK
  <2>2. SetPage(r) BY <1>2, <1>5 DEF SetPage, Batches
  <2> HIDE DEF r
  <2>3. /\ mem' \in Batches /\ BatchOK(mem') /\ Passed(mem', page) /\ mem'.pages[page] = r
        /\ state' \in Batches /\ BatchOK(state')
    BY <1>2, <1>5, <2>1, <2>2, Persisting
  <2>4. Passed(mem', page') BY <1>2, <1>5, <2>1, <2>3, Passes
  <2>5. page' \in 1..(LastPage + 1) BY <1>2, <1>5, OcrAssumption DEF Pages
  <2>6. TypeOK' BY <1>1, <1>5, <2>3, <2>5, OcrAssumption DEF IInv, TypeOK, procVars
  <2>7. Walk' BY <1>3, <1>5, <2>3, <2>4 DEF Walk, OnPage, Sealing
  <2> QED BY <1>1, <2>6, <2>7 DEF IInv, NoteLock
<1> QED BY <1>4, <1>5 DEF EngineFails, PageAfterReview, Results

\* The last page is marked as cancelled before the batch is.
LEMMA LastMarked ==
    ASSUME IInv,
           mem' = IF mem.pages[LastPage].status = "completed" THEN mem
                  ELSE [mem EXCEPT !.pages[LastPage].status = "cancelled"]
    PROVE  mem' \in Batches /\ BatchOK(mem')
<1>1. LastPage \in Pages BY OcrAssumption DEF Pages
<1>2. mem \in Batches /\ BatchOK(mem) BY DEF IInv, TypeOK, Walk
<1>3. [mem EXCEPT !.pages[LastPage].status = "cancelled"] \in Batches
      /\ BatchOK([mem EXCEPT !.pages[LastPage].status = "cancelled"])
  BY <1>1, <1>2, Marks
<1> QED BY <1>2, <1>3

LEMMA PublishStateKeeps == ASSUME IInv, PublishState PROVE IInv'
<1>1. /\ step = "pages" /\ page > LastPage /\ pub = None
      /\ UNCHANGED <<source, final, tree, confirmed, manifest>>
      /\ UNCHANGED <<claim, page, baidu, prior, reviewing, procVars, api, crashes>>
  BY DEF PublishState
<1>2. mem \in Batches /\ BatchOK(mem) /\ Passed(mem, page) BY <1>1 DEF IInv, TypeOK, Walk
<1>3. FinalIsSound' /\ final'.status \in {"none", "completed", "review_required"}
  BY <1>1 DEF IInv, Walk, FinalIsSound
<1>4. CASE Cancelled
  <2>1. /\ step' = "finish" /\ ending' = "cancelled" /\ pub' = pub /\ state' = state
        /\ mem' \in Batches /\ BatchOK(mem')
    BY <1>4, LastMarked DEF PublishState
  <2>2. TypeOK' BY <1>1, <2>1, OcrAssumption DEF IInv, TypeOK, procVars, Results
  <2>3. BatchOK(state') BY <2>1 DEF IInv, Walk
  <2>4. Walk' BY <1>3, <2>1, <2>3 DEF Walk, OnPage, Sealing, Results
  <2> QED BY <1>1, <2>1, <2>2, <2>4 DEF IInv, NoteLock
<1>5. CASE ~Cancelled
  <2> DEFINE waiting == \E pg \in Pages : mem.pages[pg].status = "review_pending"
             s == IF waiting THEN "review_required" ELSE "completed"
  <2>1. /\ mem' = [mem EXCEPT !.status = s] /\ state' = mem' /\ pub' = "worker"
        /\ step' = "seal" /\ ending' = ending
    BY <1>5 DEF PublishState
  <2>2. s \in Results \cup {"running"} BY DEF Results
  <2>3. /\ mem' \in Batches /\ BatchOK(mem') /\ mem'.status = s /\ mem'.pages = mem.pages
        /\ \A pg \in Pages : ValidPage(mem', pg) = ValidPage(mem, pg)
    BY <1>2, <2>1, <2>2, Restatus
  <2>4. Passed(mem', page') BY <1>1, <1>2, <2>3 DEF Passed
  <2>5. \A pg \in Pages : pg < page BY <1>1, OcrAssumption DEF IInv, TypeOK, Pages
  <2>6. mem'.status = "completed" => \A pg \in Pages : ValidPage(mem', pg)
    BY <1>2, <2>3, <2>5 DEF Passed
  <2>7. mem'.status \in {"completed", "review_required"} BY <2>3
  <2> HIDE DEF s, waiting
  <2>8. TypeOK' BY <1>1, <2>1, <2>3, OcrAssumption DEF IInv, TypeOK, procVars
  <2>9. Walk' BY <1>1, <1>3, <2>1, <2>3, <2>4, <2>6, <2>7 DEF Walk, OnPage, Sealing
  <2> QED BY <1>1, <2>1, <2>8, <2>9, OcrAssumption DEF IInv, NoteLock
<1> QED BY <1>4, <1>5

\* The batch that is being published makes a sound final.
LEMMA SealedIsSound ==
    ASSUME IInv, step = "seal", final' \in {final, mem}
    PROVE  /\ final' \in Batches /\ FinalIsSound'
           /\ final'.status \in {"none", "completed", "review_required"}
<1>1. \A pg \in Pages : pg < page BY OcrAssumption DEF IInv, TypeOK, Walk, Sealing, Pages
<1>2. CASE final' = final BY <1>2 DEF IInv, TypeOK, Walk, FinalIsSound
<1>3. CASE final' = mem
  BY <1>1, <1>3 DEF IInv, TypeOK, Walk, Sealing, Passed, FinalIsSound
<1> QED BY <1>2, <1>3

LEMMA PublishFinalKeeps == ASSUME IInv, PublishFinal PROVE IInv'
<1>1. /\ step = "seal" /\ pub' = None /\ pub = "worker" /\ final' \in {final, mem}
      /\ UNCHANGED <<source, state, tree, confirmed, manifest, claim, page, baidu, prior>>
      /\ UNCHANGED <<reviewing, procVars, api, crashes>>
  BY DEF PublishFinal, Unlocked, IInv, TypeOK
<1>2. /\ final' \in Batches /\ FinalIsSound' /\ BatchOK(state')
      /\ final'.status \in {"none", "completed", "review_required"}
  BY <1>1, SealedIsSound DEF IInv, Walk
<1>3. /\ step' \in {"finish", "ending"} /\ ending' \in Results
      /\ mem' \in Batches /\ BatchOK(mem')
  <2>1. CASE Cancelled
    <3>1. mem' \in Batches /\ BatchOK(mem') BY <2>1, LastMarked DEF PublishFinal
    <3> QED BY <2>1, <3>1 DEF PublishFinal, Results
  <2>2. CASE ~Cancelled
    BY <1>1, <2>2 DEF PublishFinal, Return, IInv, TypeOK, Walk, Sealing, Results
  <2> QED BY <2>1, <2>2
<1>4. TypeOK' BY <1>1, <1>2, <1>3, OcrAssumption DEF IInv, TypeOK, procVars
<1>5. Walk' BY <1>2, <1>3 DEF Walk, OnPage, Sealing
<1> QED BY <1>1, <1>4, <1>5, OcrAssumption DEF IInv, NoteLock

LEMMA PublishUncertainKeeps == ASSUME IInv, PublishUncertain PROVE IInv'
<1>1. /\ step = "seal" /\ pub' = None /\ pub = "worker" /\ final' \in {final, mem}
      /\ UNCHANGED <<source, state, tree, confirmed, manifest, claim, mem, page, baidu, prior>>
      /\ UNCHANGED <<reviewing, procVars, api, crashes>>
      /\ step' = "ending" /\ ending' \in Results
  BY DEF PublishUncertain, Return, IInv, TypeOK, Results
<1>2. /\ final' \in Batches /\ FinalIsSound' /\ BatchOK(state') /\ BatchOK(mem')
      /\ final'.status \in {"none", "completed", "review_required"}
  BY <1>1, SealedIsSound DEF IInv, Walk
<1>3. TypeOK' BY <1>1, <1>2, OcrAssumption DEF IInv, TypeOK, procVars
<1>4. Walk' BY <1>1, <1>2 DEF Walk, OnPage, Sealing
<1> QED BY <1>1, <1>3, <1>4, OcrAssumption DEF IInv, NoteLock

LEMMA FinishKeeps == ASSUME IInv, Finish PROVE IInv'
<1>1. /\ step = "finish" /\ step' = "ending" /\ ending' = ending
      /\ UNCHANGED <<source, tree, confirmed, manifest, claim, page, baidu, prior>>
      /\ UNCHANGED <<reviewing, procVars, pub, api, crashes>>
  BY DEF Finish, Return
<1>2. ending \in Results /\ mem \in Batches /\ BatchOK(mem)
  BY <1>1 DEF IInv, TypeOK, Walk
<1>3. /\ mem' \in Batches /\ BatchOK(mem') /\ state' \in Batches /\ BatchOK(state')
      /\ final' \in {final, NoBatch}
  <2>1. CASE CompletedTransaction BY <1>2, <2>1 DEF Finish, IInv, TypeOK, Walk
  <2>2. CASE ~CompletedTransaction
    <3>1. mem' = [mem EXCEPT !.status = ending] /\ state' = mem' /\ final' = NoBatch
      BY <2>2 DEF Finish
    <3> QED BY <1>2, <3>1, Restatus
  <2> QED BY <2>1, <2>2
<1>4. TypeOK' BY <1>1, <1>2, <1>3, NoBatchOK, OcrAssumption DEF IInv, TypeOK, procVars
<1>5. Walk' BY <1>1, <1>2, <1>3, NoBatchOK DEF IInv, Walk, OnPage, Sealing, FinalIsSound
<1> QED BY <1>1, <1>4, <1>5 DEF IInv, NoteLock

-----------------------------------------------------------------------------
(* The theorems *)

LEMMA Starts == ASSUME Init PROVE IInv
<1> USE DEF Init
<1>1. source \in Sources /\ page \in 1..(LastPage + 1) /\ crashes \in 0..MaxCrashes
  BY OcrAssumption DEF Sources
<1>2. tree \in Prints /\ confirmed \in Prints /\ manifest \in Prints BY NoCallOK
<1>3. None # "worker" /\ up \in [Procs -> BOOLEAN] /\ cancel \in [Procs -> BOOLEAN]
      /\ status \in [Procs -> Results \cup {"idle", "running"}]
  BY OcrAssumption
<1>4. TypeOK BY <1>1, <1>2, <1>3, NoBatchOK, NoCallOK DEF TypeOK
<1>5. Walk BY NoBatchOK DEF Walk, OnPage, Sealing, FinalIsSound
<1>6. NoteLock BY NoCallOK, OcrAssumption DEF NoteLock
<1> QED BY <1>4, <1>5, <1>6 DEF IInv

LEMMA Steps == ASSUME IInv, [Next]_vars PROVE IInv'
<1>1. CASE Worker
  BY <1>1, BeginKeeps, BeginFailsKeeps, MarkKeeps, TakePageKeeps, StageKeeps, CallKeeps,
     EngineAnswersKeeps, EngineFailsKeeps, PublishStateKeeps, PublishFinalKeeps,
     PublishUncertainKeeps, FinishKeeps, EndRunKeeps
  DEF Worker
<1>2. CASE Requester
  BY <1>2, LockForNoteKeeps, BindNoteKeeps, CheckNoteKeeps DEF Requester
<1>3. CASE \E p \in Procs :
              \/ Start(p) \/ StartReview(p) \/ Cancel(p) \/ Crash(p) \/ Restart(p)
              \/ DetectChapters(p) \/ ConfirmChapter(p) \/ PrepareNote(p)
  BY <1>3, StartKeeps, StartReviewKeeps, CancelKeeps, CrashKeeps, RestartKeeps,
     DetectChaptersKeeps, ConfirmChapterKeeps, PrepareNoteKeeps
<1>4. CASE UNCHANGED vars
  <2> USE <1>4 DEF vars, diskVars, workerVars, procVars
  <2>1. TypeOK' BY DEF IInv, TypeOK
  <2>2. Walk' BY Frame DEF IInv, batchVars
  <2> QED BY <2>1, <2>2 DEF IInv, NoteLock
<1> QED BY <1>1, <1>2, <1>3, <1>4, ReplaceSourceKeeps DEF Next

LEMMA Inductive == Spec => []IInv
<1> QED BY Starts, Steps, PTL DEF Spec

\* The state of the workflow has the types that TypeOK gives it; among them, that
\* the worker lives while its process holds the claim, and seals under the
\* publication lock (OcrWorkflow._start, _run).
THEOREM TypeCorrect == Spec => []TypeOK
<1>1. IInv => TypeOK BY DEF IInv
<1> QED BY <1>1, Inductive, PTL

\* A final says what its pages hold, after any engines, cancellations, reviews,
\* crashes and changes of the file (run_batch).
THEOREM SoundFinal == Spec => []FinalIsSound
<1>1. IInv => FinalIsSound BY DEF IInv, Walk
<1> QED BY <1>1, Inductive, PTL

\* The completed publication of a file is given up only for another file
\* (_completed_final_for_request, _persist, _finish).
THEOREM CompletedKept == Spec => CompletedIsKept
<1>1. ASSUME IInv, [Next]_vars, CompletedTransaction, ~CompletedTransaction'
      PROVE  final.of # source
  <2>1. CASE UNCHANGED <<state, final>> BY <1>1, <2>1 DEF CompletedTransaction
  <2>2. CASE Begin
    <3>1. CompletedTransaction /\ final.of = source => CompletedFor(source)
      BY DEF CompletedTransaction, CompletedFor
    <3>2. CompletedFor(source) => UNCHANGED <<state, final>> BY <2>2 DEF Begin
    <3> QED BY <1>1, <2>1, <3>1, <3>2
  <2>3. CASE PublishFinal \/ PublishUncertain
    <3>1. state = mem BY <1>1, <2>3 DEF PublishFinal, PublishUncertain, IInv, Walk, Sealing
    <3>2. final' \in {final, mem} /\ state' = state BY <2>3 DEF PublishFinal, PublishUncertain
    <3>3. final = mem BY <1>1, <3>1 DEF CompletedTransaction
    <3> QED BY <1>1, <2>1, <3>2, <3>3
  <2>4. CASE Mark \/ Stage \/ EngineFails
    BY <1>1, <2>1, <2>4 DEF Mark, Stage, EngineFails, Persist
  <2>5. CASE PublishState BY <1>1, <2>1, <2>5 DEF PublishState
  <2>6. CASE Finish BY <1>1, <2>1, <2>6 DEF Finish
  <2>7. CASE BeginFails \/ TakePage \/ Call \/ EngineAnswers \/ EndRun
    BY <2>1, <2>7 DEF BeginFails, TakePage, Call, EngineAnswers, EndRun, diskVars
  <2>8. CASE Requester \/ ReplaceSource
    BY <2>1, <2>8 DEF Requester, LockForNote, BindNote, CheckNote, ReplaceSource, diskVars
  <2>9. CASE \E p \in Procs :
                \/ Start(p) \/ StartReview(p) \/ Cancel(p) \/ Crash(p) \/ Restart(p)
                \/ DetectChapters(p) \/ ConfirmChapter(p) \/ PrepareNote(p)
    BY <2>1, <2>9 DEF Start, StartReview, Cancel, Crash, Restart, DetectChapters,
                      ConfirmChapter, PrepareNote, diskVars
  <2>10. CASE UNCHANGED vars BY <2>1, <2>10 DEF vars, diskVars
  <2> QED BY <1>1, <2>2, <2>3, <2>4, <2>5, <2>6, <2>7, <2>8, <2>9, <2>10 DEF Next, Worker
<1>2. IInv /\ [Next]_vars => [CompletedTransaction /\ ~CompletedTransaction' => final.of # source]_vars
  BY <1>1
<1> QED BY <1>2, Inductive, PTL DEF Spec, CompletedIsKept

\* A note is bound to the final, the tree and the confirmation it was generated
\* from, and these are the current ones (bind_published_note).
THEOREM NoteBound == Spec => NoteIsOfCurrentFinal
<1>1. ASSUME [Next]_vars, manifest' # manifest, api.op = "generating"
      PROVE  /\ manifest' = api.final
             /\ Fingerprint(final') = api.final /\ tree' = api.final /\ confirmed' = api.final
  <2>1. BindNote
    <3>1. ~Worker
      BY <1>1 DEF Worker, Begin, BeginFails, Mark, TakePage, Stage, Call, EngineAnswers,
         EngineFails, PublishState, PublishFinal, PublishUncertain, Finish, EndRun, diskVars
    <3>2. ~(LockForNote \/ CheckNote \/ ReplaceSource \/ UNCHANGED vars)
      BY <1>1 DEF LockForNote, CheckNote, ReplaceSource, vars, diskVars
    <3>3. ~\E p \in Procs :
              \/ Start(p) \/ StartReview(p) \/ Cancel(p) \/ Crash(p) \/ Restart(p)
              \/ DetectChapters(p) \/ ConfirmChapter(p) \/ PrepareNote(p)
      BY <1>1 DEF Start, StartReview, Cancel, Crash, Restart, DetectChapters,
                  ConfirmChapter, PrepareNote, diskVars
    <3> QED BY <1>1, <3>1, <3>2, <3>3 DEF Next, Requester
  <2> QED BY <1>1, <2>1 DEF BindNote, NoteRefused, ContextUnchanged, Fingerprint
<1>2. [Next]_vars => [manifest' # manifest /\ api.op = "generating" =>
        /\ manifest' = api.final
        /\ Fingerprint(final') = api.final /\ tree' = api.final /\ confirmed' = api.final]_vars
  BY <1>1
<1> QED BY <1>2, PTL DEF Spec, NoteIsOfCurrentFinal
=============================================================================
