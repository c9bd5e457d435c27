---------------------------- MODULE StoresProofs ----------------------------
(***************************************************************************)
(* What TLAPS proves of the two stores, for any numbers of threads,        *)
(* inodes, topics, tasks, processes, resumes and faults.                   *)
(*                                                                         *)
(* Of TopicDirectories: the types of its state, that no synchronisation,   *)
(* merge, deletion, clean-up or crash takes a file of the user away, and   *)
(* that none takes the published map of a topic.                           *)
(*                                                                         *)
(* Of TaskStore: the types of its state, and the promises of               *)
(* StorePromises.  The argument is the lock file of a task.  Whoever       *)
(* changes the row or the directory of a task holds its lock, so that what *)
(* a process knows of the task it is about (SoundProc) stands while others *)
(* step (OthersStand) and only its own steps have to be looked at.  One    *)
(* thing is read without a lock: the pictures of a task that is copied     *)
(* while it is purged; for them (CutIsGone) the purge takes the directory  *)
(* away before it erases what is in it, and the row of a purged task never *)
(* comes back.                                                             *)
(***************************************************************************)
EXTENDS Stores, FiniteSetTheorems, TLAPS

\* A request is about some topic until it ends.
Busy == \A p \in Threads : pc[p] # "idle" => topics[p] # {}

\* A file of the user is in a directory that has a name.
InPlace == \A d \in Dirs : "user" \in files[d] => place[d] # None

IInv == TypeOK /\ Busy /\ InPlace

\* What every step of the program does to the files of the user: it leaves
\* those there are, and makes none.
Keeps ==
    \A d \in Dirs :
        /\ "user" \in files[d] => "user" \in files'[d] /\ place'[d] # None
        /\ "user" \in files'[d] => "user" \in files[d]

-----------------------------------------------------------------------------
\* A topic has names, and the topic of a synchronisation or a deletion is one.
LEMMA Names ==
    \A t \in Topics : \A kind \in {"visible", "hidden"} :
        <<kind, t>> # None /\ <<kind, t>> \in {"visible", "hidden"} \X Topics
BY DirectoriesAssumption DEF Topics

LEMMA TheTopic ==
    ASSUME TypeOK, NEW p \in Threads, topics[p] # {}
    PROVE  The(p) \in topics[p] /\ The(p) \in Topics
<1>1. topics[p] \subseteq Topics BY DEF TypeOK
<1> QED BY <1>1 DEF The

Places == [Dirs -> ({"visible", "hidden"} \X Topics) \cup {None}]
Contents == [Dirs -> SUBSET (Whole \cup {"user"})]

\* A new directory takes an inode that had no name, and so no file of the user.
LEMMA Makes ==
    ASSUME IInv, NEW t \in Topics, NEW d \in Free, Make(d, t)
    PROVE  place' \in Places /\ files' \in Contents /\ Keeps
<1>1. d \in Dirs /\ place[d] = None BY DEF Free
<1>2. place' = [place EXCEPT ![d] = <<"visible", t>>] /\ files' = [files EXCEPT ![d] = {}]
  BY DEF Make
<1>3. place \in Places /\ files \in Contents BY DEF IInv, TypeOK, Places, Contents
<1>4. place' \in Places BY <1>1, <1>2, <1>3, Names DEF Places
<1>5. files' \in Contents BY <1>1, <1>2, <1>3 DEF Contents
<1>6. "user" \notin files[d] BY <1>1 DEF IInv, InPlace
<1>7. Keeps BY <1>1, <1>2, <1>3, <1>6 DEF Keeps, IInv, InPlace, Places, Contents
<1> QED BY <1>4, <1>5, <1>7

\* Directories are removed only when no file of the user is in them.
LEMMA Removes ==
    ASSUME IInv, NEW D, \A d \in D \cap Dirs : "user" \notin files[d], Gone(D)
    PROVE  place' \in Places /\ files' \in Contents /\ Keeps
<1>1. place \in Places /\ files \in Contents BY DEF IInv, TypeOK, Places, Contents
<1>2. place' \in Places /\ files' \in Contents BY <1>1 DEF Gone, Places, Contents
<1>3. Keeps BY <1>1 DEF Gone, Keeps, IInv, InPlace
<1> QED BY <1>2, <1>3

LEMMA Opens ==
    ASSUME IInv, NEW p \in Threads, NEW t \in Topics, OpenTarget(p, t)
    PROVE  /\ place' \in Places /\ files' \in Contents /\ Keeps
           /\ hold' \in [Threads -> [Topics -> Dirs \cup {None}]]
           /\ made' \in [Threads -> SUBSET Topics]
<1>1. place \in Places /\ files \in Contents BY DEF IInv, TypeOK, Places, Contents
<1>2. CASE \E d \in Here(t) : hold' = [hold EXCEPT ![p][t] = d] /\ UNCHANGED <<place, files, made>>
  <2>1. Here(t) \subseteq Dirs BY DEF Here
  <2>2. Keeps BY <1>2 DEF Keeps, IInv, InPlace
  <2> QED BY <1>1, <1>2, <2>1, <2>2 DEF IInv, TypeOK
<1>3. CASE /\ made' = [made EXCEPT ![p] = @ \cup {t}]
           /\ \E d \in Free : hold' = [hold EXCEPT ![p][t] = d] /\ Make(d, t)
  <2>1. PICK d \in Free : hold' = [hold EXCEPT ![p][t] = d] /\ Make(d, t) BY <1>3
  <2>2. d \in Dirs BY DEF Free
  <2> QED BY <1>3, <2>1, <2>2, Makes DEF IInv, TypeOK
<1> QED BY <1>2, <1>3 DEF OpenTarget

-----------------------------------------------------------------------------
LEMMA BeginSyncKeeps ==
    ASSUME IInv, NEW p \in Threads, NEW t \in Topics, BeginSync(p, t) PROVE IInv' /\ Keeps
<1> USE DEF IInv, BeginSync, rowVars, fileVars
<1>1. hold' \in [Threads -> [Topics -> Dirs \cup {None}]]
  <2>1. CASE UNCHANGED hold BY <2>1 DEF TypeOK
  <2>2. CASE /\ Cardinality(MapsOf(t)) = 1
             /\ hold' = [hold EXCEPT ![p][t] = CHOOSE d \in MapsOf(t) : TRUE]
    <3>1. MapsOf(t) # {}
      <4>1. Cardinality({}) = 0 BY FS_EmptySet
      <4> QED BY <2>2, <4>1
    <3>2. (CHOOSE d \in MapsOf(t) : TRUE) \in Dirs BY <3>1 DEF MapsOf
    <3> QED BY <2>2, <3>2 DEF TypeOK
  <2> QED BY <2>1, <2>2
<1>2. claim' \in [Topics -> Threads \cup {None}] BY DEF TypeOK
<1>3. topics' \in [Threads -> SUBSET Topics] BY DEF TypeOK
<1>4. existed' \in [Threads -> BOOLEAN] BY DEF TypeOK
<1>5. pc' \in [Threads -> {"idle"} \cup Syncing \cup Merging \cup Deleting]
  BY DEF TypeOK, Goto, Syncing
<1>6. TypeOK' BY <1>1, <1>2, <1>3, <1>4, <1>5 DEF TypeOK
<1>7. Busy' BY DEF TypeOK, Busy, Goto
<1>8. Keeps BY DEF InPlace, Keeps
<1>9. InPlace' BY <1>8 DEF InPlace, Keeps
<1> QED BY <1>6, <1>7, <1>8, <1>9

LEMMA RenameKeeps == ASSUME IInv, NEW p \in Threads, Rename(p) PROVE IInv' /\ Keeps
<1> USE DEF IInv, Rename, rowVars
<1>1. The(p) \in Topics BY TheTopic DEF Busy
<1>2. place' \in Places
  BY <1>1, Names DEF TypeOK, Places
<1>3. TypeOK' BY <1>2 DEF TypeOK, Places, Goto, Syncing, NoDirs
<1>4. Busy' BY DEF TypeOK, Busy, Goto
<1>5. Keeps
  <2> SUFFICES ASSUME NEW d \in Dirs, "user" \in files[d] PROVE place'[d] # None
    BY DEF Keeps
  <2>1. d \notin Here(The(p))
    <3>1. files[d] # {} OBVIOUS
    <3> QED BY <3>1
  <2>2. place[d] # None BY DEF InPlace
  <2> QED BY <1>1, <2>1, <2>2, Names DEF TypeOK
<1>6. InPlace' BY <1>5 DEF InPlace, Keeps
<1> QED BY <1>3, <1>4, <1>5, <1>6

LEMMA RenameFailsKeeps ==
    ASSUME IInv, NEW p \in Threads, RenameFails(p) PROVE IInv' /\ Keeps
<1> USE DirectoriesAssumption
      DEF IInv, RenameFails, SyncFails, Ends, NoDirs, Goto, rowVars, fileVars, jobVars
<1>1. TypeOK' BY DEF TypeOK, Topics, Whole, Syncing, Merging, Deleting
<1>2. Busy' BY DEF TypeOK, Busy
<1>3. Keeps BY DEF TypeOK, InPlace, Keeps, Whole
<1>4. InPlace' BY <1>3 DEF InPlace, Keeps
<1> QED BY <1>1, <1>2, <1>3, <1>4

LEMMA OpenDirKeeps == ASSUME IInv, NEW p \in Threads, OpenDir(p) PROVE IInv' /\ Keeps
<1> USE DEF IInv, OpenDir, rowVars
<1>1. The(p) \in Topics BY TheTopic DEF Busy
<1>2. /\ place' \in Places /\ files' \in Contents /\ Keeps
      /\ hold' \in [Threads -> [Topics -> Dirs \cup {None}]]
  <2>1. CASE \E d \in Here(The(p)) :
                hold' = [hold EXCEPT ![p][The(p)] = d] /\ UNCHANGED <<place, files>>
    <3>1. Here(The(p)) \subseteq Dirs BY DEF Here
    <3>2. Keeps BY <2>1 DEF Keeps, InPlace
    <3> QED BY <1>1, <2>1, <3>1, <3>2 DEF TypeOK, Places, Contents
  <2>2. CASE \E d \in Free : hold' = [hold EXCEPT ![p][The(p)] = d] /\ Make(d, The(p))
    <3>1. Free \subseteq Dirs BY DEF Free
    <3> QED BY <1>1, <2>2, <3>1, Makes DEF TypeOK
  <2> QED BY <2>1, <2>2
<1>3. TypeOK' BY <1>2 DEF TypeOK, Places, Contents, Goto, Syncing
<1>4. Busy' BY DEF TypeOK, Busy, Goto
<1>5. InPlace' BY <1>2 DEF InPlace, Keeps
<1> QED BY <1>2, <1>3, <1>4, <1>5

LEMMA OwnKeeps == ASSUME IInv, NEW p \in Threads, Own(p) PROVE IInv' /\ Keeps
<1> USE DirectoriesAssumption DEF IInv, Own, Add, Goto, rowVars, fileVars, jobVars
<1>1. TypeOK' BY DEF TypeOK, Topics, Whole, Syncing, Merging, Deleting
<1>2. Busy' BY DEF TypeOK, Busy
<1>3. Keeps BY DEF TypeOK, InPlace, Keeps, Whole
<1>4. InPlace' BY <1>3 DEF InPlace, Keeps
<1> QED BY <1>1, <1>2, <1>3, <1>4

LEMMA NotOwnedKeeps == ASSUME IInv, NEW p \in Threads, NotOwned(p) PROVE IInv' /\ Keeps
<1> USE DirectoriesAssumption
      DEF IInv, NotOwned, SyncFails, Ends, NoDirs, Goto, rowVars, fileVars, jobVars
<1>1. TypeOK' BY DEF TypeOK, Topics, Whole, Syncing, Merging, Deleting
<1>2. Busy' BY DEF TypeOK, Busy
<1>3. Keeps BY DEF TypeOK, InPlace, Keeps, Whole
<1>4. InPlace' BY <1>3 DEF InPlace, Keeps
<1> QED BY <1>1, <1>2, <1>3, <1>4

LEMMA CommitKeeps == ASSUME IInv, NEW p \in Threads, Commit(p) PROVE IInv' /\ Keeps
<1> USE DirectoriesAssumption DEF IInv, Commit, Ends, NoDirs, Goto, rowVars, fileVars, jobVars
<1>1. TypeOK' BY DEF TypeOK, Topics, Whole, Syncing, Merging, Deleting
<1>2. Busy' BY DEF TypeOK, Busy
<1>3. Keeps BY DEF TypeOK, InPlace, Keeps, Whole
<1>4. InPlace' BY <1>3 DEF InPlace, Keeps
<1> QED BY <1>1, <1>2, <1>3, <1>4

LEMMA CommitFailsKeeps ==
    ASSUME IInv, NEW p \in Threads, CommitFails(p) PROVE IInv' /\ Keeps
<1> USE DirectoriesAssumption
      DEF IInv, CommitFails, Ends, NoDirs, Goto, rowVars, fileVars, jobVars
<1>1. TypeOK' BY DEF TypeOK, Topics, Whole, Syncing, Merging, Deleting
<1>2. Busy' BY DEF TypeOK, Busy
<1>3. Keeps BY DEF TypeOK, InPlace, Keeps, Whole
<1>4. InPlace' BY <1>3 DEF InPlace, Keeps
<1> QED BY <1>1, <1>2, <1>3, <1>4

LEMMA TidyKeeps ==
    ASSUME IInv, Tidy PROVE place' \in Places /\ files' \in Contents /\ Keeps
<1> DEFINE D == {d \in Journals : files[d] \in {{"lock"}, Whole}}
<1>1. Gone(D) BY DEF Tidy
<1>2. \A d \in D \cap Dirs : "user" \notin files[d] BY DEF Whole
<1> HIDE DEF D
<1> QED BY <1>1, <1>2, Removes

LEMMA BeginMergeKeeps ==
    ASSUME IInv, NEW p \in Threads, NEW S \in SUBSET Topics, BeginMerge(p, S) PROVE IInv' /\ Keeps
<1> USE DEF IInv, BeginMerge, rowVars
<1>1. place' \in Places /\ files' \in Contents /\ Keeps BY TidyKeeps
<1>2. TypeOK' BY <1>1 DEF TypeOK, Places, Contents, Goto, Merging
<1>3. S # {} BY FS_EmptySet
<1>4. Busy' BY <1>3 DEF TypeOK, Busy, Goto
<1>5. InPlace' BY <1>1 DEF InPlace, Keeps
<1> QED BY <1>1, <1>2, <1>4, <1>5

LEMMA TakeKeeps == ASSUME IInv, NEW p \in Threads, Take(p) PROVE IInv' /\ Keeps
<1> USE DEF IInv, Take, rowVars
<1>1. PICK t \in Topics : OpenTarget(p, t) BY DEF TypeOK
<1>2. place' \in Places /\ files' \in Contents /\ Keeps
      /\ hold' \in [Threads -> [Topics -> Dirs \cup {None}]]
      /\ made' \in [Threads -> SUBSET Topics]
  BY <1>1, Opens
<1>3. TypeOK' BY <1>2 DEF TypeOK, Places, Contents, Goto, Syncing, Merging, Deleting
<1>4. Busy' BY <1>1 DEF TypeOK, Busy, Goto
<1>5. InPlace' BY <1>2 DEF InPlace, Keeps
<1> QED BY <1>2, <1>3, <1>4, <1>5

LEMMA TakeLockFileKeeps ==
    ASSUME IInv, NEW p \in Threads, TakeLockFile(p) PROVE IInv' /\ Keeps
<1> USE DirectoriesAssumption DEF IInv, TakeLockFile, Add, Goto, rowVars, fileVars, jobVars
<1>1. TypeOK' BY DEF TypeOK, Topics, Whole, Syncing, Merging, Deleting
<1>2. Busy' BY DEF TypeOK, Busy
<1>3. Keeps BY DEF TypeOK, InPlace, Keeps, Whole
<1>4. InPlace' BY <1>3 DEF InPlace, Keeps
<1> QED BY <1>1, <1>2, <1>3, <1>4

LEMMA NoLockFileKeeps == ASSUME IInv, NEW p \in Threads, NoLockFile(p) PROVE IInv' /\ Keeps
<1> USE DirectoriesAssumption DEF IInv, NoLockFile, Goto, rowVars, fileVars, jobVars
<1>1. TypeOK' BY DEF TypeOK, Topics, Whole, Syncing, Merging, Deleting
<1>2. Busy' BY DEF TypeOK, Busy
<1>3. Keeps BY DEF TypeOK, InPlace, Keeps, Whole
<1>4. InPlace' BY <1>3 DEF InPlace, Keeps
<1> QED BY <1>1, <1>2, <1>3, <1>4

LEMMA FlockKeeps == ASSUME IInv, NEW p \in Threads, Flock(p) PROVE IInv' /\ Keeps
<1> USE DirectoriesAssumption DEF IInv, Flock, Goto, rowVars, fileVars, jobVars
<1>1. TypeOK' BY DEF TypeOK, Topics, Whole, Syncing, Merging, Deleting
<1>2. Busy' BY DEF TypeOK, Busy
<1>3. Keeps BY DEF TypeOK, InPlace, Keeps, Whole
<1>4. InPlace' BY <1>3 DEF InPlace, Keeps
<1> QED BY <1>1, <1>2, <1>3, <1>4

LEMMA CheckKeeps == ASSUME IInv, NEW p \in Threads, Check(p) PROVE IInv' /\ Keeps
<1> USE DirectoriesAssumption DEF IInv, Check, Goto, rowVars, fileVars, jobVars
<1>1. TypeOK' BY DEF TypeOK, Topics, Whole, Syncing, Merging, Deleting
<1>2. Busy' BY DEF TypeOK, Busy
<1>3. Keeps BY DEF TypeOK, InPlace, Keeps, Whole
<1>4. InPlace' BY <1>3 DEF InPlace, Keeps
<1> QED BY <1>1, <1>2, <1>3, <1>4

LEMMA ProtectedKeeps == ASSUME IInv, NEW p \in Threads, Protected(p) PROVE IInv' /\ Keeps
<1> USE DirectoriesAssumption DEF IInv, Protected, Goto, rowVars, fileVars, jobVars
<1>1. TypeOK' BY DEF TypeOK, Topics, Whole, Syncing, Merging, Deleting
<1>2. Busy' BY DEF TypeOK, Busy
<1>3. Keeps BY DEF TypeOK, InPlace, Keeps, Whole
<1>4. InPlace' BY <1>3 DEF InPlace, Keeps
<1> QED BY <1>1, <1>2, <1>3, <1>4

LEMMA DetachKeeps == ASSUME IInv, NEW p \in Threads, Detach(p) PROVE IInv' /\ Keeps
<1> USE DEF IInv, Detach, rowVars
<1>1. PICK t \in topics[p] \ away[p] :
        /\ place' = [d \in Dirs |-> IF d \in Here(t) THEN <<"hidden", t>> ELSE place[d]]
        /\ away' = [away EXCEPT ![p] = @ \cup {t}]
  OBVIOUS
<1>2. t \in Topics BY <1>1 DEF TypeOK
<1>3. place' \in Places BY <1>1, <1>2, Names DEF TypeOK, Places
<1>4. away' \in [Threads -> SUBSET Topics] BY <1>1, <1>2 DEF TypeOK
<1>5. TypeOK' BY <1>3, <1>4 DEF TypeOK, Places, Goto, Merging
<1>6. Busy' BY DEF TypeOK, Busy, Goto
<1>7. Keeps BY <1>1, <1>2, Names DEF Keeps, InPlace
<1>8. InPlace' BY <1>7 DEF InPlace, Keeps
<1> QED BY <1>5, <1>6, <1>7, <1>8

LEMMA MergeKeeps == ASSUME IInv, NEW p \in Threads, Merge(p) PROVE IInv' /\ Keeps
<1> USE DirectoriesAssumption DEF IInv, Merge, Goto, rowVars, fileVars, jobVars
<1>1. TypeOK' BY DEF TypeOK, Topics, Whole, Syncing, Merging, Deleting
<1>2. Busy' BY DEF TypeOK, Busy
<1>3. Keeps BY DEF TypeOK, InPlace, Keeps, Whole
<1>4. InPlace' BY <1>3 DEF InPlace, Keeps
<1> QED BY <1>1, <1>2, <1>3, <1>4

LEMMA MergeFailsKeeps == ASSUME IInv, NEW p \in Threads, MergeFails(p) PROVE IInv' /\ Keeps
<1> USE DEF IInv, MergeFails, rowVars
<1> DEFINE gone == {hold[p][t] : t \in PutBack(p) \cap made[p]}
                   \cup UNION {Here(t) : t \in PutBack(p) \ made[p]}
           back(d) == \E t \in Topics : Returned(p, t, d)
<1>1. /\ place' = [d \in Dirs |-> IF back(d)
                       THEN <<"visible", CHOOSE t \in Topics : Returned(p, t, d)>>
                       ELSE IF d \in gone THEN None ELSE place[d]]
      /\ files' = [d \in Dirs |-> IF d \in gone THEN {} ELSE files[d]]
  OBVIOUS
<1>2. ASSUME NEW d \in Dirs, back(d)
      PROVE  (CHOOSE t \in Topics : Returned(p, t, d)) \in Topics
  BY <1>2
<1>3. \A d \in gone : "user" \notin files[d]
  <2>1. ASSUME NEW t \in PutBack(p) PROVE t \in away[p] /\ t \notin Stuck(p) /\ t \in Topics
    <3>1. t \in away[p] /\ t \in Topics BY DEF PutBack, TypeOK
    <3>2. ASSUME t \in Stuck(p) PROVE FALSE
      <4>1. t > t BY <3>2 DEF PutBack
      <4> QED BY <3>1, <4>1 DEF Topics
    <3> QED BY <3>1, <3>2
  <2>2. ASSUME NEW t \in PutBack(p) \cap made[p] PROVE "user" \notin files[hold[p][t]]
    BY <2>1 DEF Stuck
  <2>3. ASSUME NEW t \in PutBack(p) \ made[p], NEW d \in Here(t) PROVE "user" \notin files[d]
    BY <2>1 DEF Stuck
  <2> QED BY <2>2, <2>3
<1> HIDE DEF gone, back
<1>4. place' \in Places BY <1>1, <1>2, Names DEF TypeOK, Places
<1>5. files' \in Contents BY <1>1 DEF TypeOK, Contents
<1>6. TypeOK' 
  BY <1>4, <1>5, DirectoriesAssumption DEF TypeOK, Places, Contents, Goto, Merging, Trouble
<1>7. Busy' BY DEF TypeOK, Busy, Goto
<1>8. Keeps
  <2> SUFFICES ASSUME NEW d \in Dirs
      PROVE  /\ "user" \in files[d] => "user" \in files'[d] /\ place'[d] # None
             /\ "user" \in files'[d] => "user" \in files[d]
    BY DEF Keeps
  <2>1. CASE d \in gone BY <1>1, <1>3, <2>1
  <2>2. CASE d \notin gone
    <3>1. files'[d] = files[d] BY <1>1, <2>2
    <3>2. CASE back(d)
      <4> DEFINE c == CHOOSE t \in Topics : Returned(p, t, d)
      <4>1. c \in Topics BY <1>2, <3>2
      <4>2. place'[d] = <<"visible", c>> BY <1>1, <3>2
      <4> HIDE DEF c
      <4> QED BY <3>1, <4>1, <4>2, Names
    <3>3. CASE ~back(d) BY <1>1, <2>2, <3>1, <3>3 DEF InPlace
    <3> QED BY <3>2, <3>3
  <2> QED BY <2>1, <2>2
<1>9. InPlace' BY <1>8 DEF InPlace, Keeps
<1> QED BY <1>6, <1>7, <1>8, <1>9

LEMMA CleanKeeps == ASSUME IInv, NEW p \in Threads, Clean(p) PROVE IInv' /\ Keeps
<1> USE DEF IInv, Clean, rowVars
<1> DEFINE D == {hold[p][t] : t \in {u \in topics[p] :
                        IF u \in made[p] THEN Bare(hold[p][u], "hidden", u)
                        ELSE Removable(hold[p][u], u)}}
<1>1. \A d \in D \cap Dirs : "user" \notin files[d]
  BY DEF Bare, Removable, Valid, Whole
<1>2. Gone(D) OBVIOUS
<1> HIDE DEF D
<1>3. place' \in Places /\ files' \in Contents /\ Keeps BY <1>1, <1>2, Removes
<1>4. TypeOK' BY <1>3 DEF TypeOK, Places, Contents, Ends, Goto, NoDirs
<1>5. Busy' BY DEF TypeOK, Busy, Ends, Goto
<1>6. InPlace' BY <1>3 DEF InPlace, Keeps
<1> QED BY <1>3, <1>4, <1>5, <1>6

LEMMA LeaveKeeps == ASSUME IInv, NEW p \in Threads, Leave(p) PROVE IInv' /\ Keeps
<1> USE DEF IInv, Leave, rowVars
<1> DEFINE D == {hold[p][t] : t \in {u \in made[p] \ away[p] :
                        hold[p][u] # None /\ Bare(hold[p][u], "visible", u)}}
<1>1. \A d \in D \cap Dirs : "user" \notin files[d]
  BY DEF Bare
<1>2. Gone(D) OBVIOUS
<1> HIDE DEF D
<1>3. place' \in Places /\ files' \in Contents /\ Keeps BY <1>1, <1>2, Removes
<1>4. TypeOK' BY <1>3 DEF TypeOK, Places, Contents, Ends, Goto, NoDirs
<1>5. Busy' BY DEF TypeOK, Busy, Ends, Goto
<1>6. InPlace' BY <1>3 DEF InPlace, Keeps
<1> QED BY <1>3, <1>4, <1>5, <1>6

LEMMA BeginDeleteKeeps == 
    ASSUME IInv, NEW p \in Threads, NEW t \in Topics, BeginDelete(p, t) PROVE IInv' /\ Keeps
<1> USE DEF IInv, BeginDelete, rowVars
<1>1. OpenTarget(p, t) OBVIOUS
<1>2. place' \in Places /\ files' \in Contents /\ Keeps
      /\ hold' \in [Threads -> [Topics -> Dirs \cup {None}]]
      /\ made' \in [Threads -> SUBSET Topics]
  BY <1>1, Opens
<1>3. TypeOK' BY <1>2 DEF TypeOK, Places, Contents, Goto, Syncing, Merging, Deleting
<1>4. Busy' BY <1>1 DEF TypeOK, Busy, Goto
<1>5. InPlace' BY <1>2 DEF InPlace, Keeps
<1> QED BY <1>2, <1>3, <1>4, <1>5

LEMMA DeleteLockKeeps == ASSUME IInv, NEW p \in Threads, DeleteLock(p) PROVE IInv' /\ Keeps
<1> USE DirectoriesAssumption DEF IInv, DeleteLock, Add, Goto, rowVars, fileVars, jobVars
<1>1. TypeOK' BY DEF TypeOK, Topics, Whole, Syncing, Merging, Deleting
<1>2. Busy' BY DEF TypeOK, Busy
<1>3. Keeps BY DEF TypeOK, InPlace, Keeps, Whole
<1>4. InPlace' BY <1>3 DEF InPlace, Keeps
<1> QED BY <1>1, <1>2, <1>3, <1>4

LEMMA DeleteRefusedKeeps ==
    ASSUME IInv, NEW p \in Threads, DeleteRefused(p) PROVE IInv' /\ Keeps
<1> USE DirectoriesAssumption
      DEF IInv, DeleteRefused, Ends, NoDirs, Goto, rowVars, fileVars, jobVars
<1>1. TypeOK' BY DEF TypeOK, Topics, Whole, Syncing, Merging, Deleting
<1>2. Busy' BY DEF TypeOK, Busy
<1>3. Keeps BY DEF TypeOK, InPlace, Keeps, Whole
<1>4. InPlace' BY <1>3 DEF InPlace, Keeps
<1> QED BY <1>1, <1>2, <1>3, <1>4

LEMMA DeleteFlockKeeps ==
    ASSUME IInv, NEW p \in Threads, DeleteFlock(p) PROVE IInv' /\ Keeps
<1> USE DirectoriesAssumption DEF IInv, DeleteFlock, Goto, rowVars, fileVars, jobVars
<1>1. TypeOK' BY DEF TypeOK, Topics, Whole, Syncing, Merging, Deleting
<1>2. Busy' BY DEF TypeOK, Busy
<1>3. Keeps BY DEF TypeOK, InPlace, Keeps, Whole
<1>4. InPlace' BY <1>3 DEF InPlace, Keeps
<1> QED BY <1>1, <1>2, <1>3, <1>4

LEMMA DeleteCheckKeeps ==
    ASSUME IInv, NEW p \in Threads, DeleteCheck(p) PROVE IInv' /\ Keeps
<1> USE DirectoriesAssumption DEF IInv, DeleteCheck, Goto, rowVars, fileVars, jobVars
<1>1. TypeOK' BY DEF TypeOK, Topics, Whole, Syncing, Merging, Deleting
<1>2. Busy' BY DEF TypeOK, Busy
<1>3. Keeps BY DEF TypeOK, InPlace, Keeps, Whole
<1>4. InPlace' BY <1>3 DEF InPlace, Keeps
<1> QED BY <1>1, <1>2, <1>3, <1>4

LEMMA DeletePlaceholderKeeps ==
    ASSUME IInv, NEW p \in Threads, DeletePlaceholder(p) PROVE IInv' /\ Keeps
<1> USE DirectoriesAssumption
      DEF IInv, DeletePlaceholder, Untouched, Dir, Bare, Gone, Ends, NoDirs, Goto, rowVars,
          fileVars, jobVars
<1>1. TypeOK' BY DEF TypeOK, Topics, Whole, Syncing, Merging, Deleting
<1>2. Busy' BY DEF TypeOK, Busy
<1>3. Keeps BY DEF TypeOK, InPlace, Keeps, Whole
<1>4. InPlace' BY <1>3 DEF InPlace, Keeps
<1> QED BY <1>1, <1>2, <1>3, <1>4

LEMMA DeleteStopsKeeps ==
    ASSUME IInv, NEW p \in Threads, DeleteStops(p) PROVE IInv' /\ Keeps
<1> USE DirectoriesAssumption
      DEF IInv, DeleteStops, Untouched, Dir, Bare, Gone, Ends, NoDirs, Goto, rowVars,
          fileVars, jobVars
<1>1. TypeOK' BY DEF TypeOK, Topics, Whole, Syncing, Merging, Deleting
<1>2. Busy' BY DEF TypeOK, Busy
<1>3. Keeps BY DEF TypeOK, InPlace, Keeps, Whole
<1>4. InPlace' BY <1>3 DEF InPlace, Keeps
<1> QED BY <1>1, <1>2, <1>3, <1>4

LEMMA DeleteFilesKeeps ==
    ASSUME IInv, NEW p \in Threads, DeleteFiles(p) PROVE IInv' /\ Keeps
<1> USE DirectoriesAssumption DEF IInv, DeleteFiles, Goto, rowVars, fileVars, jobVars
<1>1. TypeOK' BY DEF TypeOK, Topics, Whole, Syncing, Merging, Deleting
<1>2. Busy' BY DEF TypeOK, Busy
<1>3. Keeps BY DEF TypeOK, InPlace, Keeps, Whole
<1>4. InPlace' BY <1>3 DEF InPlace, Keeps
<1> QED BY <1>1, <1>2, <1>3, <1>4

LEMMA DeleteDirKeeps == ASSUME IInv, NEW p \in Threads, DeleteDir(p) PROVE IInv' /\ Keeps
<1> USE DirectoriesAssumption DEF IInv, DeleteDir, Bare, Gone, Goto, rowVars, fileVars, jobVars
<1>1. TypeOK' BY DEF TypeOK, Topics, Whole, Syncing, Merging, Deleting
<1>2. Busy' BY DEF TypeOK, Busy
<1>3. Keeps BY DEF TypeOK, InPlace, Keeps, Whole
<1>4. InPlace' BY <1>3 DEF InPlace, Keeps
<1> QED BY <1>1, <1>2, <1>3, <1>4

LEMMA DeleteUndoneKeeps ==
    ASSUME IInv, NEW p \in Threads, DeleteUndone(p) PROVE IInv' /\ Keeps
<1> USE DEF IInv, DeleteUndone, rowVars
<1>1. The(p) \in Topics BY TheTopic DEF Busy
<1>2. files' \in Contents /\ shown' \subseteq Topics
  BY <1>1 DEF TypeOK, Contents
<1>3. TypeOK' BY <1>2 DEF TypeOK, Contents, Ends, Goto, NoDirs
<1>4. Busy' BY DEF TypeOK, Busy, Ends, Goto
<1>5. Keeps
  <2>1. ASSUME NEW d \in Dirs PROVE files'[d] \in {files[d], files[d] \cup Whole} BY DEF TypeOK
  <2>2. \A d \in Dirs : "user" \in files'[d] <=> "user" \in files[d] BY <2>1 DEF Whole
  <2> QED BY <2>2 DEF Keeps, InPlace
<1>6. InPlace' BY <1>5 DEF InPlace, Keeps
<1> QED BY <1>3, <1>4, <1>5, <1>6

LEMMA DeleteRowKeeps == ASSUME IInv, NEW p \in Threads, DeleteRow(p) PROVE IInv' /\ Keeps
<1> USE DirectoriesAssumption
      DEF IInv, DeleteRow, Ends, NoDirs, Goto, rowVars, fileVars, jobVars
<1>1. TypeOK' BY DEF TypeOK, Topics, Whole, Syncing, Merging, Deleting
<1>2. Busy' BY DEF TypeOK, Busy
<1>3. Keeps BY DEF TypeOK, InPlace, Keeps, Whole
<1>4. InPlace' BY <1>3 DEF InPlace, Keeps
<1> QED BY <1>1, <1>2, <1>3, <1>4

LEMMA DeleteRowFailsKeeps ==
    ASSUME IInv, NEW p \in Threads, DeleteRowFails(p) PROVE IInv' /\ Keeps
<1> USE DEF IInv, DeleteRowFails, rowVars
<1>1. The(p) \in Topics BY TheTopic DEF Busy
<1>2. /\ place' \in Places /\ files' \in Contents /\ shown' \subseteq Topics /\ Keeps
  <2>1. CASE UNCHANGED <<place, files, shown>>
    BY <2>1 DEF TypeOK, Places, Contents, Keeps, InPlace
  <2>2. CASE /\ \E d \in Free : d = (CHOOSE e \in Free : TRUE)
                  /\ place' = [place EXCEPT ![d] = <<"visible", The(p)>>]
                  /\ files' = [files EXCEPT ![d] = Whole]
             /\ shown' = shown \cup {The(p)}
    <3>1. PICK d \in Free : /\ place' = [place EXCEPT ![d] = <<"visible", The(p)>>]
                            /\ files' = [files EXCEPT ![d] = Whole]
      BY <2>2
    <3>2. d \in Dirs /\ "user" \notin files[d] BY DEF Free, InPlace
    <3>3. place' \in Places BY <1>1, <3>1, <3>2, Names DEF TypeOK, Places
    <3>4. files' \in Contents BY <3>1, <3>2 DEF TypeOK, Contents
    <3>5. Keeps BY <3>1, <3>2 DEF TypeOK, Keeps, InPlace, Whole
    <3> QED BY <1>1, <2>2, <3>3, <3>4, <3>5 DEF TypeOK
  <2> QED BY <2>1, <2>2
<1>3. TypeOK'
  BY <1>2, DirectoriesAssumption DEF TypeOK, Places, Contents, Ends, Goto, NoDirs, Trouble
<1>4. Busy' BY DEF TypeOK, Busy, Ends, Goto
<1>5. InPlace' BY <1>2 DEF InPlace, Keeps
<1> QED BY <1>2, <1>3, <1>4, <1>5

LEMMA CrashRemovingKeeps ==
    ASSUME IInv, NEW p \in Threads, NEW t \in Topics, CrashRemoving(p, t) PROVE IInv' /\ Keeps
<1> USE DirectoriesAssumption
      DEF IInv, CrashRemoving, Remainders, Stops, Trouble, NoDirs, Goto, rowVars, fileVars,
          jobVars
<1>1. TypeOK' BY DEF TypeOK, Topics, Whole, Syncing, Merging, Deleting
<1>2. Busy' BY DEF TypeOK, Busy
<1>3. Keeps BY DEF TypeOK, InPlace, Keeps, Whole
<1>4. InPlace' BY <1>3 DEF InPlace, Keeps
<1> QED BY <1>1, <1>2, <1>3, <1>4

-----------------------------------------------------------------------------

\* A clean-up by another merge, and a process that stops without removing anything.
LEMMA OtherMergeKeeps == ASSUME IInv, OtherMerge PROVE IInv' /\ Keeps
<1> USE DEF IInv, OtherMerge, rowVars, jobVars
<1>1. place' \in Places /\ files' \in Contents /\ Keeps BY TidyKeeps
<1>2. TypeOK' BY <1>1 DEF TypeOK, Places, Contents
<1>3. Busy' BY DEF Busy
<1>4. InPlace' BY <1>1 DEF InPlace, Keeps
<1> QED BY <1>1, <1>2, <1>3, <1>4

LEMMA CrashKeeps == ASSUME IInv, Crash PROVE IInv' /\ Keeps
<1> USE DirectoriesAssumption DEF IInv, Crash, Stops, Trouble, rowVars
<1>1. TypeOK' BY DEF TypeOK, NoDirs
<1>2. Busy' BY DEF Busy
<1>3. Keeps BY DEF InPlace, Keeps
<1>4. InPlace' BY <1>3 DEF InPlace, Keeps
<1> QED BY <1>1, <1>2, <1>3, <1>4

\* The user himself writes only where there is a directory.
LEMMA UserWritesStands ==
    ASSUME IInv, NEW d \in Dirs, UserWrites(d)
    PROVE  IInv' /\ \A e \in Dirs : "user" \in files[e] => "user" \in files'[e] /\ place'[e] # None
<1> USE DirectoriesAssumption DEF IInv, UserWrites, Trouble, Add, rowVars, jobVars
<1>1. TypeOK' BY DEF TypeOK
<1>2. Busy' BY DEF Busy
<1>3. InPlace' BY DEF TypeOK, InPlace
<1>4. \A e \in Dirs : "user" \in files[e] => "user" \in files'[e] /\ place'[e] # None
  BY DEF TypeOK, InPlace
<1> QED BY <1>1, <1>2, <1>3, <1>4

LEMMA Starts == ASSUME Init PROVE IInv
<1> USE DirectoriesAssumption DEF Init, IInv
<1>1. TypeOK BY DEF TypeOK, NoDirs, Topics
<1>2. Busy /\ InPlace BY DEF Busy, InPlace
<1> QED BY <1>1, <1>2

LEMMA Steps ==
    ASSUME IInv, [Next]_vars
    PROVE  /\ IInv'
           /\ \A d \in Dirs : "user" \in files[d] => "user" \in files'[d] /\ place'[d] # None
<1>1. CASE \E p \in Threads :
            \/ \E t \in Topics : BeginSync(p, t) \/ BeginDelete(p, t) \/ CrashRemoving(p, t)
            \/ \E S \in SUBSET Topics : BeginMerge(p, S)
  BY <1>1, BeginSyncKeeps, BeginDeleteKeeps, CrashRemovingKeeps, BeginMergeKeeps DEF Keeps
<1>2. CASE \E p \in Threads : \/ Rename(p) \/ RenameFails(p) \/ OpenDir(p) \/ Own(p)
                              \/ NotOwned(p) \/ Commit(p) \/ CommitFails(p)
  BY <1>2, RenameKeeps, RenameFailsKeeps, OpenDirKeeps, OwnKeeps, NotOwnedKeeps, CommitKeeps,
     CommitFailsKeeps DEF Keeps
<1>3. CASE \E p \in Threads :
            \/ Take(p) \/ TakeLockFile(p) \/ NoLockFile(p) \/ Flock(p) \/ Check(p)
            \/ Protected(p) \/ Detach(p) \/ Merge(p) \/ MergeFails(p) \/ Clean(p) \/ Leave(p)
  BY <1>3, TakeKeeps, TakeLockFileKeeps, NoLockFileKeeps, FlockKeeps, CheckKeeps, ProtectedKeeps,
     DetachKeeps, MergeKeeps, MergeFailsKeeps, CleanKeeps, LeaveKeeps DEF Keeps
<1>4. CASE \E p \in Threads :
            \/ DeleteLock(p) \/ DeleteRefused(p) \/ DeleteFlock(p) \/ DeleteCheck(p)
            \/ DeletePlaceholder(p) \/ DeleteStops(p) \/ DeleteFiles(p) \/ DeleteDir(p)
            \/ DeleteUndone(p) \/ DeleteRow(p) \/ DeleteRowFails(p)
  BY <1>4, DeleteLockKeeps, DeleteRefusedKeeps, DeleteFlockKeeps, DeleteCheckKeeps,
     DeletePlaceholderKeeps, DeleteStopsKeeps, DeleteFilesKeeps, DeleteDirKeeps,
     DeleteUndoneKeeps, DeleteRowKeeps, DeleteRowFailsKeeps DEF Keeps
<1>5. CASE \E d \in Dirs : UserWrites(d) BY <1>5, UserWritesStands
<1>6. CASE OtherMerge \/ Crash BY <1>6, OtherMergeKeeps, CrashKeeps DEF Keeps
<1>7. CASE UNCHANGED vars
  BY <1>7 DEF vars, rowVars, fileVars, jobVars, IInv, TypeOK, Busy, InPlace
<1> QED BY <1>1, <1>2, <1>3, <1>4, <1>5, <1>6, <1>7 DEF Next

-----------------------------------------------------------------------------
(***************************************************************************)
(* MapIsKept.  A request changes and removes directories that it has held  *)
(* open for a while, so it matters which topic a held inode belongs to:    *)
(* the one it was opened for, or none, whatever others rename meanwhile.   *)
(***************************************************************************)

Named(d, t) == place[d] \in {<<"visible", t>>, <<"hidden", t>>}

NamesOf(t) == {None, <<"visible", t>>, <<"hidden", t>>}

\* A held inode is removed, or has a name of the topic it is held for.
HeldForTopic ==
    \A p \in Threads, t \in Topics :
        hold[p][t] # None => place[hold[p][t]] \in NamesOf(t)

\* No inode is held for two topics.
HeldForOne ==
    \A p, q \in Threads : \A t, u \in Topics :
        hold[p][t] # None /\ hold[p][t] = hold[q][u] => t = u

\* From here on a request has the directory of its topic open.
Opened == \A p \in Threads : pc[p] \in {"own", "commit"} \cup Deleting => hold[p][The(p)] # None

\* The clean-up of a merge comes after its rows.
CleansTheGone == \A p \in Threads : pc[p] = "clean" => topics[p] \cap live = {}

Held == HeldForTopic /\ HeldForOne /\ Opened /\ CleansTheGone
KInv == IInv /\ Held /\ MapIsKept

\* A directory has one name.
LEMMA OneTopic == \A d \in Dirs : \A t, u \in Topics : Named(d, t) /\ Named(d, u) => t = u
BY DEF Named

LEMMA HoldsDirs == IInv => \A p \in Threads, t \in Topics : hold[p][t] \in Dirs \cup {None}
BY DEF IInv, TypeOK

\* A step renames nothing that is held to the name of another topic.
KeepsNames ==
    \A q \in Threads, u \in Topics : hold[q][u] # None => place'[hold[q][u]] \in NamesOf(u)

\* What a step does with names when it opens nothing.
LetsGo ==
    /\ \A q \in Threads, u \in Topics : hold'[q][u] \in {hold[q][u], None}
    /\ KeepsNames

LEMMA LettingGo == ASSUME KInv, LetsGo PROVE HeldForTopic' /\ HeldForOne'
<1>1. HeldForTopic'
  <2> SUFFICES ASSUME NEW q \in Threads, NEW u \in Topics, hold'[q][u] # None
               PROVE  place'[hold'[q][u]] \in NamesOf(u)
    BY DEF HeldForTopic
  <2>1. hold'[q][u] = hold[q][u] BY DEF LetsGo
  <2> QED BY <2>1 DEF LetsGo, KeepsNames
<1>2. HeldForOne' BY DEF LetsGo, KInv, Held, HeldForOne
<1> QED BY <1>1, <1>2

\* A step that opens d for t: d has a name of t, or was nobody's.
LEMMA Opening ==
    ASSUME KInv, NEW p \in Threads, NEW t \in Topics, NEW d \in Dirs,
           Named(d, t) \/ d \in Free, Named(d, t)', hold' = [hold EXCEPT ![p][t] = d],
           \A e \in Dirs \ {d} : place'[e] = place[e]
    PROVE  HeldForTopic' /\ HeldForOne'
<1>1. \A q \in Threads, u \in Topics : hold'[q][u] = IF q = p /\ u = t THEN d ELSE hold[q][u]
  BY DEF KInv, IInv, TypeOK
<1>2. \A q \in Threads, u \in Topics : hold[q][u] = d => u = t
  <2> SUFFICES ASSUME NEW q \in Threads, NEW u \in Topics, hold[q][u] = d PROVE u = t
    OBVIOUS
  <2>1. d # None /\ d \notin Free BY DirectoriesAssumption DEF Free
  <2>2. Named(d, t) BY <2>1
  <2>3. place[d] # None BY <2>2, Names DEF Named
  <2> QED BY <2>1, <2>2, <2>3, OneTopic DEF KInv, Held, HeldForTopic, NamesOf, Named
<1>3. HeldForTopic'
  <2> SUFFICES ASSUME NEW q \in Threads, NEW u \in Topics, hold'[q][u] # None
               PROVE  place'[hold'[q][u]] \in NamesOf(u)
    BY DEF HeldForTopic
  <2>1. CASE hold'[q][u] = d BY <1>1, <1>2, <2>1 DEF Named, NamesOf
  <2>2. CASE hold'[q][u] # d
    <3>1. hold'[q][u] = hold[q][u] BY <1>1, <2>2
    <3>2. hold[q][u] \in Dirs \ {d} BY <2>2, <3>1, HoldsDirs DEF KInv
    <3> QED BY <3>1, <3>2 DEF KInv, Held, HeldForTopic
  <2> QED BY <2>1, <2>2
<1>4. HeldForOne' BY <1>1, <1>2 DEF KInv, Held, HeldForOne
<1> QED BY <1>3, <1>4

\* A request moves on, and the others stay where they are.
LEMMA Moving ==
    ASSUME KInv, NEW p \in Threads, NEW l, Goto(p, l), live' \subseteq live,
           \A q \in Threads \ {p} : topics'[q] = topics[q] /\ hold'[q] = hold[q],
           l \in {"own", "commit"} \cup Deleting => hold'[p][The(p)'] # None,
           l = "clean" => topics'[p] \cap live' = {}
    PROVE  Opened' /\ CleansTheGone'
<1>1. \A q \in Threads : pc'[q] = IF q = p THEN l ELSE pc[q]
  BY DEF Goto, KInv, IInv, TypeOK
<1>2. \A q \in Threads \ {p} : The(q)' = The(q) BY DEF The
<1> QED BY <1>1, <1>2 DEF KInv, Held, Opened, CleansTheGone

\* A request that ends opens and cleans nothing any more.
LEMMA Ending ==
    ASSUME KInv, NEW p \in Threads, Ends(p), live' \subseteq live, KeepsNames
    PROVE  Held'
<1>1. hold \in [Threads -> [Topics -> Dirs \cup {None}]] /\ topics \in [Threads -> SUBSET Topics]
  BY DEF KInv, IInv, TypeOK
<1>2. /\ \A q \in Threads \ {p} : topics'[q] = topics[q] /\ hold'[q] = hold[q]
      /\ hold'[p] = NoDirs
  BY <1>1 DEF Ends
<1>3. LetsGo BY <1>2 DEF LetsGo, NoDirs
<1>4. Opened' /\ CleansTheGone' BY <1>2, Moving DEF Ends, Deleting
<1> QED BY <1>3, <1>4, LettingGo DEF Held

\* A published map stands if no step takes it from its topic.
LEMMA Standing ==
    ASSUME KInv, live' \subseteq live,
           \A t \in live \cap shown' : t \in shown \/ MapsOf(t)' # {},
           \A t \in live' \cap shown : t \in shown' =>
               \A d \in Dirs : "map" \in files[d] /\ Named(d, t) => "map" \in files'[d] /\ Named(d, t)'
    PROVE  MapIsKept'
<1> SUFFICES ASSUME NEW t \in live' \cap shown' PROVE MapsOf(t)' # {}
  BY DEF MapIsKept
<1>1. CASE t \in shown
  <2>1. PICK d \in MapsOf(t) : TRUE BY <1>1 DEF KInv, MapIsKept
  <2>2. d \in Dirs /\ "map" \in files[d] /\ Named(d, t) BY DEF MapsOf, Name, Named
  <2>3. "map" \in files'[d] /\ Named(d, t)' BY <1>1, <2>2
  <2> QED BY <2>2, <2>3 DEF MapsOf, Name, Named
<1>2. CASE t \notin shown BY <1>2
<1> QED BY <1>1, <1>2

\* Nothing is renamed, and no map is removed.
LEMMA StandingStill ==
    ASSUME KInv, UNCHANGED place, live' \subseteq live, shown' \subseteq shown,
           \A d \in Dirs : "map" \in files[d] => "map" \in files'[d]
    PROVE  MapIsKept'
BY Standing DEF Named

\* The names of what is held stand when nothing is renamed.
LEMMA SameNames == ASSUME KInv, UNCHANGED place PROVE KeepsNames
BY DEF KInv, Held, HeldForTopic, KeepsNames

\* Removing directories leaves the names of the others.
LEMMA Removing ==
    ASSUME KInv, NEW D, Gone(D)
    PROVE  /\ KeepsNames
           /\ \A d \in Dirs \ D : place'[d] = place[d] /\ files'[d] = files[d]
<1>1. \A d \in Dirs : place'[d] = IF d \in D THEN None ELSE place[d] BY DEF Gone
<1>2. \A d \in Dirs \ D : place'[d] = place[d] /\ files'[d] = files[d] BY DEF Gone
<1>3. ASSUME NEW q \in Threads, NEW u \in Topics, hold[q][u] # None
      PROVE  place'[hold[q][u]] \in NamesOf(u)
  <2>1. hold[q][u] \in Dirs BY <1>3, HoldsDirs DEF KInv
  <2>2. place[hold[q][u]] \in NamesOf(u) BY <1>3 DEF KInv, Held, HeldForTopic
  <2> QED BY <1>1, <2>1, <2>2 DEF NamesOf
<1> QED BY <1>2, <1>3 DEF KeepsNames

\* So a removal takes no map of a topic with a row, when none is in the directories.
LEMMA RemovingStands ==
    ASSUME KInv, NEW D, Gone(D), live' \subseteq live, shown' \subseteq shown,
           \A d \in D \cap Dirs : "map" \in files[d] => \A t \in live' : ~Named(d, t)
    PROVE  MapIsKept'
<1>1. \A d \in Dirs \ D : place'[d] = place[d] /\ files'[d] = files[d] BY Removing
<1>2. ASSUME NEW t \in live' \cap shown, NEW d \in Dirs, "map" \in files[d], Named(d, t)
      PROVE  "map" \in files'[d] /\ Named(d, t)'
  <2>1. d \notin D BY <1>2
  <2> QED BY <1>1, <1>2, <2>1 DEF Named
<1> QED BY <1>2, Standing

-----------------------------------------------------------------------------
\* A request that moves on with what it has.
LEMMA Stepping ==
    ASSUME KInv, NEW p \in Threads, NEW l, Goto(p, l), UNCHANGED <<place, hold, topics>>,
           live' \subseteq live,
           l \in {"own", "commit"} \cup Deleting => hold[p][The(p)] # None,
           l = "clean" => topics[p] \cap live' = {}
    PROVE  Held'
<1>1. The(p)' = The(p) BY DEF The
<1>2. Opened' /\ CleansTheGone' BY <1>1, Moving
<1>3. LetsGo BY SameNames DEF LetsGo
<1> QED BY <1>2, <1>3, LettingGo DEF Held

\* One that opens a directory of its topic, or makes one.
LEMMA OpeningOne ==
    ASSUME KInv, NEW p \in Threads, NEW t \in Topics, NEW d \in Dirs,
           hold' = [hold EXCEPT ![p][t] = d],
           (d \in Here(t) /\ UNCHANGED <<place, files>>) \/ (d \in Free /\ Make(d, t)),
           UNCHANGED <<live, shown>>
    PROVE  HeldForTopic' /\ HeldForOne' /\ MapIsKept'
<1>1. CASE d \in Here(t) /\ UNCHANGED <<place, files>>
  <2>1. Named(d, t) /\ Named(d, t)' BY <1>1 DEF Here, Name, Named
  <2>2. HeldForTopic' /\ HeldForOne' BY <1>1, <2>1, Opening
  <2>3. MapIsKept' BY <1>1, StandingStill
  <2> QED BY <2>2, <2>3
<1>2. CASE d \in Free /\ Make(d, t)
  <2>1. place \in Places /\ files \in Contents BY DEF KInv, IInv, TypeOK, Places, Contents
  <2>2. place' = [place EXCEPT ![d] = <<"visible", t>>] /\ files' = [files EXCEPT ![d] = {}]
    BY <1>2 DEF Make
  <2>3. \A e \in Dirs : e # d => place'[e] = place[e] /\ files'[e] = files[e]
    BY <2>1, <2>2 DEF Places, Contents
  <2>4. Named(d, t)' BY <2>1, <2>2 DEF Named, Places
  <2>5. HeldForTopic' /\ HeldForOne' BY <1>2, <2>3, <2>4, Opening
  <2>6. \A u \in Topics : ~Named(d, u) BY <1>2, Names DEF Free, Named
  <2>7. MapIsKept'
    <3>1. live \subseteq Topics BY DEF KInv, IInv, TypeOK
    <3> QED BY <2>3, <2>6, <3>1, Standing DEF Named
  <2> QED BY <2>5, <2>7
<1> QED BY <1>1, <1>2

LEMMA OpeningTarget ==
    ASSUME KInv, NEW p \in Threads, NEW t \in Topics, OpenTarget(p, t), UNCHANGED <<live, shown>>
    PROVE  /\ HeldForTopic' /\ HeldForOne' /\ MapIsKept'
           /\ hold'[p][t] # None /\ \A q \in Threads \ {p} : hold'[q] = hold[q]
<1>1. PICK d \in Dirs : /\ hold' = [hold EXCEPT ![p][t] = d]
                        /\ (d \in Here(t) /\ UNCHANGED <<place, files>>) \/ (d \in Free /\ Make(d, t))
  BY DEF OpenTarget, Here, Free
<1>2. HeldForTopic' /\ HeldForOne' /\ MapIsKept' BY <1>1, OpeningOne
<1>3. hold \in [Threads -> [Topics -> Dirs \cup {None}]] BY DEF KInv, IInv, TypeOK
<1> QED BY <1>1, <1>2, <1>3, DirectoriesAssumption

-----------------------------------------------------------------------------
LEMMA OneIsThere == ASSUME NEW S, Cardinality(S) = 1 PROVE S # {}
BY FS_EmptySet

LEMMA BeginSyncHolds ==
    ASSUME KInv, NEW p \in Threads, NEW t \in Topics, BeginSync(p, t) PROVE Held' /\ MapIsKept'
<1> USE DEF BeginSync, rowVars, fileVars
<1>1. MapIsKept' BY StandingStill
<1>2. hold \in [Threads -> [Topics -> Dirs \cup {None}]] /\ topics \in [Threads -> SUBSET Topics]
  BY DEF KInv, IInv, TypeOK
<1>3. HeldForTopic' /\ HeldForOne' /\ \A q \in Threads \ {p} : hold'[q] = hold[q]
  <2>1. CASE UNCHANGED hold
    <3>1. LetsGo BY <2>1, SameNames DEF LetsGo
    <3> QED BY <2>1, <3>1, LettingGo
  <2>2. CASE /\ Cardinality(MapsOf(t)) = 1
             /\ hold' = [hold EXCEPT ![p][t] = CHOOSE d \in MapsOf(t) : TRUE]
    <3>1. MapsOf(t) # {} BY <2>2, OneIsThere
    <3>2. PICK d \in MapsOf(t) : hold' = [hold EXCEPT ![p][t] = d] BY <2>2, <3>1
    <3>3. d \in Dirs /\ Named(d, t) /\ Named(d, t)' BY DEF MapsOf, Name, Named
    <3>4. HeldForTopic' /\ HeldForOne' BY <3>2, <3>3, Opening
    <3> QED BY <1>2, <3>2, <3>4
  <2> QED BY <2>1, <2>2
<1>4. \E l \in {"open", "rename"} : Goto(p, l) OBVIOUS
<1>5. Opened' /\ CleansTheGone' BY <1>2, <1>3, <1>4, Moving DEF Deleting
<1> QED BY <1>1, <1>3, <1>5 DEF Held

\* A directory that is brought back keeps its topic; what it replaces is empty.
LEMMA RenameHolds ==
    ASSUME KInv, NEW p \in Threads, Rename(p), IInv' PROVE Held' /\ MapIsKept'
<1> DEFINE t == The(p)
<1>0. /\ t \in Topics /\ Name(Dir(p), "hidden", t) /\ \A e \in Here(t) : files[e] = {}
      /\ place' = [d \in Dirs |-> IF d = Dir(p) THEN <<"visible", t>>
                                  ELSE IF d \in Here(t) THEN None ELSE place[d]]
      /\ hold' = [hold EXCEPT ![p] = NoDirs] /\ Goto(p, "open")
      /\ UNCHANGED <<rowVars, files, topics, shown>>
  <2>1. topics[p] # {} BY DEF KInv, IInv, Busy, Rename
  <2> QED BY <2>1, TheTopic DEF Rename, KInv, IInv
<1> HIDE DEF t
<1>1. \A d \in Dirs : \A u \in Topics :
        /\ Named(d, u) => place'[d] \in NamesOf(u)
        /\ Named(d, u) /\ "map" \in files[d] => Named(d, u)'
        /\ place[d] = None /\ d # Dir(p) => place'[d] = None
  BY <1>0, Names DEF Named, NamesOf, Here, Name
<1>2. KeepsNames
  <2> SUFFICES ASSUME NEW q \in Threads, NEW u \in Topics, hold[q][u] # None
               PROVE  place'[hold[q][u]] \in NamesOf(u)
    BY DEF KeepsNames
  <2>1. hold[q][u] \in Dirs /\ (place[hold[q][u]] = None \/ Named(hold[q][u], u))
    BY HoldsDirs DEF KInv, Held, HeldForTopic, Named, NamesOf
  <2>2. place[Dir(p)] # None BY <1>0, Names DEF Name
  <2> QED BY <1>1, <2>1, <2>2 DEF NamesOf
<1>3. /\ hold \in [Threads -> [Topics -> Dirs \cup {None}]]
      /\ \A q \in Threads : hold'[q] = IF q = p THEN NoDirs ELSE hold[q]
  BY <1>0 DEF KInv, IInv, TypeOK
<1>4. LetsGo BY <1>2, <1>3 DEF LetsGo, NoDirs
<1>5. Opened' /\ CleansTheGone' BY <1>0, <1>3, Moving DEF Deleting, rowVars
<1>6. MapIsKept'
  <2>1. live' = live /\ shown' = shown /\ files' = files /\ live \subseteq Topics
    BY <1>0 DEF rowVars, KInv, IInv, TypeOK
  <2> QED BY <1>1, <2>1, Standing
<1> QED BY <1>4, <1>5, <1>6, LettingGo DEF Held

LEMMA OpenDirHolds == ASSUME KInv, NEW p \in Threads, OpenDir(p) PROVE Held' /\ MapIsKept'
<1> DEFINE t == The(p)
<1>0. t \in Topics
  <2>1. topics[p] # {} BY DEF KInv, IInv, Busy, OpenDir
  <2> QED BY <2>1, TheTopic DEF KInv, IInv
<1>1. PICK d \in Dirs : /\ hold' = [hold EXCEPT ![p][t] = d]
                        /\ (d \in Here(t) /\ UNCHANGED <<place, files>>) \/ (d \in Free /\ Make(d, t))
  BY DEF OpenDir, Here, Free
<1>2. UNCHANGED <<live, shown, topics>> /\ Goto(p, "own") BY DEF OpenDir, rowVars
<1>3. HeldForTopic' /\ HeldForOne' /\ MapIsKept' BY <1>0, <1>1, <1>2, OpeningOne
<1>4. hold \in [Threads -> [Topics -> Dirs \cup {None}]] BY DEF KInv, IInv, TypeOK
<1>5. hold'[p][t] # None /\ \A q \in Threads \ {p} : hold'[q] = hold[q]
  BY <1>0, <1>1, <1>4, DirectoriesAssumption
<1>6. Opened' /\ CleansTheGone'
  <2>1. The(p)' = t BY <1>2 DEF The
  <2> QED BY <1>2, <1>5, <2>1, Moving
<1> QED BY <1>3, <1>6 DEF Held

LEMMA OwnHolds == ASSUME KInv, NEW p \in Threads, Own(p) PROVE Held' /\ MapIsKept'
<1>1. Held' BY Stepping DEF Own, rowVars, jobVars, KInv, Held, Opened
<1>2. \A d \in Dirs : "map" \in files[d] => "map" \in files'[d]
  BY DEF Own, Add, KInv, IInv, TypeOK
<1> QED BY <1>1, <1>2, StandingStill DEF Own, rowVars

LEMMA SyncFailsHolds ==
    ASSUME KInv, NEW p \in Threads, RenameFails(p) \/ NotOwned(p) PROVE Held' /\ MapIsKept'
<1>1. Ends(p) /\ UNCHANGED <<live, place, files, shown>>
  BY DEF RenameFails, NotOwned, SyncFails
<1> QED BY <1>1, SameNames, Ending, StandingStill

\* The map that is published goes into the directory held for its topic.
LEMMA CommitHolds == ASSUME KInv, NEW p \in Threads, Commit(p) PROVE Held' /\ MapIsKept'
<1>1. Ends(p) /\ UNCHANGED <<live, place>> /\ pc[p] = "commit"
  BY DEF Commit
<1>2. PICK t \in Topics : t = The(p)
  <2>1. topics[p] # {} BY <1>1 DEF KInv, IInv, Busy
  <2> QED BY <2>1, TheTopic DEF KInv, IInv
<1>3. PICK d \in Dirs : d = Dir(p) /\ Named(d, t)
  <2>1. Dir(p) # None /\ place[Dir(p)] # None BY <1>1 DEF KInv, Held, Opened, Dir, Commit
  <2> QED BY <1>2, <2>1, HoldsDirs DEF KInv, Held, HeldForTopic, NamesOf, Named, Dir
<1>4. shown' = shown \cup {t} /\ files' = [files EXCEPT ![d] = @ \cup {"lock", "map"}]
  BY <1>2, <1>3 DEF Commit
<1>5. "map" \in files'[d] /\ \A e \in Dirs : "map" \in files[e] => "map" \in files'[e]
  BY <1>3, <1>4 DEF KInv, IInv, TypeOK
<1>6. MapsOf(t)' # {} BY <1>1, <1>3, <1>5 DEF MapsOf, Name, Named
<1>7. MapIsKept' BY <1>1, <1>4, <1>5, <1>6, Standing DEF Named
<1> QED BY <1>1, <1>7, SameNames, Ending

LEMMA CommitFailsHolds == ASSUME KInv, NEW p \in Threads, CommitFails(p) PROVE Held' /\ MapIsKept'
<1>1. Ends(p) /\ UNCHANGED <<live, place, shown>> BY DEF CommitFails
<1>2. \A d \in Dirs : "map" \in files[d] => "map" \in files'[d]
  BY DEF CommitFails, KInv, IInv, TypeOK
<1> QED BY <1>1, <1>2, SameNames, Ending, StandingStill

-----------------------------------------------------------------------------
\* The clean-up at the start of a merge takes directories of topics that are gone.
LEMMA TidyHolds ==
    ASSUME KInv, Tidy, UNCHANGED <<live, shown>>
    PROVE  KeepsNames /\ MapIsKept'
<1> DEFINE D == {d \in Journals : files[d] \in {{"lock"}, Whole}}
<1>1. Gone(D) BY DEF Tidy
<1>2. \A d \in D \cap Dirs : \A t \in live : ~Named(d, t)
  <2>1. live \subseteq Topics BY DEF KInv, IInv, TypeOK
  <2> QED BY <2>1 DEF Journals, Name, Named
<1> HIDE DEF D
<1> QED BY <1>1, <1>2, Removing, RemovingStands

LEMMA OtherMergeHolds == ASSUME KInv, OtherMerge PROVE Held' /\ MapIsKept'
<1>1. UNCHANGED <<live, shown, hold, pc, topics>> /\ Tidy BY DEF OtherMerge, rowVars, jobVars
<1>2. KeepsNames /\ MapIsKept' BY <1>1, TidyHolds
<1>3. LetsGo BY <1>1, <1>2 DEF LetsGo
<1>4. Opened' /\ CleansTheGone' BY <1>1 DEF KInv, Held, Opened, CleansTheGone, The
<1> QED BY <1>2, <1>3, <1>4, LettingGo DEF Held

LEMMA BeginMergeHolds ==
    ASSUME KInv, NEW p \in Threads, NEW S \in SUBSET Topics, BeginMerge(p, S)
    PROVE  Held' /\ MapIsKept'
<1>1. /\ UNCHANGED <<live, shown, hold>> /\ Tidy /\ Goto(p, "take")
      /\ topics' = [topics EXCEPT ![p] = S]
  BY DEF BeginMerge, rowVars
<1>2. KeepsNames /\ MapIsKept' BY <1>1, TidyHolds
<1>3. LetsGo BY <1>1, <1>2 DEF LetsGo
<1>4. \A q \in Threads \ {p} : topics'[q] = topics[q] BY <1>1 DEF KInv, IInv, TypeOK
<1>5. Opened' /\ CleansTheGone' BY <1>1, <1>4, Moving DEF Deleting
<1> QED BY <1>2, <1>3, <1>5, LettingGo DEF Held

LEMMA TakeHolds == ASSUME KInv, NEW p \in Threads, Take(p) PROVE Held' /\ MapIsKept'
<1>1. PICK t \in topics[p] : OpenTarget(p, t) BY DEF Take
<1>2. t \in Topics BY DEF KInv, IInv, TypeOK
<1>3. UNCHANGED <<live, shown, topics>> /\ Goto(p, "lockFile") BY DEF Take, rowVars
<1>4. /\ HeldForTopic' /\ HeldForOne' /\ MapIsKept'
      /\ \A q \in Threads \ {p} : hold'[q] = hold[q]
  BY <1>1, <1>2, <1>3, OpeningTarget
<1>5. Opened' /\ CleansTheGone' BY <1>3, <1>4, Moving DEF Deleting
<1> QED BY <1>4, <1>5 DEF Held

LEMMA TakeLockFileHolds ==
    ASSUME KInv, NEW p \in Threads, TakeLockFile(p) PROVE Held' /\ MapIsKept'
<1>1. UNCHANGED <<live, shown, place, hold, topics>> /\ Goto(p, "flock")
  BY DEF TakeLockFile, rowVars, jobVars
<1>2. \A d \in Dirs : "map" \in files[d] => "map" \in files'[d]
  BY DEF TakeLockFile, Add, KInv, IInv, TypeOK
<1> QED BY <1>1, <1>2, Stepping, StandingStill DEF Deleting

LEMMA NoLockFileHolds == ASSUME KInv, NEW p \in Threads, NoLockFile(p) PROVE Held' /\ MapIsKept'
<1>1. UNCHANGED <<live, shown, place, files, topics>> /\ Goto(p, "leave")
  BY DEF NoLockFile, rowVars, fileVars
<1>2. /\ \A q \in Threads \ {p} : hold'[q] = hold[q]
      /\ \A q \in Threads, u \in Topics : hold'[q][u] \in {hold[q][u], None}
  BY DEF NoLockFile, KInv, IInv, TypeOK
<1>3. LetsGo BY <1>1, <1>2, SameNames DEF LetsGo
<1>4. Opened' /\ CleansTheGone' BY <1>1, <1>2, Moving DEF Deleting
<1> QED BY <1>1, <1>3, <1>4, LettingGo, StandingStill DEF Held

LEMMA MergeWaitsHolds ==
    ASSUME KInv, NEW p \in Threads, Flock(p) \/ Check(p) \/ Protected(p) PROVE Held' /\ MapIsKept'
<1>1. UNCHANGED <<live, shown, place, files, hold, topics>>
  BY DEF Flock, Check, Protected, rowVars, fileVars, jobVars
<1>2. \E l \in {"leave", "take", "check", "detach"} : Goto(p, l) BY DEF Flock, Check, Protected
<1> QED BY <1>1, <1>2, Stepping, StandingStill DEF Deleting

LEMMA DetachHolds == ASSUME KInv, NEW p \in Threads, Detach(p) PROVE Held' /\ MapIsKept'
<1>1. PICK t \in topics[p] :
        place' = [d \in Dirs |-> IF d \in Here(t) THEN <<"hidden", t>> ELSE place[d]]
  BY DEF Detach
<1>2. UNCHANGED <<live, shown, files, hold, topics>> /\ \E l \in {"merge", "detach"} : Goto(p, l)
  BY DEF Detach, rowVars
<1>3. t \in Topics BY DEF KInv, IInv, TypeOK
<1>4. \A d \in Dirs : \A u \in Topics : /\ place[d] \in NamesOf(u) => place'[d] \in NamesOf(u)
                                        /\ Named(d, u) => Named(d, u)'
  BY <1>1, <1>3, Names DEF NamesOf, Named, Here, Name
<1>5. KeepsNames BY <1>4, HoldsDirs DEF KeepsNames, KInv, Held, HeldForTopic
<1>6. LetsGo BY <1>2, <1>5 DEF LetsGo
<1>7. Opened' /\ CleansTheGone' BY <1>2, Moving DEF Deleting
<1>8. MapIsKept'
  <2>1. live \subseteq Topics BY DEF KInv, IInv, TypeOK
  <2> QED BY <1>2, <1>4, <2>1, Standing
<1> QED BY <1>6, <1>7, <1>8, LettingGo DEF Held

LEMMA MergeHolds == ASSUME KInv, NEW p \in Threads, Merge(p) PROVE Held' /\ MapIsKept'
<1>1. /\ UNCHANGED <<shown, place, files, hold, topics>> /\ Goto(p, "clean")
      /\ live' = live \ topics[p]
  BY DEF Merge, fileVars, jobVars
<1>2. live' \subseteq live /\ topics[p] \cap live' = {} BY <1>1
<1> QED BY <1>1, <1>2, Stepping, StandingStill DEF Deleting

\* What a failed merge puts back goes to its own topic, and what it removes for
\* that is empty or its own placeholder.
LEMMA MergeFailsHolds == ASSUME KInv, NEW p \in Threads, MergeFails(p) PROVE Held' /\ MapIsKept'
<1> DEFINE gone == {hold[p][t] : t \in PutBack(p) \cap made[p]}
                      \cup UNION {Here(t) : t \in PutBack(p) \ made[p]}
           back(d) == \E t \in Topics : Returned(p, t, d)
<1>1. /\ place' = [d \in Dirs |-> IF back(d)
                                  THEN <<"visible", CHOOSE t \in Topics : Returned(p, t, d)>>
                                  ELSE IF d \in gone THEN None ELSE place[d]]
      /\ files' = [d \in Dirs |-> IF d \in gone THEN {} ELSE files[d]]
      /\ UNCHANGED <<live, shown, hold, topics>> /\ Goto(p, "leave")
  BY DEF MergeFails, rowVars
<1>2. \A d \in Dirs \cap gone : "map" \notin files[d]
  <2>1. \A t \in PutBack(p) : t \notin Stuck(p)
    <3>1. ASSUME NEW t \in PutBack(p) PROVE t \in Nat
      BY DEF PutBack, Topics, KInv, IInv, TypeOK
    <3> QED BY <3>1 DEF PutBack
  <2>2. \A t \in PutBack(p) : t \in away[p] BY DEF PutBack
  <2>3. \A t \in PutBack(p) \cap made[p] : files[hold[p][t]] = {"lock"}
    BY <2>1, <2>2 DEF Stuck
  <2>4. \A t \in PutBack(p) \ made[p] : \A e \in Here(t) : files[e] = {}
    BY <2>1, <2>2 DEF Stuck
  <2> QED BY <2>3, <2>4
<1> HIDE DEF gone
<1>3. ASSUME NEW d \in Dirs, NEW u \in Topics, back(d), \E q \in Threads : hold[q][u] = d
      PROVE  place'[d] = <<"visible", u>>
  <2> DEFINE c == CHOOSE t \in Topics : Returned(p, t, d)
  <2>1. c \in Topics /\ hold[p][c] = d BY <1>3 DEF Returned
  <2>2. place'[d] = <<"visible", c>> BY <1>1, <1>3
  <2> HIDE DEF c
  <2>3. d # None BY DirectoriesAssumption
  <2>4. c = u BY <1>3, <2>1, <2>3 DEF KInv, Held, HeldForOne
  <2> QED BY <2>2, <2>4
<1>4. KeepsNames
  <2> SUFFICES ASSUME NEW q \in Threads, NEW u \in Topics, hold[q][u] # None
               PROVE  place'[hold[q][u]] \in NamesOf(u)
    BY DEF KeepsNames
  <2>1. hold[q][u] \in Dirs /\ place[hold[q][u]] \in NamesOf(u)
    BY HoldsDirs DEF KInv, Held, HeldForTopic
  <2>2. CASE back(hold[q][u]) BY <1>3, <2>1, <2>2 DEF NamesOf
  <2>3. CASE ~back(hold[q][u]) BY <1>1, <2>1, <2>3 DEF NamesOf
  <2> QED BY <2>2, <2>3
<1>5. LetsGo BY <1>1, <1>4 DEF LetsGo
<1>6. Opened' /\ CleansTheGone' BY <1>1, Moving DEF Deleting
<1>7. MapIsKept'
  <2>1. ASSUME NEW t \in Topics, NEW d \in Dirs, "map" \in files[d], Named(d, t)
        PROVE  "map" \in files'[d] /\ Named(d, t)'
    <3>1. d \notin gone BY <1>2, <2>1
    <3>2. CASE back(d)
      <4>1. PICK u \in Topics : hold[p][u] = d BY <3>2 DEF Returned
      <4>2. d # None /\ place[d] # None BY <2>1, Names, DirectoriesAssumption DEF Named
      <4>3. u = t BY <2>1, <4>1, <4>2, OneTopic DEF KInv, Held, HeldForTopic, NamesOf, Named
      <4> QED BY <1>1, <1>3, <2>1, <3>1, <3>2, <4>1, <4>3 DEF Named
    <3>3. CASE ~back(d) BY <1>1, <2>1, <3>1, <3>3 DEF Named
    <3> QED BY <3>2, <3>3
  <2>2. live \subseteq Topics /\ live' = live /\ shown' = shown
    BY <1>1 DEF KInv, IInv, TypeOK
  <2> QED BY <2>1, <2>2, Standing
<1> QED BY <1>5, <1>6, <1>7, LettingGo DEF Held

\* A clean-up takes whole directories of the topics that are gone, and no others.
LEMMA CleanHolds == ASSUME KInv, NEW p \in Threads, Clean(p) PROVE Held' /\ MapIsKept'
<1> DEFINE D == {hold[p][t] : t \in {u \in topics[p] :
                        IF u \in made[p] THEN Bare(hold[p][u], "hidden", u)
                        ELSE Removable(hold[p][u], u)}}
<1>1. Gone(D) /\ Ends(p) /\ UNCHANGED <<live, shown>> BY DEF Clean, rowVars
<1>2. \A d \in D \cap Dirs : "map" \in files[d] => \A t \in live : ~Named(d, t)
  <2> SUFFICES ASSUME NEW d \in D \cap Dirs, NEW t \in live, Named(d, t) PROVE "map" \notin files[d]
    OBVIOUS
  <2>1. PICK u \in topics[p] : /\ d = hold[p][u]
                               /\ IF u \in made[p] THEN Bare(d, "hidden", u) ELSE Removable(d, u)
    OBVIOUS
  <2>2. u \in Topics /\ t \in Topics BY DEF KInv, IInv, TypeOK
  <2>3. Named(d, u) BY <2>1 DEF Bare, Removable, Valid, Name, Named
  <2>4. u \in live BY <2>2, <2>3, OneTopic
  <2>5. pc[p] = "clean" BY DEF Clean
  <2> QED BY <2>4, <2>5 DEF KInv, Held, CleansTheGone
<1> HIDE DEF D
<1>3. KeepsNames /\ MapIsKept' BY <1>1, <1>2, Removing, RemovingStands
<1> QED BY <1>1, <1>3, Ending

LEMMA LeaveHolds == ASSUME KInv, NEW p \in Threads, Leave(p) PROVE Held' /\ MapIsKept'
<1> DEFINE D == {hold[p][t] : t \in {u \in made[p] \ away[p] :
                        hold[p][u] # None /\ Bare(hold[p][u], "visible", u)}}
<1>1. Gone(D) /\ Ends(p) /\ UNCHANGED <<live, shown>> BY DEF Leave, rowVars
<1>2. \A d \in D \cap Dirs : "map" \notin files[d] BY DEF Bare
<1> HIDE DEF D
<1>3. KeepsNames /\ MapIsKept' BY <1>1, <1>2, Removing, RemovingStands
<1> QED BY <1>1, <1>3, Ending

-----------------------------------------------------------------------------
LEMMA BeginDeleteHolds ==
    ASSUME KInv, NEW p \in Threads, NEW t \in Topics, BeginDelete(p, t) PROVE Held' /\ MapIsKept'
<1>1. /\ OpenTarget(p, t) /\ UNCHANGED <<live, shown>> /\ Goto(p, "dLock")
      /\ topics' = [topics EXCEPT ![p] = {t}]
  BY DEF BeginDelete, rowVars
<1>2. /\ HeldForTopic' /\ HeldForOne' /\ MapIsKept' /\ hold'[p][t] # None
      /\ \A q \in Threads \ {p} : hold'[q] = hold[q]
  BY <1>1, OpeningTarget
<1>3. topics'[p] = {t} /\ \A q \in Threads \ {p} : topics'[q] = topics[q]
  BY <1>1 DEF KInv, IInv, TypeOK
<1>4. hold'[p][The(p)'] # None
  <2>1. The(p)' = t BY <1>3 DEF The
  <2> QED BY <1>2, <2>1
<1>5. Opened' /\ CleansTheGone'
  <2>1. \A q \in Threads : pc'[q] = IF q = p THEN "dLock" ELSE pc[q]
    BY <1>1 DEF Goto, KInv, IInv, TypeOK
  <2>2. \A q \in Threads \ {p} : The(q)' = The(q) BY <1>3 DEF The
  <2> QED BY <1>1, <1>2, <1>3, <1>4, <2>1, <2>2 DEF KInv, Held, Opened, CleansTheGone
<1> QED BY <1>2, <1>5 DEF Held

\* The topic of a deletion, and the directory it holds for it.
LEMMA DeletesItsOwn ==
    ASSUME KInv, NEW p \in Threads, pc[p] \in Deleting
    PROVE  /\ The(p) \in Topics /\ Dir(p) \in Dirs /\ Dir(p) # None
           /\ place[Dir(p)] \in NamesOf(The(p))
           /\ \A t \in Topics : Named(Dir(p), t) => t = The(p)
<1>1. topics[p] # {} BY DEF KInv, IInv, Busy, Deleting
<1>2. The(p) \in Topics BY <1>1, TheTopic DEF KInv, IInv
<1>3. Dir(p) # None BY DEF KInv, Held, Opened, Dir
<1>4. Dir(p) \in Dirs BY <1>2, <1>3, HoldsDirs DEF KInv, Dir
<1>5. place[Dir(p)] \in NamesOf(The(p)) BY <1>2, <1>3 DEF KInv, Held, HeldForTopic, Dir
<1>6. \A t \in Topics : Named(Dir(p), t) => t = The(p)
  <2> SUFFICES ASSUME NEW t \in Topics, Named(Dir(p), t) PROVE t = The(p)
    OBVIOUS
  <2>1. place[Dir(p)] # None BY Names DEF Named
  <2>2. Named(Dir(p), The(p)) BY <1>5, <2>1 DEF NamesOf, Named
  <2> QED BY <1>2, <1>4, <2>2, OneTopic
<1> QED BY <1>2, <1>3, <1>4, <1>5, <1>6

LEMMA DeleteWaitsHolds ==
    ASSUME KInv, NEW p \in Threads, DeleteLock(p) \/ DeleteFlock(p) \/ DeleteCheck(p)
    PROVE  Held' /\ MapIsKept'
<1>1. UNCHANGED <<live, shown, place, hold, topics>>
  BY DEF DeleteLock, DeleteFlock, DeleteCheck, rowVars, fileVars, jobVars
<1>2. pc[p] \in Deleting /\ \E l \in {"dFlock", "dCheck", "dUnlink"} : Goto(p, l)
  BY DEF DeleteLock, DeleteFlock, DeleteCheck, Deleting
<1>3. \A d \in Dirs : "map" \in files[d] => "map" \in files'[d]
  BY DEF DeleteLock, DeleteFlock, DeleteCheck, Add, fileVars, KInv, IInv, TypeOK
<1>4. Held' BY <1>1, <1>2, Stepping DEF KInv, Held, Opened
<1> QED BY <1>1, <1>3, <1>4, StandingStill

LEMMA DeleteRefusedHolds ==
    ASSUME KInv, NEW p \in Threads, DeleteRefused(p) PROVE Held' /\ MapIsKept'
<1>1. Ends(p) /\ UNCHANGED <<live, place, files, shown>> BY DEF DeleteRefused, rowVars
<1> QED BY <1>1, SameNames, Ending, StandingStill

\* A placeholder has no map.
LEMMA DeletePlaceholderHolds ==
    ASSUME KInv, NEW p \in Threads, DeletePlaceholder(p) \/ DeleteStops(p)
    PROVE  Held' /\ MapIsKept'
<1>1. Ends(p) /\ live' \subseteq live /\ UNCHANGED shown
  BY DEF DeletePlaceholder, DeleteStops, rowVars
<1>2. PICK D : Gone(D) /\ \A d \in D : "map" \notin files[d]
  BY DEF DeletePlaceholder, DeleteStops, Untouched, Bare, Dir
<1>3. KeepsNames /\ MapIsKept' BY <1>1, <1>2, Removing, RemovingStands
<1> QED BY <1>1, <1>3, Ending

\* The files that a deletion unlinks are those of its own topic, which it gives up.
LEMMA DeleteFilesHolds ==
    ASSUME KInv, NEW p \in Threads, DeleteFiles(p) PROVE Held' /\ MapIsKept'
<1>1. /\ UNCHANGED <<live, place, hold, topics>> /\ Goto(p, "dRemove") /\ pc[p] \in Deleting
      /\ files' = [files EXCEPT ![Dir(p)] = @ \ {"map", "owner"}] /\ shown' = shown \ {The(p)}
  BY DEF DeleteFiles, rowVars, jobVars, Deleting
<1>2. Held' BY <1>1, Stepping DEF KInv, Held, Opened
<1>3. \A d \in Dirs : d # Dir(p) => files'[d] = files[d]
  BY <1>1 DEF KInv, IInv, TypeOK
<1>4. MapIsKept'
  <2>1. ASSUME NEW t \in live' \cap shown, t \in shown', NEW d \in Dirs, "map" \in files[d], Named(d, t)
        PROVE  "map" \in files'[d] /\ Named(d, t)'
    <3>1. t \in Topics /\ t # The(p) BY <1>1, <2>1 DEF KInv, IInv, TypeOK
    <3>2. d # Dir(p) BY <1>1, <2>1, <3>1, DeletesItsOwn
    <3> QED BY <1>1, <1>3, <2>1, <3>2 DEF Named
  <2> QED BY <1>1, <2>1, Standing
<1> QED BY <1>2, <1>4

LEMMA DeleteDirHolds == ASSUME KInv, NEW p \in Threads, DeleteDir(p) PROVE Held' /\ MapIsKept'
<1>1. /\ UNCHANGED <<live, shown, hold, topics>> /\ Goto(p, "dRow") /\ pc[p] \in Deleting
      /\ Gone({Dir(p)}) /\ "map" \notin files[Dir(p)]
  BY DEF DeleteDir, Bare, rowVars, jobVars, Deleting
<1>2. \A d \in {Dir(p)} \cap Dirs : "map" \notin files[d] BY <1>1
<1>3. KeepsNames /\ MapIsKept' BY <1>1, <1>2, Removing, RemovingStands
<1>4. LetsGo BY <1>1, <1>3 DEF LetsGo
<1>5. hold'[p][The(p)'] # None
  <2>1. The(p)' = The(p) BY <1>1 DEF The
  <2> QED BY <1>1, <2>1 DEF KInv, Held, Opened
<1>6. \A q \in Threads : pc'[q] = IF q = p THEN "dRow" ELSE pc[q]
  BY <1>1 DEF Goto, KInv, IInv, TypeOK
<1>7. Opened' /\ CleansTheGone'
  <2>1. \A q \in Threads : The(q)' = The(q) BY <1>1 DEF The
  <2> QED BY <1>1, <1>6, <2>1 DEF KInv, Held, Opened, CleansTheGone
<1> QED BY <1>3, <1>4, <1>7, LettingGo DEF Held

\* A deletion that is undone publishes the map again before it says so.
LEMMA DeleteUndoneHolds ==
    ASSUME KInv, NEW p \in Threads, DeleteUndone(p) PROVE Held' /\ MapIsKept'
<1>1. Ends(p) /\ UNCHANGED <<live, place>> /\ pc[p] \in Deleting
  BY DEF DeleteUndone, rowVars, Deleting
<1>2. PICK t \in Topics, d \in Dirs : t = The(p) /\ d = Dir(p) BY <1>1, DeletesItsOwn
<1>3. CASE Name(Dir(p), "visible", The(p))
  <2>1. files' = [files EXCEPT ![d] = @ \cup Whole] /\ shown' = shown \cup {t}
    BY <1>2, <1>3 DEF DeleteUndone
  <2>2. "map" \in files'[d] /\ \A e \in Dirs : "map" \in files[e] => "map" \in files'[e]
    BY <1>2, <2>1 DEF KInv, IInv, TypeOK, Whole
  <2>3. MapsOf(t)' # {} BY <1>1, <1>2, <1>3, <2>2 DEF MapsOf, Name
  <2>4. MapIsKept' BY <1>1, <2>1, <2>2, <2>3, Standing DEF Named
  <2> QED BY <1>1, <2>4, SameNames, Ending
<1>4. CASE UNCHANGED <<files, shown>>
  BY <1>1, <1>4, SameNames, Ending, StandingStill
<1> QED BY <1>3, <1>4 DEF DeleteUndone

LEMMA DeleteRowHolds == ASSUME KInv, NEW p \in Threads, DeleteRow(p) PROVE Held' /\ MapIsKept'
<1>1. Ends(p) /\ live' \subseteq live /\ UNCHANGED <<place, files, shown>> BY DEF DeleteRow
<1> QED BY <1>1, SameNames, Ending, StandingStill

\* The directory that is made again takes an inode that nobody holds.
LEMMA DeleteRowFailsHolds ==
    ASSUME KInv, NEW p \in Threads, DeleteRowFails(p) PROVE Held' /\ MapIsKept'
<1>1. Ends(p) /\ UNCHANGED live /\ pc[p] \in Deleting BY DEF DeleteRowFails, rowVars, Deleting
<1>2. PICK t \in Topics : t = The(p) BY <1>1, DeletesItsOwn
<1>3. CASE Here(The(p)) = {}
  <2>1. PICK d \in Free : /\ place' = [place EXCEPT ![d] = <<"visible", t>>]
                          /\ files' = [files EXCEPT ![d] = Whole]
    BY <1>2, <1>3 DEF DeleteRowFails
  <2>2. shown' = shown \cup {t} BY <1>2, <1>3 DEF DeleteRowFails
  <2>3. d \in Dirs /\ \A u \in Topics : ~Named(d, u) BY Names DEF Free, Named
  <2>4. /\ place'[d] = <<"visible", t>> /\ files'[d] = Whole
        /\ \A e \in Dirs : e # d => place'[e] = place[e] /\ files'[e] = files[e]
    BY <2>1, <2>3 DEF KInv, IInv, TypeOK
  <2>5. KeepsNames
    <3>1. \A q \in Threads, u \in Topics : hold[q][u] # None => hold[q][u] \in Dirs /\ hold[q][u] # d
      BY HoldsDirs DEF Free, KInv
    <3> QED BY <2>4, <3>1 DEF KeepsNames, KInv, Held, HeldForTopic
  <2>6. MapsOf(t)' # {} BY <2>3, <2>4 DEF MapsOf, Name, Whole
  <2>7. MapIsKept'
    <3>1. live \subseteq Topics BY DEF KInv, IInv, TypeOK
    <3> QED BY <1>1, <2>2, <2>3, <2>4, <2>6, <3>1, Standing DEF Named
  <2> QED BY <1>1, <2>5, <2>7, Ending
<1>4. CASE UNCHANGED <<place, files, shown>>
  BY <1>1, <1>4, SameNames, Ending, StandingStill
<1> QED BY <1>3, <1>4 DEF DeleteRowFails

-----------------------------------------------------------------------------
LEMMA UserWritesHolds == ASSUME KInv, NEW d \in Dirs, UserWrites(d) PROVE Held' /\ MapIsKept'
<1>1. UNCHANGED <<live, shown, place, hold, topics, pc>> BY DEF UserWrites, rowVars, jobVars
<1>2. \A e \in Dirs : "map" \in files[e] => "map" \in files'[e]
  BY DEF UserWrites, Add, KInv, IInv, TypeOK
<1>3. LetsGo BY <1>1, SameNames DEF LetsGo
<1>4. Opened' /\ CleansTheGone' BY <1>1 DEF KInv, Held, Opened, CleansTheGone, The
<1> QED BY <1>1, <1>2, <1>3, <1>4, LettingGo, StandingStill DEF Held

LEMMA StopsHolds == ASSUME KInv, Stops PROVE Held'
<1>1. LetsGo BY SameNames DEF Stops, LetsGo, NoDirs
<1>2. Opened' /\ CleansTheGone' BY DEF Stops, Opened, CleansTheGone, Deleting
<1> QED BY <1>1, <1>2, LettingGo DEF Held

LEMMA CrashHolds == ASSUME KInv, Crash PROVE Held' /\ MapIsKept'
BY StopsHolds, StandingStill DEF Crash, Stops, rowVars

\* A removal that is struck gives up the map of the topic it was removing only.
LEMMA CrashRemovingHolds ==
    ASSUME KInv, NEW p \in Threads, NEW t \in Topics, CrashRemoving(p, t)
    PROVE  Held' /\ MapIsKept'
<1>1. /\ Stops /\ UNCHANGED <<live, place>> /\ shown' = shown \ {t} /\ hold[p][t] # None
      /\ \A d \in Dirs : d # hold[p][t] => files'[d] = files[d]
  BY DEF CrashRemoving, Stops, rowVars, KInv, IInv, TypeOK
<1>2. MapIsKept'
  <2>1. ASSUME NEW u \in live' \cap shown, u \in shown', NEW d \in Dirs, "map" \in files[d], Named(d, u)
        PROVE  "map" \in files'[d] /\ Named(d, u)'
    <3>1. u \in Topics /\ u # t BY <1>1, <2>1 DEF KInv, IInv, TypeOK
    <3>2. place[d] # None BY <2>1, <3>1, Names DEF Named
    <3>3. d # hold[p][t]
      BY <1>1, <2>1, <3>1, <3>2, OneTopic DEF KInv, Held, HeldForTopic, NamesOf, Named
    <3> QED BY <1>1, <2>1, <3>3 DEF Named
  <2> QED BY <1>1, <2>1, Standing
<1> QED BY <1>1, <1>2, StopsHolds

LEMMA MapStarts == ASSUME Init PROVE KInv
<1>1. IInv BY Starts
<1>2. Held BY DEF Init, NoDirs, Held, HeldForTopic, HeldForOne, Opened, CleansTheGone, Deleting
<1>3. MapIsKept BY DEF Init, MapIsKept
<1> QED BY <1>1, <1>2, <1>3 DEF KInv

LEMMA MapSteps == ASSUME KInv, [Next]_vars PROVE KInv'
<1>0. IInv' BY Steps DEF KInv
<1>1. CASE \E p \in Threads :
            \/ \E t \in Topics : BeginSync(p, t) \/ BeginDelete(p, t) \/ CrashRemoving(p, t)
            \/ \E S \in SUBSET Topics : BeginMerge(p, S)
  BY <1>0, <1>1, BeginSyncHolds, BeginDeleteHolds, CrashRemovingHolds, BeginMergeHolds DEF KInv
<1>2. CASE \E p \in Threads : \/ Rename(p) \/ RenameFails(p) \/ OpenDir(p) \/ Own(p)
                              \/ NotOwned(p) \/ Commit(p) \/ CommitFails(p)
  BY <1>0, <1>2, RenameHolds, SyncFailsHolds, OpenDirHolds, OwnHolds, CommitHolds,
     CommitFailsHolds DEF KInv
<1>3. CASE \E p \in Threads :
            \/ Take(p) \/ TakeLockFile(p) \/ NoLockFile(p) \/ Flock(p) \/ Check(p)
            \/ Protected(p) \/ Detach(p) \/ Merge(p) \/ MergeFails(p) \/ Clean(p) \/ Leave(p)
  BY <1>0, <1>3, TakeHolds, TakeLockFileHolds, NoLockFileHolds, MergeWaitsHolds, DetachHolds,
     MergeHolds, MergeFailsHolds, CleanHolds, LeaveHolds DEF KInv
<1>4. CASE \E p \in Threads :
            \/ DeleteLock(p) \/ DeleteRefused(p) \/ DeleteFlock(p) \/ DeleteCheck(p)
            \/ DeletePlaceholder(p) \/ DeleteStops(p) \/ DeleteFiles(p) \/ DeleteDir(p)
            \/ DeleteUndone(p) \/ DeleteRow(p) \/ DeleteRowFails(p)
  BY <1>0, <1>4, DeleteWaitsHolds, DeleteRefusedHolds, DeletePlaceholderHolds, DeleteFilesHolds,
     DeleteDirHolds, DeleteUndoneHolds, DeleteRowHolds, DeleteRowFailsHolds DEF KInv
<1>5. CASE \E d \in Dirs : UserWrites(d) BY <1>0, <1>5, UserWritesHolds DEF KInv
<1>6. CASE OtherMerge \/ Crash BY <1>0, <1>6, OtherMergeHolds, CrashHolds DEF KInv
<1>7. CASE UNCHANGED vars
  BY <1>0, <1>7 DEF vars, rowVars, fileVars, jobVars, KInv, Held, HeldForTopic, HeldForOne,
     Opened, CleansTheGone, The, MapIsKept, MapsOf, Name
<1> QED BY <1>1, <1>2, <1>3, <1>4, <1>5, <1>6, <1>7 DEF Next

-----------------------------------------------------------------------------
\* The state always has the types that TypeOK says (topic_markdown_sync.py).
THEOREM TypeCorrect == Spec => []TypeOK
<1>1. Init => IInv BY Starts
<1>2. IInv /\ [Next]_vars => IInv' BY Steps
<1>3. IInv => TypeOK BY DEF IInv
<1> QED BY <1>1, <1>2, <1>3, PTL DEF Spec

\* A file of the user stays where he put it, and its directory with it, whatever is
\* synchronised, merged, deleted, cleaned up or struck meanwhile
\* (_remove_detached_topic_directory, _remove_created_placeholder, delete_unpublished_topic).
THEOREM UserFilesStay == Spec => UserFileStands
<1> DEFINE Stands == \A d \in Dirs : "user" \in files[d] => "user" \in files'[d] /\ place'[d] # None
<1>1. Init => IInv BY Starts
<1>2. IInv /\ [Next]_vars => IInv' BY Steps
<1>3. IInv /\ [Next]_vars => [Stands]_vars BY Steps
<1> QED BY <1>1, <1>2, <1>3, PTL DEF Spec, UserFileStands

\* The map of a topic that has a row and was published is on disk under a name of the
\* topic, through merges that fail or are struck and synchronisations meanwhile: a
\* request never changes, through an inode it opened earlier, the directory of
\* another topic, and removes whole directories of topics without a row only
\* (merge_unpublished_topics, delete_unpublished_topic, migrate_generated_directory).
THEOREM PublishedMapStays == Spec => []MapIsKept
<1>1. Init => KInv BY MapStarts
<1>2. KInv /\ [Next]_vars => KInv' BY MapSteps
<1>3. KInv => MapIsKept BY DEF KInv
<1> QED BY <1>1, <1>2, <1>3, PTL DEF Spec

-----------------------------------------------------------------------------
(* Tasks *)

Working == {"extract", "section", "interpret", "complete", "merge", "receipt"}
Copying == {"open pictures", "copy pictures", "write texts", "publish", "commit", "verify",
            "withdraw"}

\* Where p holds the lock of the task it is about.
Locked == Copying \cup Working \cup {"promote", "report"} \cup K!ResumeSteps \cup K!PurgeSteps
Holding(p) == step[p] \in Locked \/ (step[p] = "look" /\ store = "service")

\* Where p is with what it does.
Placed(p) ==
    /\ op[p] = "resume" => step[p] \in {"idle", "lock", "leave"} \cup K!ResumeSteps \cup Working
    /\ op[p] = "purge" => step[p] \in {"idle", "lock", "leave"} \cup K!PurgeSteps
    /\ op[p] = "parse" => step[p] \in {"idle", "lock"} \cup K!ParseSteps
    /\ step[p] # "idle" => at[p] \in Tasks /\ store \in {"service", "commands"}
    /\ step[p] \in Copying => store = "service"
    /\ step[p] \in {"lock hit", "reuse"} => store = "commands"
    /\ step[p] \in Copying \cup {"lock hit", "reuse"} => hit[p] \in Tasks
    /\ store = "commands" /\ hit[p] \in Tasks => step[p] \in {"lock hit", "reuse", "leave"}

\* The locks it has.
HasLocks(p) ==
    /\ Holding(p) => lock[at[p]] = p
    /\ step[p] = "reuse" => lock[hit[p]] = p
    /\ step[p] = "leave" /\ store = "commands" /\ hit[p] \in Tasks => lock[hit[p]] = p

\* The row of its task.
KnowsRow(p) ==
    /\ step[p] \in Working \cup {"assess", "reset"} => row[at[p]] \notin K!NoRow
    /\ step[p] \in Working \cup {"reset"} => row[at[p]] # "COMPLETED"
    /\ store = "service" /\ op[p] = "parse" /\ step[p] # "idle" => row[at[p]] \notin K!NoRow

\* The directory of its task.
KnowsDirectory(p) ==
    /\ step[p] \in {"section", "interpret", "complete", "merge"} => dir[at[p]].there
    /\ step[p] \in {"interpret", "complete", "merge"} => dir[at[p]].text
    /\ step[p] \in {"complete", "merge"} => dir[at[p]].ai > 0
    /\ step[p] \in {"receipt", "commit", "verify"} => K!WholeDocument(dir[at[p]])
    /\ step[p] \in {"erase", "drop"} => ~dir[at[p]].there

\* What it stages.
KnowsStaging(p) ==
    /\ step[p] \in {"open pictures", "copy pictures", "write texts"} =>
            staging[at[p]].there /\ read[p] > 0
    /\ step[p] = "write texts" => (staging[at[p]].picture <=> ~cut[p])
    /\ step[p] = "publish" => K!WholeDocument(staging[at[p]])

\* Pictures are cut short only when their directory has gone for good.
CutIsGone(p) ==
    cut[p] => /\ step[p] \in {"copy pictures", "write texts"} /\ ~dir[hit[p]].there
              /\ \/ row[hit[p]] = "purged"
                 \/ \E q \in Procs : step[q] = "drop" /\ at[q] = hit[p]

ClaimKept(p) ==
    op[p] = "resume" /\ step[p] \in (K!ResumeSteps \cup K!ParseSteps) \ {"claim", "leave"} =>
        owner[at[p]] = p /\ lock[at[p]] = p

AnswerTrue(p) ==
    step[p] = "leave" /\ op[p] = "parse" /\ hit[p] \in Tasks /\ store = "commands" =>
        row[hit[p]] = "COMPLETED" /\ K!WholeDocument(dir[hit[p]])

SoundProc(p) ==
    /\ Placed(p) /\ HasLocks(p) /\ KnowsRow(p) /\ KnowsDirectory(p) /\ KnowsStaging(p)
    /\ CutIsGone(p) /\ ClaimKept(p) /\ AnswerTrue(p)

SoundTask(t) ==
    /\ dir[t].there => dir[t].picture /\ row[t] \notin K!NoRow
    /\ row[t] = "COMPLETED" => K!WholeDocument(dir[t]) \/ ~dir[t].there

\* The service has one process for a task.
Alone ==
    store = "service" => \A p, q \in Procs :
        p # q /\ step[p] # "idle" /\ step[q] # "idle" => at[p] # at[q]

StoreInv ==
    /\ K!TypeOK /\ Alone
    /\ \A p \in Procs : SoundProc(p)
    /\ \A t \in Tasks : SoundTask(t)

-----------------------------------------------------------------------------
(* What a step of a process leaves alone *)

\* Rows and directories are those of the task whose lock p holds, claims also
\* those of a task that nobody has locked; a purge cuts short who copies from it.
Frame(p) ==
    /\ store' = store
    /\ \A q \in Procs \ {p} :
        /\ step'[q] = step[q] /\ op'[q] = op[q] /\ at'[q] = at[q] /\ hit'[q] = hit[q]
        /\ read'[q] = read[q]
        /\ \/ cut'[q] = cut[q]
           \/ /\ step[q] = "copy pictures" /\ hit[q] = at[p] /\ at'[p] = at[p]
              /\ step'[p] = "drop" /\ Holding(p) /\ ~dir'[at[p]].there
    /\ \A t \in Tasks :
        \/ Holding(p) /\ t = at[p]
        \/ /\ row'[t] = row[t] /\ dir'[t] = dir[t] /\ staging'[t] = staging[t]
           /\ owner'[t] = owner[t] \/ lock[t] = None
    /\ \A t \in Tasks : lock'[t] = lock[t] \/ lock[t] \in {p, None}
    /\ \A t \in Tasks :
        row[t] = "purged" => row'[t] = "purged" /\ (~dir[t].there => ~dir'[t].there)
    /\ step[p] = "drop" /\ store = "service" =>
        /\ ~dir'[at[p]].there
        /\ row'[at[p]] = "purged" \/ (step'[p] = "drop" /\ at'[p] = at[p])

LEMMA OthersStand ==
    ASSUME K!StoreAssumption, StoreInv, NEW p \in Procs, Frame(p), NEW q \in Procs \ {p}
    PROVE  SoundProc(q)'
<1>1. SoundProc(p) /\ SoundProc(q) /\ None \notin Procs /\ None \notin Tasks
  BY DEF StoreInv, K!StoreAssumption
<1>2. /\ step'[q] = step[q] /\ op'[q] = op[q] /\ at'[q] = at[q] /\ hit'[q] = hit[q]
      /\ read'[q] = read[q] /\ store' = store
  BY DEF Frame
<1>3. Holding(p) => lock[at[p]] = p /\ step[p] # "idle"
  BY <1>1 DEF SoundProc, HasLocks, Holding, Locked, Copying, Working, K!ResumeSteps, K!PurgeSteps
<1>4. step[q] # "idle" => at[q] \in Tasks BY <1>1 DEF SoundProc, Placed
<1>5. Holding(q) => step[q] # "idle" /\ lock[at[q]] = q
  BY <1>1 DEF SoundProc, HasLocks, Holding, Locked, Copying, Working, K!ResumeSteps, K!PurgeSteps
<1>6. \A t \in Tasks : lock[t] = q =>
          /\ lock'[t] = q /\ row'[t] = row[t] /\ dir'[t] = dir[t]
          /\ staging'[t] = staging[t] /\ owner'[t] = owner[t]
  <2> SUFFICES ASSUME NEW t \in Tasks, lock[t] = q
               PROVE  /\ lock'[t] = q /\ row'[t] = row[t] /\ dir'[t] = dir[t]
                      /\ staging'[t] = staging[t] /\ owner'[t] = owner[t]
    OBVIOUS
  <2>1. ~(Holding(p) /\ t = at[p]) /\ lock[t] \notin {p, None} BY <1>1, <1>3
  <2> QED BY <2>1 DEF Frame
<1>7. Holding(q) =>
          /\ lock'[at[q]] = q /\ row'[at[q]] = row[at[q]] /\ dir'[at[q]] = dir[at[q]]
          /\ staging'[at[q]] = staging[at[q]] /\ owner'[at[q]] = owner[at[q]]
  BY <1>4, <1>5, <1>6
<1>8. Placed(q)' BY <1>1, <1>2 DEF SoundProc, Placed
<1>9. HasLocks(q)'
  <2>1. Holding(q)' <=> Holding(q) BY <1>2 DEF Holding
  <2>2. step[q] = "reuse" => hit[q] \in Tasks BY <1>1 DEF SoundProc, Placed
  <2> QED BY <1>1, <1>2, <1>6, <1>7, <2>1, <2>2 DEF SoundProc, HasLocks
<1>10. KnowsRow(q)'
  <2>1. step[q] \in Working \cup {"assess", "reset"} => Holding(q)
    BY DEF Holding, Locked, K!ResumeSteps
  <2>2. store = "service" /\ op[q] = "parse" /\ step[q] # "idle" => row'[at[q]] = row[at[q]]
    <3>1. store = "service" /\ step[q] # "idle" /\ step[p] # "idle" => at[p] # at[q]
      BY DEF StoreInv, Alone
    <3> QED BY <1>3, <1>4, <3>1 DEF Frame
  <2> QED BY <1>1, <1>2, <1>7, <2>1, <2>2 DEF SoundProc, KnowsRow
<1>11. KnowsDirectory(q)'
  <2>1. step[q] \in {"section", "interpret", "complete", "merge", "receipt", "commit", "verify",
                     "erase", "drop"} => Holding(q)
    BY DEF Holding, Locked, Working, Copying, K!PurgeSteps
  <2> QED BY <1>1, <1>2, <1>7, <2>1 DEF SoundProc, KnowsDirectory, K!WholeDocument, K!Rendered
<1>12. KnowsStaging(q)'
  <2>1. step[q] \in {"open pictures", "copy pictures", "write texts", "publish"} => Holding(q)
    BY DEF Holding, Locked, Copying
  <2>2. step[q] = "write texts" => cut'[q] = cut[q] BY DEF Frame
  <2> QED BY <1>1, <1>2, <1>7, <2>1, <2>2 DEF SoundProc, KnowsStaging, K!WholeDocument, K!Rendered
<1>13. CutIsGone(q)'
  <2>1. CASE cut'[q] /\ cut[q]
    <3>1. step[q] \in {"copy pictures", "write texts"} /\ ~dir[hit[q]].there
      BY <1>1, <2>1 DEF SoundProc, CutIsGone
    <3>2. hit[q] \in Tasks BY <1>1, <3>1 DEF SoundProc, Placed, Copying
    <3>5. store = "service" BY <1>1, <3>1 DEF SoundProc, Placed, Copying
    <3>3. CASE row[hit[q]] = "purged"
      <4>1. row'[hit[q]] = "purged" /\ ~dir'[hit[q]].there BY <3>1, <3>2, <3>3 DEF Frame
      <4> QED BY <1>2, <3>1, <4>1 DEF CutIsGone
    <3>4. CASE \E r \in Procs : step[r] = "drop" /\ at[r] = hit[q]
      <4>1. PICK r \in Procs : step[r] = "drop" /\ at[r] = hit[q] BY <3>4
      <4>2. CASE r = p
        <5>1. /\ ~dir'[hit[q]].there
              /\ row'[hit[q]] = "purged" \/ (step'[p] = "drop" /\ at'[p] = hit[q])
          BY <3>5, <4>1, <4>2 DEF Frame
        <5> QED BY <1>2, <3>1, <5>1 DEF CutIsGone
      <4>3. CASE r # p
        <5>1. SoundProc(r) BY DEF StoreInv
        <5>2. lock[hit[q]] = r
          BY <4>1, <5>1 DEF SoundProc, HasLocks, Holding, Locked, K!PurgeSteps
        <5>3. dir'[hit[q]] = dir[hit[q]] BY <1>3, <3>2, <4>3, <5>2 DEF Frame
        <5>4. step'[r] = "drop" /\ at'[r] = hit'[q] BY <1>2, <4>1, <4>3 DEF Frame
        <5> QED BY <1>2, <3>1, <5>3, <5>4 DEF CutIsGone
      <4> QED BY <4>2, <4>3
    <3> QED BY <1>1, <2>1, <3>3, <3>4 DEF SoundProc, CutIsGone
  <2>2. CASE cut'[q] /\ ~cut[q]
    <3>1. /\ step[q] = "copy pictures" /\ hit[q] = at[p] /\ at'[p] = at[p]
          /\ step'[p] = "drop" /\ ~dir'[at[p]].there
      BY <2>2 DEF Frame
    <3> QED BY <1>2, <3>1 DEF CutIsGone
  <2> QED BY <2>1, <2>2 DEF CutIsGone
<1>14. ClaimKept(q)'
  <2>1. op[q] = "resume" /\ step[q] \in (K!ResumeSteps \cup K!ParseSteps) \ {"claim", "leave"}
          => lock[at[q]] = q /\ at[q] \in Tasks
    BY <1>1 DEF SoundProc, ClaimKept, Placed, K!ResumeSteps, K!ParseSteps
  <2> QED BY <1>1, <1>2, <1>6, <2>1 DEF SoundProc, ClaimKept
<1>15. AnswerTrue(q)'
  BY <1>1, <1>2, <1>6 DEF SoundProc, AnswerTrue, HasLocks, K!WholeDocument, K!Rendered
<1> QED BY <1>8, <1>9, <1>10, <1>11, <1>12, <1>13, <1>14, <1>15 DEF SoundProc

LEMMA TaskStands ==
    ASSUME NEW t \in Tasks, SoundTask(t), row'[t] = row[t], dir'[t] = dir[t]
    PROVE  SoundTask(t)'
BY DEF SoundTask, K!WholeDocument, K!Rendered

\* A step of p keeps the invariant if it stays within its frame, and what p and
\* its task promise holds after it.
LEMMA StepStands ==
    ASSUME K!StoreAssumption, StoreInv, NEW p \in Procs, Frame(p), K!TypeOK', SoundProc(p)',
           \A t \in Tasks : Holding(p) /\ t = at[p] => SoundTask(t)',
           step'[p] = "idle" \/ (step[p] # "idle" /\ at'[p] = at[p])
    PROVE  StoreInv'
<1>1. \A q \in Procs : SoundProc(q)' BY OthersStand
<1>2. \A t \in Tasks : SoundTask(t)' BY TaskStands DEF StoreInv, Frame
<1>3. Alone'
  <2> SUFFICES ASSUME store' = "service", NEW q \in Procs, NEW r \in Procs, q # r,
                      step'[q] # "idle", step'[r] # "idle"
               PROVE  at'[q] # at'[r]
    BY DEF Alone
  <2>1. ASSUME NEW x \in Procs, step'[x] # "idle" PROVE step[x] # "idle" /\ at'[x] = at[x]
    <3>1. CASE x = p BY <2>1, <3>1
    <3>2. CASE x # p BY <2>1, <3>2 DEF Frame
    <3> QED BY <3>1, <3>2
  <2>2. step[q] # "idle" /\ step[r] # "idle" /\ at'[q] = at[q] /\ at'[r] = at[r] BY <2>1
  <2>3. store = "service" BY DEF Frame
  <2> QED BY <2>2, <2>3 DEF StoreInv, Alone
<1> QED BY <1>1, <1>2, <1>3 DEF StoreInv

-----------------------------------------------------------------------------
(* The parse proper: _run_registered_parse, also under the claim of a resume *)

Document == [there : BOOLEAN, text : BOOLEAN, picture : BOOLEAN, ai : 0..MaxCalls,
             merged : 0..MaxCalls]

LEMMA DirTyped ==
    ASSUME K!TypeOK
    PROVE  dir \in [Tasks -> Document] /\ staging \in [Tasks -> Document]
BY DEF K!TypeOK, Document

LEMMA AtTask ==
    ASSUME StoreInv, NEW p \in Procs, Holding(p)
    PROVE  /\ SoundProc(p) /\ step[p] # "idle" /\ at[p] \in Tasks /\ lock[at[p]] = p
           /\ SoundTask(at[p])
<1>1. SoundProc(p) BY DEF StoreInv
<1>2. step[p] # "idle"
  BY DEF Holding, Locked, Copying, Working, K!ResumeSteps, K!PurgeSteps
<1>3. at[p] \in Tasks BY <1>1, <1>2 DEF SoundProc, Placed
<1>4. lock[at[p]] = p BY <1>1 DEF SoundProc, HasLocks
<1> QED BY <1>1, <1>2, <1>3, <1>4 DEF StoreInv

\* The claim is its own, so that no fenced write is refused.
LEMMA WriteGoes ==
    ASSUME StoreInv, NEW p \in Procs, step[p] \in Working \cup {"assess", "reset"},
           NEW s, NEW w, K!Writes(p, s, w)
    PROVE  row' = [row EXCEPT ![at[p]] = s] /\ step' = [step EXCEPT ![p] = w]
<1>1. SoundProc(p) BY DEF StoreInv
<1>2. op[p] = "resume" => owner[at[p]] = p
  BY <1>1 DEF SoundProc, ClaimKept, Working, K!ResumeSteps, K!ParseSteps
<1> QED BY <1>2 DEF K!Writes, K!Status, K!Go

\* A step of the parse, or of the resume before it, which writes the row and the
\* directory of its task.
LEMMA WorkStands ==
    ASSUME K!StoreAssumption, StoreInv, NEW p \in Procs,
           step[p] \in Working \cup {"assess", "reset"},
           UNCHANGED <<store, owner, lock, staging, K!place>>,
           NEW w \in Working \cup {"reset", "release", "leave"},
           step' = [step EXCEPT ![p] = w],
           w \in {"reset", "release"} => op[p] = "resume",
           NEW s \in (K!Statuses \cup K!Terminal), row' = [row EXCEPT ![at[p]] = s],
           w \in Working \cup {"reset"} => s # "COMPLETED",
           \A t \in Tasks \ {at[p]} : dir'[t] = dir[t],
           KnowsDirectory(p)', K!TypeOK', \A t \in Tasks : t = at[p] => SoundTask(t)'
    PROVE  StoreInv'
<1>1. Holding(p) BY DEF Holding, Locked, K!ResumeSteps
<1>2. /\ SoundProc(p) /\ step[p] # "idle" /\ at[p] \in Tasks /\ lock[at[p]] = p
      /\ SoundTask(at[p])
  BY <1>1, AtTask
<1>3. step'[p] = w /\ row'[at[p]] = s /\ s \notin K!NoRow
  BY <1>2 DEF StoreInv, K!TypeOK, K!Statuses, K!Terminal, K!NoRow
<1>4. row[at[p]] # "purged" BY <1>2 DEF SoundProc, KnowsRow, K!NoRow
<1>5. step[p] # "drop" /\ step[p] \notin {"copy pictures", "write texts"}
  BY DEF Working
<1>6. Frame(p)
  <2>1. \A q \in Procs \ {p} : step'[q] = step[q] BY DEF StoreInv, K!TypeOK
  <2>2. \A t \in Tasks \ {at[p]} : row'[t] = row[t] BY DEF StoreInv, K!TypeOK
  <2> QED BY <1>1, <1>4, <1>5, <2>1, <2>2 DEF Frame, K!place
<1>7. UNCHANGED <<op, at, hit, cut, read, store, lock, owner>> BY DEF K!place
<1>8. Placed(p)'
  BY <1>2, <1>3, <1>7 DEF SoundProc, Placed, Working, Copying, K!ResumeSteps, K!PurgeSteps,
      K!ParseSteps
<1>9. HasLocks(p)'
  <2>1. w = "leave" /\ store = "commands" => hit[p] \notin Tasks
    BY <1>2 DEF SoundProc, Placed, Working
  <2> QED BY <1>2, <1>3, <1>7, <2>1 DEF HasLocks, Working
<1>10. KnowsRow(p)' BY <1>2, <1>3, <1>7 DEF KnowsRow, Working
<1>11. KnowsStaging(p)' BY <1>3 DEF KnowsStaging, Working
<1>12. CutIsGone(p)' BY <1>2, <1>5, <1>7 DEF SoundProc, CutIsGone
<1>13. ClaimKept(p)'
  <2>1. op[p] = "resume" => owner[at[p]] = p
    BY <1>2 DEF SoundProc, ClaimKept, Working, K!ResumeSteps, K!ParseSteps
  <2> QED BY <1>2, <1>7, <2>1 DEF ClaimKept
<1>14. AnswerTrue(p)'
  <2>1. store = "commands" => hit[p] \notin Tasks BY <1>2 DEF SoundProc, Placed, Working
  <2> QED BY <1>7, <2>1 DEF AnswerTrue
<1>15. SoundProc(p)' BY <1>8, <1>9, <1>10, <1>11, <1>12, <1>13, <1>14 DEF SoundProc
<1> QED BY <1>2, <1>6, <1>7, <1>15, StepStands

LEMMA ExtractKeeps ==
    ASSUME K!StoreAssumption, StoreInv, NEW p \in Procs, K!Extract(p) PROVE StoreInv'
<1>1. step[p] = "extract" /\ step[p] \in Working \cup {"assess", "reset"}
  BY DEF K!Extract, Working
<1>2. row' = [row EXCEPT ![at[p]] = "SECTIONING"] /\ step' = [step EXCEPT ![p] = "section"]
  BY <1>1, WriteGoes DEF K!Extract
<1>3. at[p] \in Tasks /\ SoundTask(at[p]) BY <1>1, AtTask DEF Holding, Locked, K!ResumeSteps
<1>4. dir \in [Tasks -> Document] BY DirTyped DEF StoreInv
<1>5. dir' = [dir EXCEPT ![at[p]] = [@ EXCEPT !.there = TRUE, !.picture = TRUE]]
  BY <1>3, <1>4 DEF K!Extract, Document
<1>6. K!TypeOK'
  <2>1. dir' \in [Tasks -> Document] BY <1>3, <1>4, <1>5 DEF Document
  <2> QED BY <1>2, <2>1 DEF StoreInv, K!TypeOK, K!Extract, K!Statuses, K!ParseSteps, K!place,
      Document
<1>7. KnowsDirectory(p)'
  BY <1>2, <1>3, <1>4, <1>5 DEF K!Extract, KnowsDirectory, K!place, StoreInv, K!TypeOK, Document
<1>8. \A t \in Tasks : t = at[p] => SoundTask(t)'
  BY <1>2, <1>3, <1>4, <1>5 DEF SoundTask, StoreInv, K!TypeOK, Document, K!NoRow
<1>9. \A t \in Tasks \ {at[p]} : dir'[t] = dir[t] BY <1>4, <1>5
<1>10. "section" \in Working /\ "SECTIONING" \in K!Statuses BY DEF Working, K!Statuses
<1>11. UNCHANGED <<store, owner, lock, staging, K!place>> BY DEF K!Extract
<1>12. "section" \notin {"reset", "release"} /\ "SECTIONING" # "COMPLETED" OBVIOUS
<1> QED BY <1>1, <1>2, <1>6, <1>7, <1>8, <1>9, <1>10, <1>11, <1>12, WorkStands

LEMMA SectionKeeps ==
    ASSUME K!StoreAssumption, StoreInv, NEW p \in Procs, K!Section(p) PROVE StoreInv'
<1>1. step[p] = "section" /\ step[p] \in Working \cup {"assess", "reset"}
  BY DEF K!Section, Working
<1>2. row' = [row EXCEPT ![at[p]] = "LLM_RUNNING"] /\ step' = [step EXCEPT ![p] = "interpret"]
  BY <1>1, WriteGoes DEF K!Section
<1>3. at[p] \in Tasks /\ SoundTask(at[p]) /\ SoundProc(p)
  BY <1>1, AtTask DEF Holding, Locked, K!ResumeSteps
<1>4. dir \in [Tasks -> Document] BY DirTyped DEF StoreInv
<1>5. dir' = [dir EXCEPT ![at[p]] = [@ EXCEPT !.text = TRUE]]
  BY <1>3, <1>4 DEF K!Section, Document
<1>6. K!TypeOK'
  <2>1. dir' \in [Tasks -> Document] BY <1>3, <1>4, <1>5 DEF Document
  <2> QED BY <1>2, <2>1 DEF StoreInv, K!TypeOK, K!Section, K!Statuses, K!ParseSteps, K!place,
      Document
<1>7. KnowsDirectory(p)'
  BY <1>1, <1>2, <1>3, <1>4, <1>5
  DEF K!Section, SoundProc, KnowsDirectory, K!place, StoreInv, K!TypeOK, Document
<1>8. \A t \in Tasks : t = at[p] => SoundTask(t)'
  BY <1>2, <1>3, <1>4, <1>5 DEF SoundTask, StoreInv, K!TypeOK, Document, K!NoRow
<1>9. \A t \in Tasks \ {at[p]} : dir'[t] = dir[t] BY <1>4, <1>5
<1>10. "interpret" \in Working /\ "LLM_RUNNING" \in K!Statuses BY DEF Working, K!Statuses
<1>11. UNCHANGED <<store, owner, lock, staging, K!place>> BY DEF K!Section
<1>12. "interpret" \notin {"reset", "release"} /\ "LLM_RUNNING" # "COMPLETED" OBVIOUS
<1> QED BY <1>1, <1>2, <1>6, <1>7, <1>8, <1>9, <1>10, <1>11, <1>12, WorkStands

\* The row of a task whose status does not change.
LEMMA RowStays ==
    ASSUME StoreInv, NEW p \in Procs, Holding(p), row[at[p]] \notin K!NoRow, row' = row
    PROVE  row[at[p]] \in K!Statuses \cup K!Terminal /\ row' = [row EXCEPT ![at[p]] = row[at[p]]]
<1>1. at[p] \in Tasks BY AtTask
<1> QED BY <1>1 DEF StoreInv, K!TypeOK

LEMMA InterpretKeeps ==
    ASSUME K!StoreAssumption, StoreInv, NEW p \in Procs, K!Interpret(p) PROVE StoreInv'
<1>1. /\ step[p] = "interpret" /\ step[p] \in Working \cup {"assess", "reset"}
      /\ step' = [step EXCEPT ![p] = "complete"] /\ row' = row
  BY DEF K!Interpret, Working, K!Go, K!rows
<1>2. Holding(p) BY <1>1 DEF Holding, Locked, Working
<1>3. at[p] \in Tasks /\ SoundTask(at[p]) /\ SoundProc(p) BY <1>2, AtTask
<1>4. dir \in [Tasks -> Document] BY DirTyped DEF StoreInv
<1>5. calls' \in 0..MaxCalls /\ calls' > 0 BY DEF K!Interpret, K!StoreAssumption, StoreInv,
    K!TypeOK
<1>6. dir' = [dir EXCEPT ![at[p]] = [@ EXCEPT !.ai = calls', !.there = TRUE]]
  BY <1>3, <1>4 DEF K!Interpret, Document
<1>7. row[at[p]] \notin K!NoRow /\ row[at[p]] # "COMPLETED"
  BY <1>1, <1>3 DEF SoundProc, KnowsRow, Working
<1>8. row[at[p]] \in K!Statuses \cup K!Terminal /\ row' = [row EXCEPT ![at[p]] = row[at[p]]]
  BY <1>1, <1>2, <1>7, RowStays
<1>9. K!TypeOK'
  <2>1. dir' \in [Tasks -> Document] BY <1>3, <1>4, <1>5, <1>6 DEF Document
  <2> QED BY <1>1, <1>5, <2>1
          DEF StoreInv, K!TypeOK, K!Interpret, K!ParseSteps, K!rows, K!place, Document
<1>10. KnowsDirectory(p)'
  <2>1. dir[at[p]].text BY <1>1, <1>3 DEF SoundProc, KnowsDirectory
  <2>2. dir'[at[p]].there /\ dir'[at[p]].text /\ dir'[at[p]].ai > 0
    BY <1>3, <1>4, <1>5, <1>6, <2>1 DEF Document
  <2> QED BY <1>1, <2>2 DEF K!Interpret, KnowsDirectory, K!place, StoreInv, K!TypeOK
<1>11. \A t \in Tasks : t = at[p] => SoundTask(t)'
  <2>1. dir[at[p]].there BY <1>1, <1>3 DEF SoundProc, KnowsDirectory
  <2> QED BY <1>1, <1>3, <1>4, <1>6, <1>7, <2>1 DEF SoundTask, Document
<1>12. \A t \in Tasks \ {at[p]} : dir'[t] = dir[t] BY <1>4, <1>6
<1>13. "complete" \in Working BY DEF Working
<1>14. UNCHANGED <<store, owner, lock, staging, K!place>> BY DEF K!Interpret, K!rows
<1>15. "complete" \notin {"reset", "release"} OBVIOUS
<1> QED BY <1>1, <1>7, <1>8, <1>9, <1>10, <1>11, <1>12, <1>13, <1>14, <1>15, WorkStands

LEMMA CompleteKeeps ==
    ASSUME K!StoreAssumption, StoreInv, NEW p \in Procs, K!Complete(p) PROVE StoreInv'
<1>1. step[p] = "complete" /\ step[p] \in Working \cup {"assess", "reset"} /\ dir' = dir
  BY DEF K!Complete, Working, K!files
<1>2. row' = [row EXCEPT ![at[p]] = "MERGING"] /\ step' = [step EXCEPT ![p] = "merge"]
  BY <1>1, WriteGoes DEF K!Complete
<1>3. at[p] \in Tasks /\ SoundTask(at[p]) /\ SoundProc(p)
  BY <1>1, AtTask DEF Holding, Locked, K!ResumeSteps
<1>4. K!TypeOK'
  BY <1>1, <1>2 DEF StoreInv, K!TypeOK, K!Complete, K!Statuses, K!ParseSteps, K!files, K!place
<1>5. KnowsDirectory(p)'
  BY <1>1, <1>2, <1>3 DEF K!Complete, SoundProc, KnowsDirectory, K!place, StoreInv, K!TypeOK
<1>6. \A t \in Tasks : t = at[p] => SoundTask(t)'
  BY <1>1, <1>2, <1>3 DEF SoundTask, StoreInv, K!TypeOK, K!NoRow
<1>7. "merge" \in Working /\ "MERGING" \in K!Statuses BY DEF Working, K!Statuses
<1>8. UNCHANGED <<store, owner, lock, staging, K!place>> BY DEF K!Complete, K!files
<1>9. "merge" \notin {"reset", "release"} /\ "MERGING" # "COMPLETED" OBVIOUS
<1> QED BY <1>1, <1>2, <1>4, <1>5, <1>6, <1>7, <1>8, <1>9, WorkStands

LEMMA TaskMergeKeeps ==
    ASSUME K!StoreAssumption, StoreInv, NEW p \in Procs, K!Merge(p) PROVE StoreInv'
<1>1. /\ step[p] = "merge" /\ step[p] \in Working \cup {"assess", "reset"}
      /\ step' = [step EXCEPT ![p] = "receipt"] /\ row' = row
  BY DEF K!Merge, Working, K!Go, K!rows
<1>2. Holding(p) BY <1>1 DEF Holding, Locked, Working
<1>3. at[p] \in Tasks /\ SoundTask(at[p]) /\ SoundProc(p) BY <1>2, AtTask
<1>4. dir \in [Tasks -> Document] BY DirTyped DEF StoreInv
<1>5. dir' = [dir EXCEPT ![at[p]] = [@ EXCEPT !.merged = dir[at[p]].ai]]
  BY <1>3, <1>4 DEF K!Merge, Document
<1>6. row[at[p]] \notin K!NoRow /\ row[at[p]] # "COMPLETED"
  BY <1>1, <1>3 DEF SoundProc, KnowsRow, Working
<1>7. row[at[p]] \in K!Statuses \cup K!Terminal /\ row' = [row EXCEPT ![at[p]] = row[at[p]]]
  BY <1>1, <1>2, <1>6, RowStays
<1>8. K!TypeOK'
  <2>1. dir' \in [Tasks -> Document] BY <1>3, <1>4, <1>5 DEF Document
  <2> QED BY <1>1, <2>1 DEF StoreInv, K!TypeOK, K!Merge, K!ParseSteps, K!rows, K!place, Document
<1>9. K!WholeDocument(dir[at[p]])'
  <2>1. dir[at[p]].there /\ dir[at[p]].text /\ dir[at[p]].ai > 0 /\ dir[at[p]].picture
    BY <1>1, <1>3 DEF SoundProc, KnowsDirectory, SoundTask
  <2>2. at' = at BY DEF K!Merge, K!place
  <2> QED BY <1>3, <1>4, <1>5, <2>1, <2>2 DEF K!WholeDocument, K!Rendered, Document
<1>10. KnowsDirectory(p)' BY <1>1, <1>9 DEF KnowsDirectory, StoreInv, K!TypeOK
<1>11. \A t \in Tasks : t = at[p] => SoundTask(t)'
  BY <1>1, <1>3, <1>4, <1>5, <1>6 DEF SoundTask, Document
<1>12. \A t \in Tasks \ {at[p]} : dir'[t] = dir[t] BY <1>4, <1>5
<1>13. "receipt" \in Working BY DEF Working
<1>14. UNCHANGED <<store, owner, lock, staging, K!place>> BY DEF K!Merge, K!rows
<1>15. "receipt" \notin {"reset", "release"} OBVIOUS
<1> QED BY <1>1, <1>6, <1>7, <1>8, <1>10, <1>11, <1>12, <1>13, <1>14, <1>15, WorkStands

\* A write that ends the parse, or the assessment of a resume.
LEMMA EndKeeps ==
    ASSUME K!StoreAssumption, StoreInv, NEW p \in Procs,
           step[p] \in Working \cup {"assess", "reset"},
           NEW w \in {"release", "leave"}, w = "release" <=> op[p] = "resume",
           NEW s \in {"COMPLETED", "FAILED"}, K!Writes(p, s, w),
           s = "COMPLETED" => K!WholeDocument(dir[at[p]]),
           UNCHANGED <<store, sections, owner, gen, dir, staging, lock, K!place, calls>>,
           snapshot' \in [Tasks -> BOOLEAN], faults' \in 0..MaxFaults
    PROVE  StoreInv'
<1>1. row' = [row EXCEPT ![at[p]] = s] /\ step' = [step EXCEPT ![p] = w] BY WriteGoes
<1>2. at[p] \in Tasks /\ SoundTask(at[p]) BY AtTask DEF Holding, Locked, K!ResumeSteps
<1>3. s \in K!Statuses \cup K!Terminal BY DEF K!Terminal
<1>4. K!TypeOK'
  BY <1>1, <1>3 DEF StoreInv, K!TypeOK, K!ParseSteps, K!ResumeSteps, K!place
<1>5. KnowsDirectory(p)' BY <1>1 DEF KnowsDirectory, StoreInv, K!TypeOK
<1>6. \A t \in Tasks : t = at[p] => SoundTask(t)'
  BY <1>1, <1>2 DEF SoundTask, StoreInv, K!TypeOK, K!NoRow, K!WholeDocument, K!Rendered
<1>7. w \notin Working \cup {"reset"} /\ w \in Working \cup {"reset", "release", "leave"}
  BY DEF Working
<1>8. UNCHANGED <<store, owner, lock, staging, K!place>> OBVIOUS
<1>9. \A t \in Tasks \ {at[p]} : dir'[t] = dir[t] OBVIOUS
<1> QED BY <1>1, <1>3, <1>4, <1>5, <1>6, <1>7, <1>8, <1>9, WorkStands

LEMMA ReceiptKeeps ==
    ASSUME K!StoreAssumption, StoreInv, NEW p \in Procs, K!Receipt(p) PROVE StoreInv'
<1>1. step[p] = "receipt" /\ step[p] \in Working BY DEF K!Receipt, Working
<1>2. K!WholeDocument(dir[at[p]]) BY <1>1 DEF StoreInv, SoundProc, KnowsDirectory
<1>3. snapshot' \in [Tasks -> BOOLEAN] /\ faults' \in 0..MaxFaults
  BY DEF StoreInv, K!TypeOK, K!Receipt
<1>4. UNCHANGED <<store, sections, owner, gen, dir, staging, lock, K!place, calls>>
  BY DEF K!Receipt
<1>5. CASE op[p] = "resume"
  <2>1. K!Writes(p, "COMPLETED", "release") BY <1>5 DEF K!Receipt
  <2> QED BY <1>1, <1>2, <1>3, <1>4, <1>5, <2>1, EndKeeps
<1>6. CASE op[p] # "resume"
  <2>1. K!Writes(p, "COMPLETED", "leave") BY <1>6 DEF K!Receipt
  <2> QED BY <1>1, <1>2, <1>3, <1>4, <1>6, <2>1, EndKeeps
<1> QED BY <1>5, <1>6

LEMMA FailKeeps ==
    ASSUME K!StoreAssumption, StoreInv, NEW p \in Procs, K!Fail(p) PROVE StoreInv'
<1>1. step[p] \in Working BY DEF K!Fail, Working
<1>2. snapshot' \in [Tasks -> BOOLEAN] /\ faults' \in 0..MaxFaults
  BY DEF StoreInv, K!TypeOK, K!Fail, K!files, K!StoreAssumption
<1>3. UNCHANGED <<store, sections, owner, gen, dir, staging, lock, K!place, calls>>
  BY DEF K!Fail, K!files
<1>4. CASE op[p] = "resume"
  <2>1. K!Writes(p, "FAILED", "release") BY <1>4 DEF K!Fail
  <2> QED BY <1>1, <1>2, <1>3, <1>4, <2>1, EndKeeps
<1>5. CASE op[p] # "resume"
  <2>1. K!Writes(p, "FAILED", "leave") BY <1>5 DEF K!Fail
  <2> QED BY <1>1, <1>2, <1>3, <1>5, <2>1, EndKeeps
<1> QED BY <1>4, <1>5

\* A step of the assessment, which leaves the directory alone.
LEMMA AssessGoes ==
    ASSUME K!StoreAssumption, StoreInv, NEW p \in Procs, step[p] = "assess",
           UNCHANGED <<store, sections, owner, gen, K!files, lock, K!place, calls, faults>>,
           NEW w \in {"reset", "release", "merge", "interpret"},
           step' = [step EXCEPT ![p] = w],
           NEW s \in (K!Statuses \cup K!Terminal), row' = [row EXCEPT ![at[p]] = s],
           w # "release" => s # "COMPLETED", s = "COMPLETED" => row' = row,
           w \in {"merge", "interpret"} => dir[at[p]].there /\ dir[at[p]].text,
           w = "merge" => dir[at[p]].ai > 0
    PROVE  StoreInv'
<1>1. SoundProc(p) /\ at[p] \in Tasks /\ SoundTask(at[p])
  BY AtTask DEF Holding, Locked, K!ResumeSteps
<1>2. op[p] = "resume"
  BY <1>1 DEF SoundProc, Placed, K!ParseSteps, K!PurgeSteps, StoreInv, K!TypeOK
<1>3. UNCHANGED <<store, owner, lock, staging, K!place>> /\ dir' = dir BY DEF K!files
<1>4. K!TypeOK'
  <2>1. w \in {"idle", "lock"} \cup K!ParseSteps \cup K!ResumeSteps \cup K!PurgeSteps
    BY DEF K!ParseSteps, K!ResumeSteps
  <2>2. step' \in [Procs -> {"idle", "lock"} \cup K!ParseSteps \cup K!ResumeSteps \cup K!PurgeSteps]
    BY <2>1 DEF StoreInv, K!TypeOK
  <2>3. row' \in [Tasks -> K!Statuses \cup K!Terminal \cup K!NoRow] BY DEF StoreInv, K!TypeOK
  <2> QED BY <2>2, <2>3 DEF StoreInv, K!TypeOK, K!files, K!place
<1>5. KnowsDirectory(p)'
  <2>1. step'[p] = w /\ at' = at BY DEF StoreInv, K!TypeOK, K!place
  <2> QED BY <1>3, <2>1 DEF KnowsDirectory
<1>6. \A t \in Tasks : t = at[p] => SoundTask(t)'
  <2>1. CASE s = "COMPLETED" BY <1>1, <1>3, <2>1, TaskStands
  <2>2. CASE s # "COMPLETED"
    <3>1. row'[at[p]] = s /\ s \notin K!NoRow
      BY <1>1 DEF StoreInv, K!TypeOK, K!Statuses, K!Terminal, K!NoRow
    <3> QED BY <1>1, <1>3, <2>2, <3>1 DEF SoundTask
  <2> QED BY <2>1, <2>2
<1>7. w \in Working \cup {"reset", "release", "leave"} /\ (w \in Working => w # "release")
  BY DEF Working
<1>8. step[p] \in Working \cup {"assess", "reset"} OBVIOUS
<1> QED BY <1>2, <1>3, <1>4, <1>5, <1>6, <1>7, <1>8, WorkStands

LEMMA AssessKeeps ==
    ASSUME K!StoreAssumption, StoreInv, NEW p \in Procs, K!Assess(p) PROVE StoreInv'
<1>1. step[p] = "assess" /\ Holding(p) BY DEF K!Assess, Holding, Locked, K!ResumeSteps
<1>2. SoundProc(p) BY DEF StoreInv
<1>3. row[at[p]] \notin K!NoRow BY <1>1, <1>2 DEF SoundProc, KnowsRow
<1>4. UNCHANGED <<store, sections, owner, gen, K!files, lock, K!place, calls, faults>> BY DEF K!Assess
<1>5. CASE ~K!Trusted(at[p])
  <2>1. K!Writes(p, "PARSING", "reset") BY <1>5 DEF K!Assess
  <2>2. row' = [row EXCEPT ![at[p]] = "PARSING"] /\ step' = [step EXCEPT ![p] = "reset"]
    BY <1>1, <2>1, WriteGoes
  <2>3. "PARSING" \in K!Statuses BY DEF K!Statuses
  <2> QED BY <1>1, <1>4, <2>2, <2>3, AssessGoes
<1>6. CASE K!Trusted(at[p]) /\ sections[at[p]] = "done" /\ dir[at[p]].ai > 0
                          /\ row[at[p]] = "COMPLETED"
  <2>1. step' = [step EXCEPT ![p] = "release"] /\ row' = row BY <1>6 DEF K!Assess, K!Go
  <2>2. /\ row[at[p]] \in K!Statuses \cup K!Terminal
        /\ row' = [row EXCEPT ![at[p]] = row[at[p]]]
    BY <1>1, <1>3, <2>1, RowStays
  <2> QED BY <1>1, <1>4, <2>1, <2>2, AssessGoes
<1>7. CASE K!Trusted(at[p]) /\ sections[at[p]] = "done" /\ dir[at[p]].ai > 0
                          /\ row[at[p]] # "COMPLETED"
  <2>1. K!Writes(p, "MERGING", "merge") BY <1>7 DEF K!Assess
  <2>2. row' = [row EXCEPT ![at[p]] = "MERGING"] /\ step' = [step EXCEPT ![p] = "merge"]
    BY <1>1, <2>1, WriteGoes
  <2>3. "MERGING" \in K!Statuses BY DEF K!Statuses
  <2>4. dir[at[p]].there /\ dir[at[p]].text BY <1>7 DEF K!Trusted
  <2> QED BY <1>1, <1>4, <1>7, <2>2, <2>3, <2>4, AssessGoes
<1>8. CASE K!Trusted(at[p]) /\ ~(sections[at[p]] = "done" /\ dir[at[p]].ai > 0)
  <2>1. K!Writes(p, "LLM_RUNNING", "interpret") BY <1>8 DEF K!Assess
  <2>2. row' = [row EXCEPT ![at[p]] = "LLM_RUNNING"] /\ step' = [step EXCEPT ![p] = "interpret"]
    BY <1>1, <2>1, WriteGoes
  <2>3. "LLM_RUNNING" \in K!Statuses BY DEF K!Statuses
  <2>4. dir[at[p]].there /\ dir[at[p]].text BY <1>8 DEF K!Trusted
  <2> QED BY <1>1, <1>4, <2>2, <2>3, <2>4, AssessGoes
<1> QED BY <1>5, <1>6, <1>7, <1>8

LEMMA ResetKeeps ==
    ASSUME K!StoreAssumption, StoreInv, NEW p \in Procs, K!Reset(p) PROVE StoreInv'
<1>1. step[p] = "reset" /\ Holding(p) BY DEF K!Reset, Holding, Locked, K!ResumeSteps
<1>2. SoundProc(p) /\ at[p] \in Tasks /\ SoundTask(at[p]) BY <1>1, AtTask
<1>3. op[p] = "resume"
  BY <1>1, <1>2 DEF SoundProc, Placed, K!ParseSteps, K!PurgeSteps, StoreInv, K!TypeOK
<1>4. row[at[p]] \notin K!NoRow /\ row[at[p]] # "COMPLETED"
  BY <1>1, <1>2 DEF SoundProc, KnowsRow
<1>5. CASE snapshot[at[p]]
  <2>1. /\ dir' = [dir EXCEPT ![at[p]] = K!NoDir] /\ row' = row
        /\ step' = [step EXCEPT ![p] = "extract"]
    BY <1>5 DEF K!Reset, K!Go
  <2>2. dir \in [Tasks -> Document] BY DirTyped DEF StoreInv
  <2>3. row[at[p]] \in K!Statuses \cup K!Terminal /\ row' = [row EXCEPT ![at[p]] = row[at[p]]]
    BY <1>1, <1>4, <2>1, RowStays
  <2>4. K!TypeOK'
    <3>1. K!NoDir \in Document BY DEF K!NoDir, Document, K!StoreAssumption
    <3>2. dir' \in [Tasks -> Document] BY <2>1, <2>2, <3>1
    <3> QED BY <2>1, <3>2 DEF StoreInv, K!TypeOK, K!Reset, K!ParseSteps, K!place, Document
  <2>5. KnowsDirectory(p)' BY <2>1 DEF KnowsDirectory, StoreInv, K!TypeOK
  <2>6. \A t \in Tasks : t = at[p] => SoundTask(t)'
    BY <1>2, <1>4, <2>1, <2>2 DEF SoundTask, K!NoDir
  <2>7. \A t \in Tasks \ {at[p]} : dir'[t] = dir[t] BY <2>1, <2>2
  <2>8. "extract" \in Working /\ step[p] \in Working \cup {"assess", "reset"}
    BY <1>1 DEF Working
  <2>9. UNCHANGED <<store, owner, lock, staging, K!place>> BY DEF K!Reset
  <2>10. "extract" \notin {"reset", "release"} OBVIOUS
  <2> QED BY <1>4, <2>1, <2>3, <2>4, <2>5, <2>6, <2>7, <2>8, <2>9, <2>10, WorkStands
<1>6. CASE ~snapshot[at[p]]
  <2>1. K!Writes(p, "FAILED", "release") BY <1>6 DEF K!Reset
  <2>2. UNCHANGED <<store, sections, owner, gen, dir, staging, lock, K!place, calls>>
    BY <1>6 DEF K!Reset
  <2>3. snapshot' \in [Tasks -> BOOLEAN] /\ faults' \in 0..MaxFaults
    BY DEF K!Reset, StoreInv, K!TypeOK
  <2> QED BY <1>1, <1>3, <2>1, <2>2, <2>3, EndKeeps
<1> QED BY <1>5, <1>6

-----------------------------------------------------------------------------
(* The cache of documents, and the start of the parse proper *)

\* A step of a parse that has the lock of its task and keeps it.
LEMMA CopyStands ==
    ASSUME K!StoreAssumption, StoreInv, NEW p \in Procs, Holding(p),
           step[p] \in Copying \cup {"look", "promote"},
           UNCHANGED <<store, owner, lock, op, at>>,
           NEW w \in Copying \cup {"promote", "report", "leave", "extract"},
           step' = [step EXCEPT ![p] = w],
           w \in Copying => store = "service" /\ hit'[p] \in Tasks,
           store = "service" \/ hit' = hit,
           NEW s, row' = [row EXCEPT ![at[p]] = s],
           store = "service" \/ w = "extract" => s \notin K!NoRow,
           w = "extract" => s # "COMPLETED",
           row[at[p]] = "purged" => row' = row /\ dir' = dir,
           \A t \in Tasks \ {at[p]} : dir'[t] = dir[t] /\ staging'[t] = staging[t],
           \A q \in Procs \ {p} : hit'[q] = hit[q] /\ cut'[q] = cut[q] /\ read'[q] = read[q],
           KnowsDirectory(p)', KnowsStaging(p)', CutIsGone(p)', K!TypeOK',
           \A t \in Tasks : t = at[p] => SoundTask(t)'
    PROVE  StoreInv'
<1>1. /\ SoundProc(p) /\ step[p] # "idle" /\ at[p] \in Tasks /\ lock[at[p]] = p
      /\ SoundTask(at[p])
  BY AtTask
<1>2. step'[p] = w /\ row'[at[p]] = s BY <1>1 DEF StoreInv, K!TypeOK
<1>3. op[p] = "parse"
  BY <1>1 DEF SoundProc, Placed, Copying, Working, K!ResumeSteps, K!PurgeSteps, StoreInv, K!TypeOK
<1>4. store = "commands" => hit[p] \notin Tasks
  BY <1>1 DEF SoundProc, Placed, Copying, Holding, Locked, Working, K!ResumeSteps, K!PurgeSteps
<1>5. Frame(p)
  <2>1. \A q \in Procs \ {p} : step'[q] = step[q] BY DEF StoreInv, K!TypeOK
  <2>2. \A t \in Tasks \ {at[p]} : row'[t] = row[t] BY DEF StoreInv, K!TypeOK
  <2>3. step[p] # "drop" BY DEF Copying
  <2> QED BY <1>1, <2>1, <2>2, <2>3 DEF Frame
<1>6. Placed(p)'
  BY <1>1, <1>2, <1>3, <1>4 DEF SoundProc, Placed, Copying, K!ParseSteps, K!ResumeSteps, Working
<1>7. HasLocks(p)'
  <2>1. w # "reuse" BY DEF Copying
  <2> QED BY <1>1, <1>2, <1>4, <2>1 DEF HasLocks
<1>8. KnowsRow(p)' BY <1>2 DEF KnowsRow, Working, Copying
<1>9. ClaimKept(p)' BY <1>3 DEF ClaimKept
<1>10. AnswerTrue(p)' BY <1>2, <1>4 DEF AnswerTrue
<1>11. SoundProc(p)' BY <1>6, <1>7, <1>8, <1>9, <1>10 DEF SoundProc
<1> QED BY <1>1, <1>5, <1>11, StepStands

LEMMA CopyHere ==
    ASSUME StoreInv, NEW p \in Procs, step[p] \in Copying
    PROVE  /\ Holding(p) /\ SoundProc(p) /\ store = "service" /\ op[p] = "parse"
           /\ at[p] \in Tasks /\ hit[p] \in Tasks /\ SoundTask(at[p])
           /\ row[at[p]] \in K!Statuses \cup K!Terminal
<1>1. Holding(p) /\ step[p] # "idle" BY DEF Holding, Locked, Copying
<1>2. SoundProc(p) /\ at[p] \in Tasks /\ SoundTask(at[p]) BY <1>1, AtTask
<1>3. store = "service" /\ hit[p] \in Tasks BY <1>2 DEF SoundProc, Placed
<1>4. op[p] = "parse"
  BY <1>2 DEF SoundProc, Placed, Copying, Working, K!ResumeSteps, K!PurgeSteps, StoreInv, K!TypeOK
<1>5. row[at[p]] \notin K!NoRow BY <1>1, <1>2, <1>3, <1>4 DEF SoundProc, KnowsRow
<1> QED BY <1>1, <1>2, <1>3, <1>4, <1>5 DEF StoreInv, K!TypeOK

\* A step of the copy which leaves rows and directories alone.
LEMMA StageStands ==
    ASSUME K!StoreAssumption, StoreInv, NEW p \in Procs, step[p] \in Copying,
           UNCHANGED <<store, K!rows, snapshot, dir, lock, op, at, hit, seen, read, calls, faults>>,
           NEW w \in Copying \cup {"promote"}, step' = [step EXCEPT ![p] = w],
           NEW d \in Document, staging' = [staging EXCEPT ![at[p]] = d],
           cut' = cut \/ cut' = [cut EXCEPT ![p] = FALSE],
           w \notin {"receipt", "commit", "verify"},
           KnowsStaging(p)', CutIsGone(p)'
    PROVE  StoreInv'
<1>1. /\ Holding(p) /\ SoundProc(p) /\ store = "service" /\ op[p] = "parse"
      /\ at[p] \in Tasks /\ hit[p] \in Tasks /\ SoundTask(at[p])
      /\ row[at[p]] \in K!Statuses \cup K!Terminal
  BY CopyHere
<1>2. row' = row /\ owner' = owner /\ sections' = sections /\ gen' = gen BY DEF K!rows
<1>3. row' = [row EXCEPT ![at[p]] = row[at[p]]] /\ row[at[p]] \notin K!NoRow
  BY <1>1, <1>2 DEF StoreInv, K!TypeOK, K!NoRow, K!Statuses, K!Terminal
<1>4. staging \in [Tasks -> Document] BY DirTyped DEF StoreInv
<1>5. K!TypeOK'
  <2>1. staging' \in [Tasks -> Document] BY <1>4
  <2>2. cut' \in [Procs -> BOOLEAN] BY DEF StoreInv, K!TypeOK
  <2>3. w \in K!ParseSteps BY DEF Copying, K!ParseSteps
  <2>4. step' \in [Procs -> {"idle", "lock"} \cup K!ParseSteps \cup K!ResumeSteps \cup K!PurgeSteps]
    BY <2>3 DEF StoreInv, K!TypeOK
  <2> QED BY <1>2, <2>1, <2>2, <2>4 DEF StoreInv, K!TypeOK, Document
<1>6. step'[p] = w BY DEF StoreInv, K!TypeOK
<1>7. KnowsDirectory(p)' BY <1>6 DEF KnowsDirectory, Copying
<1>8. \A t \in Tasks : t = at[p] => SoundTask(t)' BY <1>1, <1>2, TaskStands
<1>9. \A t \in Tasks \ {at[p]} : dir'[t] = dir[t] /\ staging'[t] = staging[t] BY <1>4
<1>10. \A q \in Procs \ {p} : hit'[q] = hit[q] /\ cut'[q] = cut[q] /\ read'[q] = read[q]
  BY DEF StoreInv, K!TypeOK
<1>11. w # "extract" /\ hit'[p] \in Tasks BY <1>1 DEF Copying
<1>12. w \in Copying \cup {"promote", "report", "leave", "extract"} OBVIOUS
<1> QED BY <1>1, <1>2, <1>3, <1>5, <1>7, <1>8, <1>9, <1>10, <1>11, <1>12, CopyStands

\* The copy is given up, and the task will be parsed.
LEMMA UnstageStands ==
    ASSUME K!StoreAssumption, StoreInv, NEW p \in Procs, step[p] \in Copying, K!Unstage(p),
           UNCHANGED <<store, K!rows, snapshot, dir, lock, op, at, hit, seen, read, calls, faults>>
    PROVE  StoreInv'
<1>1. K!NoDir \in Document BY DEF K!NoDir, Document, K!StoreAssumption
<1>2. step' = [step EXCEPT ![p] = "promote"] /\ cut' = [cut EXCEPT ![p] = FALSE]
  BY DEF K!Unstage, K!Go
<1>3. step'[p] = "promote" /\ ~cut'[p] BY <1>2 DEF StoreInv, K!TypeOK
<1>4. KnowsStaging(p)' BY <1>3 DEF KnowsStaging
<1>5. CutIsGone(p)' BY <1>3 DEF CutIsGone
<1>6. staging' = [staging EXCEPT ![at[p]] = K!NoDir] BY DEF K!Unstage
<1>7. "promote" \notin {"receipt", "commit", "verify"} OBVIOUS
<1> QED BY <1>1, <1>2, <1>4, <1>5, <1>6, <1>7, StageStands

LEMMA OpenPicturesKeeps ==
    ASSUME K!StoreAssumption, StoreInv, NEW p \in Procs, K!OpenPictures(p) PROVE StoreInv'
<1>1. step[p] = "open pictures" /\ step[p] \in Copying BY DEF K!OpenPictures, Copying
<1>2. UNCHANGED <<store, K!rows, snapshot, dir, lock, op, at, hit, seen, read, calls, faults>>
  BY DEF K!OpenPictures
<1>3. CASE K!Unstage(p) BY <1>1, <1>2, <1>3, UnstageStands
<1>4. CASE K!Go(p, "copy pictures") /\ UNCHANGED <<staging, cut>>
  <2>1. at[p] \in Tasks /\ SoundProc(p) BY <1>1, CopyHere
  <2>2. staging[at[p]] \in Document /\ staging' = [staging EXCEPT ![at[p]] = staging[at[p]]]
    BY <1>4, <2>1, DirTyped DEF StoreInv
  <2>3. step' = [step EXCEPT ![p] = "copy pictures"] BY <1>4 DEF K!Go
  <2>4. step'[p] = "copy pictures" BY <2>3 DEF StoreInv, K!TypeOK
  <2>5. KnowsStaging(p)' BY <1>1, <1>2, <1>4, <2>1, <2>4 DEF SoundProc, KnowsStaging
  <2>6. CutIsGone(p)' BY <1>1, <1>4, <2>1 DEF SoundProc, CutIsGone
  <2>7. "copy pictures" \in Copying \cup {"promote"} BY DEF Copying
  <2>8. "copy pictures" \notin {"receipt", "commit", "verify"} OBVIOUS
  <2> QED BY <1>1, <1>2, <1>4, <2>2, <2>3, <2>5, <2>6, <2>7, <2>8, StageStands
<1> QED BY <1>3, <1>4 DEF K!OpenPictures

LEMMA CopyPicturesKeeps ==
    ASSUME K!StoreAssumption, StoreInv, NEW p \in Procs, K!CopyPictures(p) PROVE StoreInv'
<1>1. step[p] = "copy pictures" /\ step[p] \in Copying BY DEF K!CopyPictures, Copying
<1>2. UNCHANGED <<store, K!rows, snapshot, dir, lock, K!place, calls, faults>> BY DEF K!CopyPictures
<1>3. at[p] \in Tasks /\ SoundProc(p) BY <1>1, CopyHere
<1>4. staging \in [Tasks -> Document] /\ cut[p] \in BOOLEAN BY DirTyped DEF StoreInv, K!TypeOK
<1> DEFINE d == [staging[at[p]] EXCEPT !.picture = ~cut[p]]
<1>5. staging' = [staging EXCEPT ![at[p]] = d] /\ d \in Document
  BY <1>3, <1>4 DEF K!CopyPictures, Document
<1>6. step' = [step EXCEPT ![p] = "write texts"] BY DEF K!CopyPictures, K!Go
<1>7. step'[p] = "write texts" BY <1>6 DEF StoreInv, K!TypeOK
<1>8. KnowsStaging(p)'
  BY <1>1, <1>2, <1>3, <1>4, <1>5, <1>7 DEF SoundProc, KnowsStaging, Document, K!place
<1>9. CutIsGone(p)'
  <2>1. \A q \in Procs : step[q] = "drop" /\ at[q] = hit[p] => step'[q] = "drop"
    BY <1>1, <1>6 DEF StoreInv, K!TypeOK
  <2>2. row' = row /\ UNCHANGED <<cut, at, hit, dir>> BY <1>2 DEF K!rows, K!place
  <2> QED BY <1>3, <1>7, <2>1, <2>2 DEF SoundProc, CutIsGone
<1>10. "write texts" \in Copying \cup {"promote"} BY DEF Copying
<1>11. "write texts" \notin {"receipt", "commit", "verify"} OBVIOUS
<1>12. UNCHANGED <<op, at, hit, seen, read>> /\ cut' = cut BY <1>2 DEF K!place
<1> HIDE DEF d
<1> QED BY <1>1, <1>2, <1>5, <1>6, <1>8, <1>9, <1>10, <1>11, <1>12, StageStands

LEMMA WriteTextsKeeps ==
    ASSUME K!StoreAssumption, StoreInv, NEW p \in Procs, K!WriteTexts(p) PROVE StoreInv'
<1>1. step[p] = "write texts" /\ step[p] \in Copying BY DEF K!WriteTexts, Copying
<1>2. UNCHANGED <<store, K!rows, snapshot, dir, lock, op, at, hit, seen, read, calls, faults>>
  BY DEF K!WriteTexts
<1>3. CASE ~K!LinksResolve(hit[p])
  <2>1. K!Unstage(p) BY <1>3 DEF K!WriteTexts
  <2> QED BY <1>1, <1>2, <2>1, UnstageStands
<1>4. CASE K!LinksResolve(hit[p])
  <2>1. at[p] \in Tasks /\ SoundProc(p) BY <1>1, CopyHere
  <2>2. staging \in [Tasks -> Document] /\ read[p] \in 0..MaxCalls BY DirTyped DEF StoreInv,
      K!TypeOK
  <2> DEFINE d == [staging[at[p]] EXCEPT !.text = TRUE, !.ai = read[p], !.merged = read[p]]
  <2>3. staging' = [staging EXCEPT ![at[p]] = d] /\ d \in Document
    BY <1>4, <2>1, <2>2 DEF K!WriteTexts, Document
  <2>4. step' = [step EXCEPT ![p] = "publish"] /\ cut' = cut BY <1>4 DEF K!WriteTexts, K!Go
  <2>5. step'[p] = "publish" BY <2>4 DEF StoreInv, K!TypeOK
  <2>6. ~cut[p] BY <1>4, <2>1 DEF SoundProc, CutIsGone, K!LinksResolve
  <2>7. KnowsStaging(p)'
    <3>1. staging[at[p]].there /\ read[p] > 0 /\ staging[at[p]].picture
      BY <1>1, <2>1, <2>6 DEF SoundProc, KnowsStaging
    <3>2. K!WholeDocument(d) BY <2>1, <2>2, <3>1 DEF K!WholeDocument, K!Rendered, Document
    <3>3. staging'[at'[p]] = d BY <1>2, <2>1, <2>2, <2>3
    <3> QED BY <2>5, <3>2, <3>3 DEF KnowsStaging, K!WholeDocument, K!Rendered
  <2>8. CutIsGone(p)' BY <2>4, <2>6 DEF CutIsGone
  <2>9. "publish" \in Copying \cup {"promote"} BY DEF Copying
  <2>10. "publish" \notin {"receipt", "commit", "verify"} OBVIOUS
  <2> HIDE DEF d
  <2> QED BY <1>1, <1>2, <2>3, <2>4, <2>7, <2>8, <2>9, <2>10, StageStands
<1> QED BY <1>3, <1>4

LEMMA PublishKeeps ==
    ASSUME K!StoreAssumption, StoreInv, NEW p \in Procs, K!Publish(p) PROVE StoreInv'
<1>1. step[p] = "publish" /\ step[p] \in Copying BY DEF K!Publish, Copying
<1>2. /\ Holding(p) /\ SoundProc(p) /\ store = "service" /\ op[p] = "parse"
      /\ at[p] \in Tasks /\ hit[p] \in Tasks /\ SoundTask(at[p])
      /\ row[at[p]] \in K!Statuses \cup K!Terminal
  BY <1>1, CopyHere
<1>3. UNCHANGED <<store, owner, lock, op, at, hit, cut, read>> /\ row' = row
  BY DEF K!Publish, K!rows, K!place
<1>4. step' = [step EXCEPT ![p] = "commit"] /\ step'[p] = "commit"
  BY DEF K!Publish, K!Go, StoreInv, K!TypeOK
<1>5. row[at[p]] \notin K!NoRow /\ row' = [row EXCEPT ![at[p]] = row[at[p]]]
  BY <1>2, <1>3 DEF K!NoRow, K!Statuses, K!Terminal, StoreInv, K!TypeOK
<1>6. dir \in [Tasks -> Document] /\ staging \in [Tasks -> Document]
  BY DirTyped DEF StoreInv
<1>7. K!NoDir \in Document BY DEF K!NoDir, Document, K!StoreAssumption
<1>8. /\ dir' = [dir EXCEPT ![at[p]] = staging[at[p]]]
      /\ staging' = [staging EXCEPT ![at[p]] = K!NoDir]
  BY DEF K!Publish
<1>9. K!TypeOK'
  <2>1. dir' \in [Tasks -> Document] /\ staging' \in [Tasks -> Document]
    BY <1>2, <1>6, <1>7, <1>8
  <2> QED BY <1>4, <2>1 DEF StoreInv, K!TypeOK, K!Publish, K!ParseSteps, K!rows, K!place, Document
<1>10. K!WholeDocument(staging[at[p]]) /\ dir'[at[p]] = staging[at[p]]
  BY <1>1, <1>2, <1>6, <1>8 DEF SoundProc, KnowsStaging
<1>11. KnowsDirectory(p)' BY <1>3, <1>4, <1>10 DEF KnowsDirectory, K!WholeDocument, K!Rendered
<1>12. KnowsStaging(p)' BY <1>4 DEF KnowsStaging
<1>13. CutIsGone(p)' BY <1>1, <1>2, <1>3 DEF SoundProc, CutIsGone
<1>14. \A t \in Tasks : t = at[p] => SoundTask(t)'
  BY <1>3, <1>5, <1>10 DEF SoundTask, K!WholeDocument, K!Rendered
<1>15. \A t \in Tasks \ {at[p]} : dir'[t] = dir[t] /\ staging'[t] = staging[t]
  BY <1>6, <1>8
<1>16. row[at[p]] # "purged" BY <1>5 DEF K!NoRow
<1>17. "commit" \in Copying /\ "commit" # "extract" BY DEF Copying
<1> QED BY <1>1, <1>2, <1>3, <1>4, <1>5, <1>9, <1>11, <1>12, <1>13, <1>14, <1>15, <1>16,
           <1>17, CopyStands

\* A step of the copy that writes the row of its task.
LEMMA RowStands ==
    ASSUME K!StoreAssumption, StoreInv, NEW p \in Procs, step[p] \in {"commit", "verify"},
           UNCHANGED <<store, owner, gen, K!files, lock, K!place, calls>>,
           NEW w \in {"verify", "withdraw", "leave"}, step' = [step EXCEPT ![p] = w],
           NEW s \in K!Statuses \cup K!Terminal, row' = [row EXCEPT ![at[p]] = s],
           sections' \in [Tasks -> {"none", "pending", "done"}], faults' \in 0..MaxFaults
    PROVE  StoreInv'
<1>1. step[p] \in Copying \cup {"look", "promote"} BY DEF Copying
<1>2. /\ Holding(p) /\ SoundProc(p) /\ store = "service" /\ at[p] \in Tasks /\ hit[p] \in Tasks
      /\ SoundTask(at[p]) /\ row[at[p]] \in K!Statuses \cup K!Terminal
  BY <1>1, CopyHere DEF Copying
<1>3. UNCHANGED <<store, owner, lock, op, at, hit, cut, read, dir, staging>>
  BY DEF K!place, K!files
<1>4. step'[p] = w BY DEF StoreInv, K!TypeOK
<1>5. s \notin K!NoRow /\ row[at[p]] # "purged" BY <1>2 DEF K!NoRow, K!Statuses, K!Terminal
<1>6. K!TypeOK'
  <2>1. row' \in [Tasks -> K!Statuses \cup K!Terminal \cup K!NoRow] BY DEF StoreInv, K!TypeOK
  <2>2. w \in K!ParseSteps BY DEF K!ParseSteps
  <2>3. step' \in [Procs -> {"idle", "lock"} \cup K!ParseSteps \cup K!ResumeSteps \cup K!PurgeSteps]
    BY <2>2 DEF StoreInv, K!TypeOK
  <2> QED BY <2>1, <2>3 DEF StoreInv, K!TypeOK, K!files, K!place
<1>7. K!WholeDocument(dir[at[p]]) BY <1>2 DEF SoundProc, KnowsDirectory
<1>8. KnowsDirectory(p)' BY <1>3, <1>4, <1>7 DEF KnowsDirectory, K!WholeDocument, K!Rendered
<1>9. KnowsStaging(p)' BY <1>4 DEF KnowsStaging
<1>10. CutIsGone(p)' BY <1>2, <1>3 DEF SoundProc, CutIsGone
<1>11. \A t \in Tasks : t = at[p] => SoundTask(t)'
  <2>1. row'[at[p]] = s /\ dir'[at[p]] = dir[at[p]] BY <1>2, <1>3 DEF StoreInv, K!TypeOK
  <2> QED BY <1>2, <1>5, <1>7, <2>1 DEF SoundTask, K!WholeDocument, K!Rendered
<1>12. \A t \in Tasks \ {at[p]} : dir'[t] = dir[t] /\ staging'[t] = staging[t] BY <1>3
<1>13. w \in Copying \cup {"promote", "report", "leave", "extract"} /\ w # "extract"
  BY DEF Copying
<1> QED BY <1>1, <1>2, <1>3, <1>5, <1>6, <1>8, <1>9, <1>10, <1>11, <1>12, <1>13, CopyStands

LEMMA CommitRowsKeeps ==
    ASSUME K!StoreAssumption, StoreInv, NEW p \in Procs, K!CommitRows(p) PROVE StoreInv'
<1>1. step[p] = "commit" /\ step[p] \in Copying BY DEF K!CommitRows, Copying
<1>2. at[p] \in Tasks /\ row[at[p]] \in K!Statuses \cup K!Terminal BY <1>1, CopyHere
<1>3. UNCHANGED <<store, owner, gen, K!files, lock, K!place, calls>> /\ faults' \in 0..MaxFaults
  BY DEF K!CommitRows, StoreInv, K!TypeOK
<1>4. CASE row[at[p]] = "WAITING"
  <2>1. /\ row' = [row EXCEPT ![at[p]] = "COMPLETED"] /\ step' = [step EXCEPT ![p] = "verify"]
        /\ sections' = [sections EXCEPT ![at[p]] = "done"]
    BY <1>4 DEF K!CommitRows, K!Status, K!Go
  <2>2. sections' \in [Tasks -> {"none", "pending", "done"}] BY <2>1 DEF StoreInv, K!TypeOK
  <2>3. "COMPLETED" \in K!Statuses \cup K!Terminal BY DEF K!Terminal
  <2> QED BY <1>1, <1>3, <2>1, <2>2, <2>3, RowStands
<1>5. CASE row[at[p]] # "WAITING"
  <2>1. /\ row' = [row EXCEPT ![at[p]] = row[at[p]]] /\ sections' = sections
        /\ step' = [step EXCEPT ![p] = "withdraw"]
    BY <1>2, <1>5 DEF K!CommitRows, K!Go, StoreInv, K!TypeOK
  <2>2. sections' \in [Tasks -> {"none", "pending", "done"}] BY <2>1 DEF StoreInv, K!TypeOK
  <2> QED BY <1>1, <1>2, <1>3, <2>1, <2>2, RowStands
<1> QED BY <1>4, <1>5

LEMMA VerifyKeeps ==
    ASSUME K!StoreAssumption, StoreInv, NEW p \in Procs, K!Verify(p) PROVE StoreInv'
<1>1. step[p] = "verify" /\ step[p] \in Copying BY DEF K!Verify, Copying
<1>2. at[p] \in Tasks /\ row[at[p]] \in K!Statuses \cup K!Terminal BY <1>1, CopyHere
<1>3. UNCHANGED <<store, owner, gen, K!files, lock, K!place, calls>> BY DEF K!Verify
<1>4. CASE K!Go(p, "leave") /\ UNCHANGED <<row, sections, faults>>
  <2>1. row' = [row EXCEPT ![at[p]] = row[at[p]]] /\ step' = [step EXCEPT ![p] = "leave"]
    BY <1>2, <1>4 DEF K!Go, StoreInv, K!TypeOK
  <2>2. sections' \in [Tasks -> {"none", "pending", "done"}] /\ faults' \in 0..MaxFaults
    BY <1>4 DEF StoreInv, K!TypeOK
  <2> QED BY <1>1, <1>2, <1>3, <2>1, <2>2, RowStands
<1>5. CASE /\ faults < MaxFaults /\ faults' = faults + 1 /\ K!Go(p, "withdraw")
           /\ K!Status(at[p], "WAITING") /\ sections' = [sections EXCEPT ![at[p]] = "none"]
  <2>1. row' = [row EXCEPT ![at[p]] = "WAITING"] /\ step' = [step EXCEPT ![p] = "withdraw"]
    BY <1>5 DEF K!Go, K!Status
  <2>2. sections' \in [Tasks -> {"none", "pending", "done"}] /\ faults' \in 0..MaxFaults
    <3>1. sections \in [Tasks -> {"none", "pending", "done"}] /\ faults \in 0..MaxFaults
      BY DEF StoreInv, K!TypeOK
    <3>2. faults' \in 0..MaxFaults BY <1>5, <3>1 DEF K!StoreAssumption
    <3> QED BY <1>5, <3>1, <3>2
  <2>3. "WAITING" \in K!Statuses \cup K!Terminal BY DEF K!Statuses
  <2> QED BY <1>1, <1>3, <2>1, <2>2, <2>3, RowStands
<1> QED BY <1>4, <1>5 DEF K!Verify

LEMMA WithdrawKeeps ==
    ASSUME K!StoreAssumption, StoreInv, NEW p \in Procs, K!Withdraw(p) PROVE StoreInv'
<1>1. step[p] = "withdraw" /\ step[p] \in Copying BY DEF K!Withdraw, Copying
<1>2. /\ Holding(p) /\ SoundProc(p) /\ store = "service" /\ op[p] = "parse"
      /\ at[p] \in Tasks /\ hit[p] \in Tasks /\ SoundTask(at[p])
      /\ row[at[p]] \in K!Statuses \cup K!Terminal
  BY <1>1, CopyHere
<1>3. UNCHANGED <<store, owner, lock, op, at, hit, cut, read, staging>> /\ row' = row
  BY DEF K!Withdraw, K!rows, K!place
<1>4. step' = [step EXCEPT ![p] = "report"] /\ step'[p] = "report"
  BY DEF K!Withdraw, K!Go, StoreInv, K!TypeOK
<1>5. row[at[p]] \notin K!NoRow /\ row' = [row EXCEPT ![at[p]] = row[at[p]]]
  BY <1>2, <1>3 DEF K!NoRow, K!Statuses, K!Terminal, StoreInv, K!TypeOK
<1>6. dir \in [Tasks -> Document] /\ dir' = [dir EXCEPT ![at[p]] = K!NoDir]
  BY DirTyped DEF StoreInv, K!Withdraw
<1>7. K!TypeOK'
  <2>1. K!NoDir \in Document BY DEF K!NoDir, Document, K!StoreAssumption
  <2>2. dir' \in [Tasks -> Document] BY <1>6, <2>1
  <2> QED BY <1>4, <2>2 DEF StoreInv, K!TypeOK, K!Withdraw, K!ParseSteps, K!rows, K!place,
      Document
<1>8. KnowsDirectory(p)' BY <1>4 DEF KnowsDirectory
<1>9. KnowsStaging(p)' BY <1>4 DEF KnowsStaging
<1>10. CutIsGone(p)' BY <1>1, <1>2, <1>3 DEF SoundProc, CutIsGone
<1>11. \A t \in Tasks : t = at[p] => SoundTask(t)'
  BY <1>3, <1>5, <1>6 DEF SoundTask, K!NoDir
<1>12. \A t \in Tasks \ {at[p]} : dir'[t] = dir[t] /\ staging'[t] = staging[t]
  BY <1>3, <1>6
<1>13. row[at[p]] # "purged" BY <1>5 DEF K!NoRow
<1>14. "report" \notin Copying /\ "report" # "extract" BY DEF Copying
<1> QED BY <1>1, <1>2, <1>3, <1>4, <1>5, <1>7, <1>8, <1>9, <1>10, <1>11, <1>12, <1>13,
           <1>14, CopyStands

LEMMA PromoteKeeps ==
    ASSUME K!StoreAssumption, StoreInv, NEW p \in Procs, K!Promote(p) PROVE StoreInv'
<1>1. step[p] = "promote" /\ Holding(p) BY DEF K!Promote, Holding, Locked
<1>2. SoundProc(p) /\ at[p] \in Tasks /\ SoundTask(at[p]) BY <1>1, AtTask
<1>3. UNCHANGED <<store, owner, lock, op, at, hit, cut, read, staging, dir>>
  BY DEF K!Promote, K!place
<1>4. op[p] = "parse"
  BY <1>1, <1>2 DEF SoundProc, Placed, Working, K!ResumeSteps, K!PurgeSteps, StoreInv, K!TypeOK
<1>5. store = "service" => row[at[p]] \notin K!NoRow BY <1>1, <1>2, <1>4 DEF SoundProc, KnowsRow
<1>6. CutIsGone(p)' BY <1>1, <1>2, <1>3 DEF SoundProc, CutIsGone
<1>7. \A t \in Tasks \ {at[p]} : dir'[t] = dir[t] /\ staging'[t] = staging[t] BY <1>3
<1>8. CASE row[at[p]] = IF store = "service" THEN "WAITING" ELSE "unborn"
  <2>1. /\ row' = [row EXCEPT ![at[p]] = "PARSING"] /\ step' = [step EXCEPT ![p] = "extract"]
        /\ snapshot' = [snapshot EXCEPT ![at[p]] = TRUE]
    BY <1>8 DEF K!Promote, K!Go, K!Status
  <2>2. step'[p] = "extract" BY <2>1 DEF StoreInv, K!TypeOK
  <2>3. K!TypeOK' BY <2>1 DEF StoreInv, K!TypeOK, K!Promote, K!ParseSteps, K!Statuses, K!place
  <2>4. KnowsDirectory(p)' /\ KnowsStaging(p)' BY <2>2 DEF KnowsDirectory, KnowsStaging
  <2>5. \A t \in Tasks : t = at[p] => SoundTask(t)'
    BY <1>2, <1>3, <2>1 DEF SoundTask, StoreInv, K!TypeOK, K!NoRow
  <2>6. "PARSING" \notin K!NoRow /\ "PARSING" # "COMPLETED" BY DEF K!NoRow
  <2>7. row[at[p]] # "purged" /\ "extract" \notin Copying BY <1>8 DEF Copying
  <2> QED BY <1>1, <1>2, <1>3, <1>6, <1>7, <2>1, <2>3, <2>4, <2>5, <2>6, <2>7, CopyStands
<1>9. CASE row[at[p]] # IF store = "service" THEN "WAITING" ELSE "unborn"
  <2>1. step' = [step EXCEPT ![p] = "report"] /\ row' = row /\ snapshot' = snapshot
    BY <1>9 DEF K!Promote, K!Go
  <2>2. step'[p] = "report" BY <2>1 DEF StoreInv, K!TypeOK
  <2>3. K!TypeOK' BY <2>1 DEF StoreInv, K!TypeOK, K!Promote, K!ParseSteps, K!place
  <2>4. KnowsDirectory(p)' /\ KnowsStaging(p)' BY <2>2 DEF KnowsDirectory, KnowsStaging
  <2>5. \A t \in Tasks : t = at[p] => SoundTask(t)' BY <1>2, <1>3, <2>1, TaskStands
  <2>6. row' = [row EXCEPT ![at[p]] = row[at[p]]] BY <1>2, <2>1 DEF StoreInv, K!TypeOK
  <2>7. "report" \notin Copying /\ "report" # "extract" BY DEF Copying
  <2> QED BY <1>1, <1>2, <1>3, <1>5, <1>6, <1>7, <2>1, <2>3, <2>4, <2>5, <2>6, <2>7, CopyStands
<1> QED BY <1>8, <1>9

-----------------------------------------------------------------------------
(* Steps that leave rows and directories alone *)

LEMMA FreeStands ==
    ASSUME K!StoreAssumption, StoreInv, NEW p \in Procs,
           UNCHANGED <<store, row, dir, staging, op>>,
           \A q \in Procs \ {p} :
               /\ step'[q] = step[q] /\ at'[q] = at[q] /\ hit'[q] = hit[q]
               /\ read'[q] = read[q] /\ cut'[q] = cut[q],
           \A t \in Tasks :
               /\ lock'[t] = lock[t] \/ lock[t] \in {p, None}
               /\ owner'[t] = owner[t] \/ lock[t] = None \/ (Holding(p) /\ t = at[p]),
           step[p] = "drop" /\ store = "service" => step'[p] = "drop" /\ at'[p] = at[p],
           step'[p] = "idle" \/ (step[p] # "idle" /\ at'[p] = at[p]),
           K!TypeOK', SoundProc(p)'
    PROVE  StoreInv'
<1>1. \A t \in Tasks : row[t] = "purged" /\ ~dir[t].there => row'[t] = "purged" /\ ~dir'[t].there
  OBVIOUS
<1>2. step[p] = "drop" => ~dir'[at[p]].there BY DEF StoreInv, SoundProc, KnowsDirectory
<1>3. Frame(p) BY <1>1, <1>2 DEF Frame
<1>4. \A t \in Tasks : SoundTask(t)' BY TaskStands DEF StoreInv
<1> QED BY <1>3, <1>4, StepStands

\* A step to where p does not have the lock of its task.
LEMMA OutsideStands ==
    ASSUME K!StoreAssumption, StoreInv, NEW p \in Procs, step[p] # "idle",
           step[p] = "drop" => store = "commands",
           UNCHANGED <<store, row, dir, staging, op>>,
           NEW w \in {"idle", "lock", "lock hit", "reuse", "leave"},
           step' = [step EXCEPT ![p] = w],
           w = "idle" \/ at'[p] = at[p],
           \A q \in Procs \ {p} :
               at'[q] = at[q] /\ hit'[q] = hit[q] /\ read'[q] = read[q] /\ cut'[q] = cut[q],
           \A t \in Tasks :
               /\ lock'[t] = lock[t] \/ lock[t] \in {p, None}
               /\ owner'[t] = owner[t] \/ lock[t] = None \/ (Holding(p) /\ t = at[p]),
           K!TypeOK', ~cut'[p], Placed(p)', HasLocks(p)', AnswerTrue(p)',
           store = "service" /\ op[p] = "parse" /\ w # "idle" => row[at[p]] \notin K!NoRow
    PROVE  StoreInv'
<1>1. step'[p] = w /\ \A q \in Procs \ {p} : step'[q] = step[q] BY DEF StoreInv, K!TypeOK
<1>2. KnowsDirectory(p)' /\ KnowsStaging(p)' BY <1>1 DEF KnowsDirectory, KnowsStaging
<1>3. KnowsRow(p)' BY <1>1 DEF KnowsRow, Working
<1>4. CutIsGone(p)' BY DEF CutIsGone
<1>5. ClaimKept(p)' BY <1>1 DEF ClaimKept, Placed, K!ParseSteps, K!ResumeSteps, Working
<1>6. SoundProc(p)' BY <1>2, <1>3, <1>4, <1>5 DEF SoundProc
<1> QED BY <1>1, <1>6, FreeStands

LEMMA LockKeeps ==
    ASSUME K!StoreAssumption, StoreInv, NEW p \in Procs, K!Lock(p) PROVE StoreInv'
<1>1. step[p] = "lock" /\ SoundProc(p) BY DEF K!Lock, StoreInv
<1>2. at[p] \in Tasks /\ store \in {"service", "commands"} /\ ~cut[p]
  BY <1>1 DEF SoundProc, Placed, CutIsGone
<1>3. UNCHANGED <<store, row, dir, staging, op, hit, cut, read, owner>>
  BY DEF K!Lock, K!rows, K!files
<1>4. store = "commands" => hit[p] \notin Tasks BY <1>1 DEF SoundProc, Placed
<1>5. store = "service" /\ op[p] = "parse" => row[at[p]] \notin K!NoRow
  BY <1>1 DEF SoundProc, KnowsRow
<1>6. CASE lock[at[p]] # None
  <2>1. step' = [step EXCEPT ![p] = "idle"] /\ at' = [at EXCEPT ![p] = None] /\ lock' = lock
    BY <1>6 DEF K!Lock, K!Go
  <2>2. K!TypeOK' BY <2>1 DEF StoreInv, K!TypeOK, K!Lock, K!rows, K!files
  <2>3. step'[p] = "idle" /\ \A q \in Procs \ {p} : at'[q] = at[q] BY <2>1 DEF StoreInv, K!TypeOK
  <2>4. Placed(p)' BY <1>3, <1>4, <2>3 DEF Placed, Copying
  <2>5. HasLocks(p)' /\ AnswerTrue(p)'
    BY <2>3 DEF HasLocks, AnswerTrue, Holding, Locked, Copying, Working, K!ResumeSteps,
        K!PurgeSteps
  <2> QED BY <1>1, <1>2, <1>3, <2>1, <2>2, <2>3, <2>4, <2>5, OutsideStands
<1>7. CASE lock[at[p]] = None
  <2>1. lock' = [lock EXCEPT ![at[p]] = p] /\ at' = at BY <1>7 DEF K!Lock
  <2>2. PICK w \in {"look", "promote", "claim", "quarantine"} :
            /\ step' = [step EXCEPT ![p] = w]
            /\ w \in {"look", "promote"} <=> op[p] = "parse"
            /\ w = "look" => store = "service"
            /\ w = "claim" <=> op[p] = "resume"
            /\ w = "quarantine" <=> op[p] = "purge"
    <3>1. op[p] \in {"parse", "resume", "purge"} BY DEF StoreInv, K!TypeOK
    <3>2. CASE op[p] = "parse" /\ store = "service" BY <1>7, <3>2 DEF K!Lock, K!Go
    <3>3. CASE op[p] = "parse" /\ store = "commands" BY <1>7, <3>3 DEF K!Lock, K!Go
    <3>4. CASE op[p] = "resume" BY <1>7, <3>4 DEF K!Lock, K!Go
    <3>5. CASE op[p] = "purge" BY <1>7, <3>5 DEF K!Lock, K!Go
    <3> QED BY <1>2, <3>1, <3>2, <3>3, <3>4, <3>5
  <2>3. step'[p] = w /\ \A q \in Procs \ {p} : step'[q] = step[q] BY <2>2 DEF StoreInv, K!TypeOK
  <2>4. lock'[at[p]] = p /\ \A t \in Tasks \ {at[p]} : lock'[t] = lock[t]
    BY <1>2, <2>1 DEF StoreInv, K!TypeOK
  <2>5. K!TypeOK'
    <3>1. w \in K!ParseSteps \cup K!ResumeSteps \cup K!PurgeSteps
      BY DEF K!ParseSteps, K!ResumeSteps, K!PurgeSteps
    <3>2. step' \in [Procs -> {"idle", "lock"} \cup K!ParseSteps \cup K!ResumeSteps \cup K!PurgeSteps]
      BY <2>2, <3>1 DEF StoreInv, K!TypeOK
    <3>3. lock' \in [Tasks -> Procs \cup {None}] BY <2>1 DEF StoreInv, K!TypeOK
    <3> QED BY <2>1, <3>2, <3>3 DEF StoreInv, K!TypeOK, K!Lock, K!rows, K!files
  <2>6. Placed(p)'
    BY <1>2, <1>3, <1>4, <2>1, <2>2, <2>3
    DEF Placed, K!ParseSteps, K!ResumeSteps, K!PurgeSteps, Copying, Working
  <2>7. HasLocks(p)' BY <1>4, <2>1, <2>3, <2>4 DEF HasLocks
  <2>8. KnowsRow(p)' BY <1>3, <1>5, <2>1, <2>3 DEF KnowsRow, Working
  <2>9. KnowsDirectory(p)' /\ KnowsStaging(p)' BY <2>3 DEF KnowsDirectory, KnowsStaging
  <2>10. CutIsGone(p)' BY <1>2, <1>3 DEF CutIsGone
  <2>11. ClaimKept(p)' BY <1>3, <2>2, <2>3 DEF ClaimKept
  <2>12. AnswerTrue(p)' BY <2>3 DEF AnswerTrue
  <2>13. SoundProc(p)' BY <2>6, <2>7, <2>8, <2>9, <2>10, <2>11, <2>12 DEF SoundProc
  <2> QED BY <1>1, <1>3, <1>7, <2>1, <2>3, <2>4, <2>5, <2>13, FreeStands
<1> QED BY <1>6, <1>7

LEMMA TaskLeaveKeeps ==
    ASSUME K!StoreAssumption, StoreInv, NEW p \in Procs, K!Leave(p) PROVE StoreInv'
<1>1. step[p] = "leave" /\ None \notin Tasks BY DEF K!Leave, K!StoreAssumption
<1>2. UNCHANGED <<store, row, dir, staging, op, owner>> BY DEF K!Leave, K!rows, K!files
<1>3. /\ step' = [step EXCEPT ![p] = "idle"] /\ at' = [at EXCEPT ![p] = None]
      /\ hit' = [hit EXCEPT ![p] = None] /\ cut' = [cut EXCEPT ![p] = FALSE]
      /\ read' = [read EXCEPT ![p] = 0]
      /\ lock' = [t \in Tasks |-> IF lock[t] = p THEN None ELSE lock[t]]
  BY DEF K!Leave, K!Go, K!Holds
<1>4. K!TypeOK'
  <2>1. lock' \in [Tasks -> Procs \cup {None}] BY <1>3 DEF StoreInv, K!TypeOK
  <2>2. /\ step' \in [Procs -> {"idle", "lock"} \cup K!ParseSteps \cup K!ResumeSteps \cup K!PurgeSteps]
        /\ at' \in [Procs -> Tasks \cup {None}] /\ hit' \in [Procs -> Tasks \cup {None}]
        /\ cut' \in [Procs -> BOOLEAN]
    BY <1>3 DEF StoreInv, K!TypeOK
  <2>3. read' \in [Procs -> 0..MaxCalls] BY <1>3 DEF StoreInv, K!TypeOK, K!StoreAssumption
  <2> QED BY <2>1, <2>2, <2>3 DEF StoreInv, K!TypeOK, K!Leave, K!rows, K!files
<1>5. step'[p] = "idle" /\ hit'[p] = None /\ ~cut'[p] BY <1>3 DEF StoreInv, K!TypeOK
<1>6. \A q \in Procs \ {p} :
          at'[q] = at[q] /\ hit'[q] = hit[q] /\ read'[q] = read[q] /\ cut'[q] = cut[q]
  BY <1>3 DEF StoreInv, K!TypeOK
<1>7. \A t \in Tasks : lock'[t] = lock[t] \/ lock[t] \in {p, None} BY <1>3
<1>8. Placed(p)' BY <1>1, <1>5 DEF Placed, Copying
<1>9. HasLocks(p)' /\ AnswerTrue(p)'
  BY <1>5 DEF HasLocks, AnswerTrue, Holding, Locked, Copying, Working, K!ResumeSteps, K!PurgeSteps
<1> QED BY <1>1, <1>2, <1>3, <1>4, <1>5, <1>6, <1>7, <1>8, <1>9, OutsideStands

LEMMA LookKeeps ==
    ASSUME K!StoreAssumption, StoreInv, NEW p \in Procs, K!Look(p) PROVE StoreInv'
<1>1. step[p] = "look" /\ SoundProc(p) BY DEF K!Look, StoreInv
<1>2. at[p] \in Tasks /\ store \in {"service", "commands"} /\ ~cut[p]
  BY <1>1 DEF SoundProc, Placed, CutIsGone
<1>3. UNCHANGED <<store, row, dir, op, at, lock, cut, owner>> BY DEF K!Look, K!rows
<1>4. op[p] = "parse"
  BY <1>1 DEF SoundProc, Placed, Working, K!ResumeSteps, K!PurgeSteps, StoreInv, K!TypeOK
<1>5. store = "service" => row[at[p]] \notin K!NoRow BY <1>1, <1>4 DEF SoundProc, KnowsRow
<1>6. dir \in [Tasks -> Document] /\ staging \in [Tasks -> Document] BY DirTyped DEF StoreInv
<1>7. \/ hit' = hit /\ staging' = staging /\ read' = read
         /\ K!Go(p, IF store = "service" THEN "promote" ELSE "lock")
      \/ \E h \in Tasks :
            /\ K!Valid(h) /\ hit' = [hit EXCEPT ![p] = h] /\ read' = [read EXCEPT ![p] = dir[h].ai]
            /\ \/ store = "commands" /\ K!Go(p, "lock hit") /\ staging' = staging
               \/ store = "service" /\ K!Go(p, "report") /\ staging' = staging
               \/ /\ store = "service" /\ K!Go(p, "open pictures")
                  /\ staging' = [staging EXCEPT ![at[p]] = K!EmptyDir]
  BY <1>2 DEF K!Look
<1>8. K!TypeOK'
  <2>1. K!EmptyDir \in Document
    <3>1. K!NoDir \in Document BY DEF K!NoDir, Document, K!StoreAssumption
    <3> QED BY <3>1 DEF K!EmptyDir, Document
  <2>2. staging' \in [Tasks -> Document] BY <1>6, <1>7, <2>1
  <2>3. hit' \in [Procs -> Tasks \cup {None}] BY <1>7 DEF StoreInv, K!TypeOK
  <2>4. read' \in [Procs -> 0..MaxCalls]
    <3>1. \A h \in Tasks : dir[h].ai \in 0..MaxCalls BY <1>6 DEF Document
    <3> QED BY <1>7, <3>1 DEF StoreInv, K!TypeOK
  <2>5. step' \in [Procs -> {"idle", "lock"} \cup K!ParseSteps \cup K!ResumeSteps \cup K!PurgeSteps]
    BY <1>7 DEF StoreInv, K!TypeOK, K!Go, K!ParseSteps
  <2> QED BY <2>2, <2>3, <2>4, <2>5 DEF StoreInv, K!TypeOK, K!Look, K!rows, Document
<1>9. \A q \in Procs \ {p} : hit'[q] = hit[q] /\ cut'[q] = cut[q] /\ read'[q] = read[q]
  BY <1>3, <1>7 DEF StoreInv, K!TypeOK
<1>10. CASE store = "service"
  <2>1. PICK w \in {"promote", "report", "open pictures"} :
            /\ step' = [step EXCEPT ![p] = w]
            /\ w # "open pictures" => staging' = staging
            /\ w = "open pictures" => \E h \in Tasks :
                  /\ K!Valid(h) /\ hit' = [hit EXCEPT ![p] = h]
                  /\ read' = [read EXCEPT ![p] = dir[h].ai]
                  /\ staging' = [staging EXCEPT ![at[p]] = K!EmptyDir]
    BY <1>7, <1>10 DEF K!Go
  <2>2. step'[p] = w /\ row' = [row EXCEPT ![at[p]] = row[at[p]]]
    BY <1>3, <2>1 DEF StoreInv, K!TypeOK
  <2>3. w = "open pictures" =>
            hit'[p] \in Tasks /\ staging'[at[p]].there /\ read'[p] > 0
    <3> SUFFICES ASSUME w = "open pictures"
                 PROVE  hit'[p] \in Tasks /\ staging'[at[p]].there /\ read'[p] > 0
      OBVIOUS
    <3>1. PICK h \in Tasks :
              /\ K!Valid(h) /\ hit' = [hit EXCEPT ![p] = h]
              /\ read' = [read EXCEPT ![p] = dir[h].ai]
              /\ staging' = [staging EXCEPT ![at[p]] = K!EmptyDir]
      BY <2>1
    <3>2. hit'[p] = h /\ read'[p] = dir[h].ai BY <3>1 DEF StoreInv, K!TypeOK
    <3>3. dir[h].ai > 0 BY <3>1 DEF K!Valid, K!WholeDocument, K!Rendered
    <3>4. staging'[at[p]] = K!EmptyDir BY <1>2, <1>6, <3>1
    <3>5. K!EmptyDir.there BY DEF K!EmptyDir, K!NoDir
    <3> QED BY <3>2, <3>3, <3>4, <3>5
  <2>4. KnowsStaging(p)' BY <1>3, <2>2, <2>3 DEF KnowsStaging
  <2>5. KnowsDirectory(p)' BY <2>2 DEF KnowsDirectory
  <2>6. CutIsGone(p)' BY <1>2, <1>3 DEF CutIsGone
  <2>7. \A t \in Tasks : t = at[p] => SoundTask(t)' BY <1>3, TaskStands DEF StoreInv
  <2>8. \A t \in Tasks \ {at[p]} : dir'[t] = dir[t] /\ staging'[t] = staging[t]
    BY <1>3, <1>6, <2>1
  <2>9. Holding(p) BY <1>1, <1>10 DEF Holding
  <2>10. /\ w \in Copying => w = "open pictures"
         /\ w \in Copying \cup {"promote", "report", "leave", "extract"} /\ w # "extract"
    BY DEF Copying
  <2> QED BY <1>1, <1>3, <1>5, <1>8, <1>9, <1>10, <2>1, <2>2, <2>3, <2>4, <2>5, <2>6, <2>7,
             <2>8, <2>9, <2>10, CopyStands
<1>11. CASE store = "commands"
  <2>1. PICK w \in {"lock", "lock hit"} :
            /\ step' = [step EXCEPT ![p] = w] /\ staging' = staging
            /\ w = "lock" => hit' = hit
            /\ w = "lock hit" => \E h \in Tasks : hit' = [hit EXCEPT ![p] = h]
    BY <1>7, <1>11 DEF K!Go
  <2>2. step'[p] = w BY <2>1 DEF StoreInv, K!TypeOK
  <2>3. hit[p] \notin Tasks BY <1>1, <1>11 DEF SoundProc, Placed
  <2>4. w = "lock hit" => hit'[p] \in Tasks BY <2>1 DEF StoreInv, K!TypeOK
  <2>5. Placed(p)'
    BY <1>2, <1>3, <1>4, <1>11, <2>1, <2>2, <2>3, <2>4 DEF Placed, K!ParseSteps, Copying
  <2>6. HasLocks(p)' /\ AnswerTrue(p)'
    BY <2>2 DEF HasLocks, AnswerTrue, Holding, Locked, Copying, Working, K!ResumeSteps,
        K!PurgeSteps
  <2>7. \A q \in Procs \ {p} : at'[q] = at[q] BY <1>3
  <2> QED BY <1>1, <1>2, <1>3, <1>8, <1>9, <1>11, <2>1, <2>5, <2>6, <2>7, OutsideStands
<1> QED BY <1>2, <1>10, <1>11

LEMMA LockHitKeeps ==
    ASSUME K!StoreAssumption, StoreInv, NEW p \in Procs, K!LockHit(p) PROVE StoreInv'
<1>1. step[p] = "lock hit" /\ SoundProc(p) BY DEF K!LockHit, StoreInv
<1>2. at[p] \in Tasks /\ store = "commands" /\ ~cut[p] /\ hit[p] \in Tasks
  BY <1>1 DEF SoundProc, Placed, CutIsGone
<1>3. UNCHANGED <<store, row, dir, staging, op, at, hit, read, cut, owner>>
  BY DEF K!LockHit, K!rows, K!files, K!place
<1>4. /\ step' = [step EXCEPT ![p] = "reuse"] /\ step'[p] = "reuse"
      /\ lock' = [lock EXCEPT ![hit[p]] = p] /\ lock[hit[p]] = None /\ lock'[hit[p]] = p
  BY <1>2 DEF K!LockHit, K!Go, StoreInv, K!TypeOK
<1>5. K!TypeOK' BY <1>4 DEF StoreInv, K!TypeOK, K!LockHit, K!ParseSteps, K!rows, K!files, K!place
<1>6. op[p] = "parse"
  BY <1>1 DEF SoundProc, Placed, Working, K!ResumeSteps, K!PurgeSteps, StoreInv, K!TypeOK
<1>7. Placed(p)' BY <1>2, <1>3, <1>4, <1>6 DEF Placed, K!ParseSteps, Copying
<1>8. HasLocks(p)'
  BY <1>3, <1>4 DEF HasLocks, Holding, Locked, Copying, Working, K!ResumeSteps, K!PurgeSteps
<1>9. AnswerTrue(p)' BY <1>4 DEF AnswerTrue
<1>10. \A t \in Tasks : lock'[t] = lock[t] \/ lock[t] \in {p, None} BY <1>4 DEF StoreInv, K!TypeOK
<1> QED BY <1>1, <1>2, <1>3, <1>4, <1>5, <1>7, <1>8, <1>9, <1>10, OutsideStands

LEMMA AnswerKeeps ==
    ASSUME K!StoreAssumption, StoreInv, NEW p \in Procs, K!Answer(p) PROVE StoreInv'
<1>1. step[p] = "reuse" /\ SoundProc(p) BY DEF K!Answer, StoreInv
<1>2. /\ at[p] \in Tasks /\ store = "commands" /\ ~cut[p] /\ hit[p] \in Tasks
      /\ lock[hit[p]] = p
  BY <1>1 DEF SoundProc, Placed, CutIsGone, HasLocks
<1>3. UNCHANGED <<store, row, dir, staging, op, at, read, cut, owner>>
  BY DEF K!Answer, K!rows, K!files
<1>4. op[p] = "parse"
  BY <1>1 DEF SoundProc, Placed, Working, K!ResumeSteps, K!PurgeSteps, StoreInv, K!TypeOK
<1>5. CASE row[hit[p]] = "COMPLETED" /\ K!Valid(hit[p])
  <2>1. step' = [step EXCEPT ![p] = "leave"] BY <1>5 DEF K!Answer, K!Reuse, K!Go
  <2>2. step'[p] = "leave" BY <2>1 DEF StoreInv, K!TypeOK
  <2>3. lock' = lock /\ hit' = hit BY <2>2 DEF K!Answer
  <2>4. K!TypeOK' BY <2>1, <2>3 DEF StoreInv, K!TypeOK, K!Answer, K!ParseSteps, K!rows, K!files
  <2>5. Placed(p)' BY <1>2, <1>3, <1>4, <2>2, <2>3 DEF Placed, K!ParseSteps, Copying
  <2>6. HasLocks(p)'
    BY <1>2, <1>3, <2>2, <2>3
    DEF HasLocks, Holding, Locked, Copying, Working, K!ResumeSteps, K!PurgeSteps
  <2>7. AnswerTrue(p)' BY <1>3, <1>5, <2>3 DEF AnswerTrue, K!Valid, K!WholeDocument, K!Rendered
  <2> QED BY <1>1, <1>2, <1>3, <2>1, <2>3, <2>4, <2>5, <2>6, <2>7, OutsideStands
<1>6. CASE ~(row[hit[p]] = "COMPLETED" /\ K!Valid(hit[p]))
  <2>1. step' = [step EXCEPT ![p] = "lock"] BY <1>6 DEF K!Answer, K!Reuse, K!Go
  <2>2. step'[p] = "lock" BY <2>1 DEF StoreInv, K!TypeOK
  <2>3. lock' = [lock EXCEPT ![hit[p]] = None] /\ hit' = [hit EXCEPT ![p] = None]
    BY <2>2 DEF K!Answer
  <2>4. K!TypeOK' BY <2>1, <2>3 DEF StoreInv, K!TypeOK, K!Answer, K!ParseSteps, K!rows, K!files
  <2>5. hit'[p] \notin Tasks /\ \A q \in Procs \ {p} : hit'[q] = hit[q]
    BY <2>3 DEF StoreInv, K!TypeOK, K!StoreAssumption
  <2>6. \A t \in Tasks : lock'[t] = lock[t] \/ lock[t] \in {p, None}
    BY <1>2, <2>3 DEF StoreInv, K!TypeOK
  <2>7. Placed(p)' BY <1>2, <1>3, <1>4, <2>2, <2>5 DEF Placed, K!ParseSteps, Copying
  <2>8. HasLocks(p)' /\ AnswerTrue(p)'
    BY <2>2 DEF HasLocks, AnswerTrue, Holding, Locked, Copying, Working, K!ResumeSteps,
        K!PurgeSteps
  <2> QED BY <1>1, <1>2, <1>3, <2>1, <2>4, <2>5, <2>6, <2>7, <2>8, OutsideStands
<1> QED BY <1>5, <1>6

\* A claim that nobody has locked is not the claim of a process at work.
LEMMA ClearKeeps ==
    ASSUME K!StoreAssumption, StoreInv, NEW p \in Procs, K!Clear(p) PROVE StoreInv'
<1>1. SoundProc(p) BY DEF StoreInv
<1>2. PICK c \in seen[p] : K!ClearStale(p, c) BY DEF K!Clear
<1>3. UNCHANGED <<store, row, dir, staging, op, step, at, hit, cut, read, lock>>
  BY DEF K!Clear, K!files
<1>4. \A t \in Tasks : owner'[t] = owner[t] \/ lock[t] = None
  BY <1>2 DEF K!ClearStale, StoreInv, K!TypeOK
<1>5. K!TypeOK'
  <2>1. owner' \in [Tasks -> Procs \cup {None}] BY <1>2 DEF K!ClearStale, StoreInv, K!TypeOK
  <2> QED BY <2>1 DEF StoreInv, K!TypeOK, K!Clear, K!files
<1>6. SoundProc(p)'
  <2>1. Placed(p)' /\ HasLocks(p)' /\ KnowsRow(p)'
    <3>1. Holding(p)' <=> Holding(p) BY <1>3 DEF Holding
    <3> QED BY <1>1, <1>3, <3>1 DEF SoundProc, Placed, HasLocks, KnowsRow
  <2>2. KnowsDirectory(p)' /\ KnowsStaging(p)' /\ AnswerTrue(p)'
    BY <1>1, <1>3
    DEF SoundProc, KnowsDirectory, KnowsStaging, AnswerTrue, K!WholeDocument, K!Rendered
  <2>3. CutIsGone(p)' BY <1>1, <1>3 DEF SoundProc, CutIsGone
  <2>4. ClaimKept(p)'
    <3>1. step[p] # "idle" => at[p] \in Tasks BY <1>1 DEF SoundProc, Placed
    <3> QED BY <1>1, <1>3, <1>4, <3>1
            DEF SoundProc, ClaimKept, K!ParseSteps, K!ResumeSteps, K!StoreAssumption
  <2> QED BY <2>1, <2>2, <2>3, <2>4 DEF SoundProc
<1> QED BY <1>3, <1>4, <1>5, <1>6, FreeStands

-----------------------------------------------------------------------------
(* The end of a worker that failed, the claim of a resume, and the purge *)

LEMMA ReportKeeps ==
    ASSUME K!StoreAssumption, StoreInv, NEW p \in Procs, K!Report(p) PROVE StoreInv'
<1>1. step[p] = "report" /\ Holding(p) BY DEF K!Report, Holding, Locked
<1>2. SoundProc(p) /\ at[p] \in Tasks /\ SoundTask(at[p]) BY <1>1, AtTask
<1>3. UNCHANGED <<store, dir, staging, op, at, hit, read, cut, owner>>
  BY DEF K!Report, K!files, K!place
<1>4. step' = [step EXCEPT ![p] = "leave"] /\ step'[p] = "leave"
  BY DEF K!Report, K!Go, StoreInv, K!TypeOK
<1>5. lock' = [t \in Tasks |-> IF lock[t] = p THEN None ELSE lock[t]]
  BY DEF K!Report, K!Holds
<1>6. \/ row' = row
      \/ row[at[p]] \in K!Statuses /\ row' = [row EXCEPT ![at[p]] = "FAILED"]
  BY DEF K!Report
<1>7. op[p] = "parse"
  BY <1>1, <1>2 DEF SoundProc, Placed, Working, K!ResumeSteps, K!PurgeSteps, StoreInv, K!TypeOK
<1>8. K!TypeOK'
  <2>1. lock' \in [Tasks -> Procs \cup {None}] BY <1>5 DEF StoreInv, K!TypeOK
  <2>2. row' \in [Tasks -> K!Statuses \cup K!Terminal \cup K!NoRow]
    BY <1>6 DEF StoreInv, K!TypeOK, K!Terminal
  <2> QED BY <1>4, <2>1, <2>2 DEF StoreInv, K!TypeOK, K!Report, K!ParseSteps, K!files, K!place
<1>9. Frame(p)
  <2>1. \A q \in Procs \ {p} : step'[q] = step[q] BY <1>4 DEF StoreInv, K!TypeOK
  <2>2. \A t \in Tasks : t = at[p] \/ row'[t] = row[t] BY <1>6 DEF StoreInv, K!TypeOK
  <2>3. \A t \in Tasks : row[t] = "purged" => row'[t] = "purged"
    BY <1>6 DEF StoreInv, K!TypeOK, K!Statuses
  <2>4. \A t \in Tasks : lock'[t] = lock[t] \/ lock[t] \in {p, None} BY <1>5
  <2> QED BY <1>1, <1>3, <2>1, <2>2, <2>3, <2>4 DEF Frame
<1>10. SoundTask(at[p])'
  <2>1. CASE row' = row BY <1>2, <1>3, <2>1, TaskStands
  <2>2. CASE row[at[p]] \in K!Statuses /\ row' = [row EXCEPT ![at[p]] = "FAILED"]
    <3>1. row'[at[p]] = "FAILED" BY <1>2, <2>2 DEF StoreInv, K!TypeOK
    <3> QED BY <1>2, <1>3, <3>1 DEF SoundTask, K!NoRow
  <2> QED BY <1>6, <2>1, <2>2
<1>11. SoundProc(p)'
  <2>1. store = "commands" => hit[p] \notin Tasks BY <1>1, <1>2 DEF SoundProc, Placed
  <2>2. Placed(p)' BY <1>1, <1>2, <1>3, <1>4, <1>7 DEF SoundProc, Placed, K!ParseSteps, Copying
  <2>3. HasLocks(p)' /\ AnswerTrue(p)'
    BY <1>3, <1>4, <2>1
    DEF HasLocks, AnswerTrue, Holding, Locked, Copying, Working, K!ResumeSteps, K!PurgeSteps
  <2>4. store = "service" => row'[at[p]] \notin K!NoRow
    <3>1. store = "service" => row[at[p]] \notin K!NoRow
      BY <1>1, <1>2, <1>7 DEF SoundProc, KnowsRow
    <3> QED BY <1>2, <1>6, <3>1 DEF StoreInv, K!TypeOK, K!NoRow
  <2>5. KnowsRow(p)' BY <1>3, <1>4, <2>4 DEF KnowsRow, Working
  <2>6. KnowsDirectory(p)' /\ KnowsStaging(p)' BY <1>4 DEF KnowsDirectory, KnowsStaging
  <2>7. CutIsGone(p)' BY <1>1, <1>2, <1>3 DEF SoundProc, CutIsGone
  <2>8. ClaimKept(p)' BY <1>3, <1>7 DEF ClaimKept
  <2> QED BY <2>2, <2>3, <2>5, <2>6, <2>7, <2>8 DEF SoundProc
<1> QED BY <1>1, <1>3, <1>8, <1>9, <1>10, <1>11, StepStands

LEMMA ClaimKeeps ==
    ASSUME K!StoreAssumption, StoreInv, NEW p \in Procs, K!Claim(p) PROVE StoreInv'
<1>1. step[p] = "claim" /\ Holding(p) BY DEF K!Claim, Holding, Locked, K!ResumeSteps
<1>2. SoundProc(p) /\ at[p] \in Tasks /\ lock[at[p]] = p BY <1>1, AtTask
<1>3. UNCHANGED <<store, row, dir, staging, lock, op, at, hit, read, cut>>
  BY DEF K!Claim, K!files, K!place
<1>4. op[p] = "resume" /\ ~cut[p]
  BY <1>1, <1>2 DEF SoundProc, Placed, CutIsGone, K!ParseSteps, K!PurgeSteps, StoreInv, K!TypeOK
<1>5. store = "commands" => hit[p] \notin Tasks BY <1>1, <1>2 DEF SoundProc, Placed
<1>6. CASE row[at[p]] \notin K!NoRow /\ owner[at[p]] = None
  <2>1. /\ owner' = [owner EXCEPT ![at[p]] = p] /\ gen' = [gen EXCEPT ![at[p]] = @ + 1]
        /\ step' = [step EXCEPT ![p] = "assess"]
    BY <1>6 DEF K!Claim, K!Go
  <2>2. K!TypeOK'
    <3>1. gen \in [Tasks -> Nat] BY DEF StoreInv, K!TypeOK
    <3>2. gen[at[p]] + 1 \in Nat BY <1>2, <3>1
    <3>3. gen' \in [Tasks -> Nat] BY <2>1, <3>1, <3>2
    <3> QED BY <2>1, <3>3 DEF StoreInv, K!TypeOK, K!Claim, K!ResumeSteps, K!files, K!place
  <2>3. step'[p] = "assess" /\ owner'[at[p]] = p BY <1>2, <2>1 DEF StoreInv, K!TypeOK
  <2>4. /\ \A q \in Procs \ {p} : step'[q] = step[q]
        /\ \A t \in Tasks : t = at[p] \/ owner'[t] = owner[t]
    BY <2>1 DEF StoreInv, K!TypeOK
  <2>5. Placed(p)'
    BY <1>1, <1>2, <1>3, <1>4, <1>5, <2>3 DEF SoundProc, Placed, K!ResumeSteps, Copying
  <2>6. HasLocks(p)' BY <1>2, <1>3, <2>3 DEF HasLocks
  <2>7. KnowsRow(p)' BY <1>3, <1>4, <1>6, <2>3 DEF KnowsRow, Working
  <2>8. KnowsDirectory(p)' /\ KnowsStaging(p)' BY <2>3 DEF KnowsDirectory, KnowsStaging
  <2>9. CutIsGone(p)' /\ ClaimKept(p)' BY <1>2, <1>3, <1>4, <2>3 DEF CutIsGone, ClaimKept
  <2>10. AnswerTrue(p)' BY <2>3 DEF AnswerTrue
  <2>11. SoundProc(p)' BY <2>5, <2>6, <2>7, <2>8, <2>9, <2>10 DEF SoundProc
  <2> QED BY <1>1, <1>3, <2>2, <2>4, <2>11, FreeStands
<1>7. CASE ~(row[at[p]] \notin K!NoRow /\ owner[at[p]] = None)
  <2>1. step' = [step EXCEPT ![p] = "leave"] /\ owner' = owner BY <1>7 DEF K!Claim, K!Go
  <2>2. step'[p] = "leave" BY <2>1 DEF StoreInv, K!TypeOK
  <2>3. K!TypeOK' BY <1>7, <2>1 DEF StoreInv, K!TypeOK, K!Claim, K!ParseSteps, K!files, K!place
  <2>4. Placed(p)' BY <1>1, <1>2, <1>3, <1>4, <2>2 DEF SoundProc, Placed, Copying
  <2>5. HasLocks(p)' /\ AnswerTrue(p)'
    BY <1>3, <1>5, <2>2
    DEF HasLocks, AnswerTrue, Holding, Locked, Copying, Working, K!ResumeSteps, K!PurgeSteps
  <2> QED BY <1>1, <1>3, <1>4, <2>1, <2>3, <2>4, <2>5, OutsideStands
<1> QED BY <1>6, <1>7

LEMMA ReleaseKeeps ==
    ASSUME K!StoreAssumption, StoreInv, NEW p \in Procs, K!Release(p) PROVE StoreInv'
<1>1. step[p] = "release" /\ Holding(p) BY DEF K!Release, Holding, Locked, K!ResumeSteps
<1>2. SoundProc(p) /\ at[p] \in Tasks BY <1>1, AtTask
<1>3. UNCHANGED <<store, row, dir, staging, lock, op, at, hit, read, cut>>
  BY DEF K!Release, K!files, K!place
<1>4. op[p] = "resume" /\ ~cut[p]
  BY <1>1, <1>2 DEF SoundProc, Placed, CutIsGone, K!ParseSteps, K!PurgeSteps, StoreInv, K!TypeOK
<1>5. store = "commands" => hit[p] \notin Tasks BY <1>1, <1>2 DEF SoundProc, Placed
<1>6. /\ step' = [step EXCEPT ![p] = "leave"] /\ step'[p] = "leave"
      /\ owner' = owner \/ owner' = [owner EXCEPT ![at[p]] = None]
  BY DEF K!Release, K!Go, StoreInv, K!TypeOK
<1>7. K!TypeOK' BY <1>6 DEF StoreInv, K!TypeOK, K!Release, K!ParseSteps, K!files, K!place
<1>8. \A t \in Tasks : owner'[t] = owner[t] \/ t = at[p] BY <1>6 DEF StoreInv, K!TypeOK
<1>9. Placed(p)' BY <1>1, <1>2, <1>3, <1>4, <1>6 DEF SoundProc, Placed, Copying
<1>10. HasLocks(p)' /\ AnswerTrue(p)'
  BY <1>3, <1>5, <1>6
  DEF HasLocks, AnswerTrue, Holding, Locked, Copying, Working, K!ResumeSteps, K!PurgeSteps
<1> QED BY <1>1, <1>3, <1>4, <1>6, <1>7, <1>8, <1>9, <1>10, OutsideStands

LEMMA PurgeHere ==
    ASSUME StoreInv, NEW p \in Procs, step[p] \in K!PurgeSteps
    PROVE  /\ Holding(p) /\ SoundProc(p) /\ op[p] = "purge" /\ ~cut[p]
           /\ at[p] \in Tasks /\ lock[at[p]] = p /\ SoundTask(at[p])
           /\ store \in {"service", "commands"}
           /\ store = "commands" => hit[p] \notin Tasks
<1>1. Holding(p) /\ step[p] # "idle" BY DEF Holding, Locked, K!PurgeSteps
<1>2. SoundProc(p) /\ at[p] \in Tasks /\ lock[at[p]] = p /\ SoundTask(at[p]) BY <1>1, AtTask
<1>3. op[p] = "purge"
  BY <1>2 DEF SoundProc, Placed, K!ParseSteps, K!ResumeSteps, K!PurgeSteps, Working, StoreInv,
      K!TypeOK
<1> QED BY <1>1, <1>2, <1>3 DEF SoundProc, Placed, CutIsGone, K!PurgeSteps

\* What a purge knows after a step.
LEMMA PurgeSound ==
    ASSUME K!StoreAssumption, StoreInv, NEW p \in Procs, step[p] \in K!PurgeSteps,
           UNCHANGED <<store, lock, op, at, hit>>, ~cut'[p],
           NEW w \in {"erase", "drop", "leave"}, step'[p] = w,
           w \in {"erase", "drop"} => ~dir'[at[p]].there
    PROVE  SoundProc(p)'
<1>1. /\ op[p] = "purge" /\ at[p] \in Tasks /\ lock[at[p]] = p /\ SoundProc(p)
      /\ store \in {"service", "commands"}
      /\ store = "commands" => hit[p] \notin Tasks
  BY PurgeHere
<1>2. Placed(p)' BY <1>1 DEF Placed, K!PurgeSteps, Copying
<1>3. HasLocks(p)' BY <1>1 DEF HasLocks
<1>4. KnowsRow(p)' BY <1>1 DEF KnowsRow, Working
<1>5. KnowsDirectory(p)' /\ KnowsStaging(p)' BY DEF KnowsDirectory, KnowsStaging
<1>6. CutIsGone(p)' BY DEF CutIsGone
<1>7. ClaimKept(p)' BY <1>1 DEF ClaimKept
<1>8. AnswerTrue(p)' BY <1>1 DEF AnswerTrue
<1> QED BY <1>2, <1>3, <1>4, <1>5, <1>6, <1>7, <1>8 DEF SoundProc

LEMMA QuarantineKeeps ==
    ASSUME K!StoreAssumption, StoreInv, NEW p \in Procs, K!Quarantine(p) PROVE StoreInv'
<1>1. step[p] = "quarantine" /\ step[p] \in K!PurgeSteps BY DEF K!Quarantine, K!PurgeSteps
<1>2. /\ Holding(p) /\ ~cut[p] /\ at[p] \in Tasks /\ SoundTask(at[p])
  BY <1>1, PurgeHere
<1>3. UNCHANGED <<store, row, owner, staging, lock, op, at, hit, read, cut>>
  BY DEF K!Quarantine, K!rows, K!place
<1>4. dir \in [Tasks -> Document] BY DirTyped DEF StoreInv
<1>5. PICK w \in {"leave", "erase"} :
          /\ step' = [step EXCEPT ![p] = w]
          /\ w = "leave" => dir' = dir
          /\ w = "erase" => dir' = [dir EXCEPT ![at[p]] = K!NoDir]
  BY DEF K!Quarantine, K!Removed, K!Go
<1>6. step'[p] = w BY <1>5 DEF StoreInv, K!TypeOK
<1>7. K!TypeOK'
  <2>1. K!NoDir \in Document BY DEF K!NoDir, Document, K!StoreAssumption
  <2>2. dir' \in [Tasks -> Document] BY <1>4, <1>5, <2>1
  <2>3. faults' \in 0..MaxFaults
    <3>1. faults \in 0..MaxFaults /\ (faults' = faults \/ (faults < MaxFaults /\ faults' = faults + 1))
      BY DEF K!Quarantine, StoreInv, K!TypeOK
    <3> QED BY <3>1 DEF K!StoreAssumption
  <2>4. step' \in [Procs -> {"idle", "lock"} \cup K!ParseSteps \cup K!ResumeSteps \cup K!PurgeSteps]
    BY <1>5 DEF StoreInv, K!TypeOK, K!ParseSteps, K!PurgeSteps
  <2> QED BY <2>2, <2>3, <2>4 DEF StoreInv, K!TypeOK, K!Quarantine, K!rows, K!place, Document
<1>8. ~K!NoDir.there BY DEF K!NoDir
<1>9. /\ w = "erase" => ~dir'[at[p]].there
      /\ \A t \in Tasks : t = at[p] \/ dir'[t] = dir[t]
      /\ \A t \in Tasks : ~dir[t].there => ~dir'[t].there
  BY <1>2, <1>4, <1>5, <1>8
<1>10. Frame(p)
  <2>1. \A q \in Procs \ {p} : step'[q] = step[q] BY <1>5 DEF StoreInv, K!TypeOK
  <2> QED BY <1>1, <1>2, <1>3, <1>9, <2>1 DEF Frame
<1>11. SoundTask(at[p])'
  <2>1. CASE w = "leave" BY <1>2, <1>3, <1>5, <2>1, TaskStands
  <2>2. CASE w = "erase" BY <1>3, <1>9, <2>2 DEF SoundTask
  <2> QED BY <2>1, <2>2
<1>12. SoundProc(p)' BY <1>1, <1>2, <1>3, <1>6, <1>9, PurgeSound
<1> QED BY <1>1, <1>3, <1>7, <1>10, <1>11, <1>12, StepStands

LEMMA EraseKeeps ==
    ASSUME K!StoreAssumption, StoreInv, NEW p \in Procs, K!Erase(p) PROVE StoreInv'
<1>1. step[p] = "erase" /\ step[p] \in K!PurgeSteps BY DEF K!Erase, K!PurgeSteps
<1>2. Holding(p) /\ ~cut[p] /\ at[p] \in Tasks /\ SoundProc(p) /\ SoundTask(at[p])
  BY <1>1, PurgeHere
<1>3. UNCHANGED <<store, row, owner, dir, staging, lock, op, at, hit, read>>
  BY DEF K!Erase, K!rows
<1>4. step' = [step EXCEPT ![p] = "drop"] /\ step'[p] = "drop"
  BY DEF K!Erase, K!Go, StoreInv, K!TypeOK
<1>5. cut' = [q \in Procs |-> cut[q] \/ (step[q] = "copy pictures" /\ hit[q] = at[p])]
  BY DEF K!Erase
<1>6. ~dir[at[p]].there BY <1>1, <1>2 DEF SoundProc, KnowsDirectory
<1>7. K!TypeOK'
  <2>1. cut' \in [Procs -> BOOLEAN] BY <1>5 DEF StoreInv, K!TypeOK
  <2>2. snapshot' \in [Tasks -> BOOLEAN] BY DEF StoreInv, K!TypeOK, K!Erase
  <2> QED BY <1>4, <2>1, <2>2 DEF StoreInv, K!TypeOK, K!Erase, K!PurgeSteps, K!rows
<1>8. Frame(p)
  <2>1. \A q \in Procs \ {p} : step'[q] = step[q] BY <1>4 DEF StoreInv, K!TypeOK
  <2>2. \A q \in Procs : cut'[q] = cut[q] \/ (step[q] = "copy pictures" /\ hit[q] = at[p])
    BY <1>5 DEF StoreInv, K!TypeOK
  <2> QED BY <1>1, <1>2, <1>3, <1>4, <1>6, <2>1, <2>2 DEF Frame
<1>9. ~cut'[p] BY <1>1, <1>2, <1>5
<1>10. SoundProc(p)' BY <1>1, <1>3, <1>4, <1>6, <1>9, PurgeSound
<1>11. SoundTask(at[p])' BY <1>2, <1>3, TaskStands
<1> QED BY <1>1, <1>3, <1>7, <1>8, <1>10, <1>11, StepStands

LEMMA DropKeeps ==
    ASSUME K!StoreAssumption, StoreInv, NEW p \in Procs, K!Drop(p) PROVE StoreInv'
<1>1. step[p] = "drop" /\ step[p] \in K!PurgeSteps BY DEF K!Drop, K!PurgeSteps
<1>2. Holding(p) /\ ~cut[p] /\ at[p] \in Tasks /\ SoundProc(p) BY <1>1, PurgeHere
<1>3. UNCHANGED <<store, dir, staging, lock, op, at, hit, read, cut>>
  BY DEF K!Drop, K!files, K!place
<1>4. /\ step' = [step EXCEPT ![p] = "leave"] /\ step'[p] = "leave"
      /\ row' = [row EXCEPT ![at[p]] = "purged"] /\ row'[at[p]] = "purged"
      /\ owner' = [owner EXCEPT ![at[p]] = None]
  BY <1>2 DEF K!Drop, K!Go, K!Status, StoreInv, K!TypeOK
<1>5. ~dir[at[p]].there BY <1>1, <1>2 DEF SoundProc, KnowsDirectory
<1>6. K!TypeOK'
  <2>1. row' \in [Tasks -> K!Statuses \cup K!Terminal \cup K!NoRow] BY <1>4 DEF StoreInv,
      K!TypeOK, K!NoRow
  <2>2. sections' \in [Tasks -> {"none", "pending", "done"}] BY DEF K!Drop, StoreInv, K!TypeOK
  <2>3. gen' \in [Tasks -> Nat] BY DEF K!Drop, StoreInv, K!TypeOK
  <2> QED BY <1>4, <2>1, <2>2, <2>3 DEF StoreInv, K!TypeOK, K!Drop, K!ParseSteps, K!files, K!place
<1>7. Frame(p)
  <2>1. \A q \in Procs \ {p} : step'[q] = step[q] BY <1>4 DEF StoreInv, K!TypeOK
  <2>2. \A t \in Tasks : t = at[p] \/ (row'[t] = row[t] /\ owner'[t] = owner[t])
    BY <1>4 DEF StoreInv, K!TypeOK
  <2> QED BY <1>2, <1>3, <1>4, <1>5, <2>1, <2>2 DEF Frame
<1>8. SoundProc(p)' BY <1>1, <1>2, <1>3, <1>4, PurgeSound
<1>9. SoundTask(at[p])' BY <1>3, <1>4, <1>5 DEF SoundTask
<1> QED BY <1>1, <1>3, <1>6, <1>7, <1>8, <1>9, StepStands

-----------------------------------------------------------------------------
(* Operations that start, tasks that are registered or cancelled, and stops *)

LEMMA BeginStands ==
    ASSUME K!StoreAssumption, StoreInv, NEW p \in Procs, NEW t \in Tasks,
           NEW what \in {"parse", "resume", "purge"}, NEW where \in {"lock", "look"},
           K!Begin(p, what, t, where), store \in {"service", "commands"},
           where = "look" => store = "commands" /\ what = "parse",
           store = "service" => \A q \in Procs : at[q] # t,
           store = "service" /\ what = "parse" => row[t] \notin K!NoRow
    PROVE  StoreInv'
<1>1. SoundProc(p) /\ step[p] = "idle" BY DEF StoreInv, K!Begin
<1>2. UNCHANGED <<store, row, owner, dir, staging, lock, hit, read, cut>>
  BY DEF K!Begin, K!rows, K!files
<1>3. /\ op' = [op EXCEPT ![p] = what] /\ at' = [at EXCEPT ![p] = t]
      /\ step' = [step EXCEPT ![p] = where]
  BY DEF K!Begin, K!Go
<1>4. op'[p] = what /\ at'[p] = t /\ step'[p] = where BY <1>3 DEF StoreInv, K!TypeOK
<1>5. \A q \in Procs \ {p} : step'[q] = step[q] /\ op'[q] = op[q] /\ at'[q] = at[q]
  BY <1>3 DEF StoreInv, K!TypeOK
<1>6. K!TypeOK'
  <2>1. /\ op' \in [Procs -> {"parse", "resume", "purge"}]
        /\ at' \in [Procs -> Tasks \cup {None}]
    BY <1>3 DEF StoreInv, K!TypeOK
  <2>2. step' \in [Procs -> {"idle", "lock"} \cup K!ParseSteps \cup K!ResumeSteps \cup K!PurgeSteps]
    BY <1>3 DEF StoreInv, K!TypeOK, K!ParseSteps
  <2> QED BY <2>1, <2>2 DEF StoreInv, K!TypeOK, K!Begin, K!rows, K!files
<1>7. Frame(p) BY <1>1, <1>2, <1>5 DEF Frame
<1>8. ~cut[p] /\ (store = "commands" => hit[p] \notin Tasks)
  BY <1>1 DEF SoundProc, CutIsGone, Placed
<1>9. SoundProc(p)'
  <2>1. Placed(p)' BY <1>2, <1>4, <1>8 DEF Placed, K!ParseSteps, Copying
  <2>2. HasLocks(p)' /\ AnswerTrue(p)'
    BY <1>2, <1>4
    DEF HasLocks, AnswerTrue, Holding, Locked, Copying, Working, K!ResumeSteps, K!PurgeSteps
  <2>3. KnowsRow(p)' BY <1>2, <1>4 DEF KnowsRow, Working
  <2>4. KnowsDirectory(p)' /\ KnowsStaging(p)' BY <1>4 DEF KnowsDirectory, KnowsStaging
  <2>5. CutIsGone(p)' BY <1>2, <1>8 DEF CutIsGone
  <2>6. ClaimKept(p)' BY <1>4 DEF ClaimKept, K!ParseSteps, K!ResumeSteps
  <2> QED BY <2>1, <2>2, <2>3, <2>4, <2>5, <2>6 DEF SoundProc
<1>10. \A q \in Procs : SoundProc(q)' BY <1>7, <1>9, OthersStand
<1>11. \A u \in Tasks : SoundTask(u)' BY <1>2, TaskStands DEF StoreInv
<1>12. Alone'
  <2> SUFFICES ASSUME store = "service", NEW q \in Procs, NEW r \in Procs, q # r,
                      step'[q] # "idle", step'[r] # "idle"
               PROVE  at'[q] # at'[r]
    BY <1>2 DEF Alone
  <2>1. CASE q = p BY <1>4, <1>5, <2>1
  <2>2. CASE r = p BY <1>4, <1>5, <2>2
  <2>3. CASE q # p /\ r # p BY <1>5, <2>3 DEF StoreInv, Alone
  <2> QED BY <2>1, <2>2, <2>3
<1> QED BY <1>6, <1>10, <1>11, <1>12 DEF StoreInv

LEMMA BeginKeeps ==
    ASSUME K!StoreAssumption, StoreInv, NEW p \in Procs, NEW t \in Tasks,
           K!Dispatch(p, t) \/ K!ParseCommand(p, t) \/ K!ResumeCommand(p, t) \/ K!Delete(p, t)
    PROVE  StoreInv'
<1>1. CASE K!Dispatch(p, t)
  <2>1. store = "service" /\ row[t] \notin K!NoRow /\ \A q \in Procs : at[q] # t
    BY <1>1 DEF K!Dispatch, K!NoRow
  <2>2. K!Begin(p, "parse", t, "lock") BY <1>1 DEF K!Dispatch
  <2> QED BY <2>1, <2>2, BeginStands
<1>2. CASE K!ParseCommand(p, t)
  <2>1. store = "commands" /\ K!Begin(p, "parse", t, "look") BY <1>2 DEF K!ParseCommand
  <2> QED BY <2>1, BeginStands
<1>3. CASE K!ResumeCommand(p, t)
  <2>1. store = "commands" /\ K!Begin(p, "resume", t, "lock") BY <1>3 DEF K!ResumeCommand
  <2> QED BY <2>1, BeginStands
<1>4. CASE K!Delete(p, t)
  <2>1. /\ store \in {"service", "commands"} /\ K!Begin(p, "purge", t, "lock")
        /\ store = "service" => \A q \in Procs : at[q] # t
    BY <1>4 DEF K!Delete
  <2> QED BY <2>1, BeginStands
<1> QED BY <1>1, <1>2, <1>3, <1>4

\* The scheduler writes the row of a task that is not over.
LEMMA RegisterKeeps ==
    ASSUME K!StoreAssumption, StoreInv, NEW t \in Tasks, K!Submit(t) \/ K!CancelWaiting(t)
    PROVE  StoreInv'
<1>1. /\ store = "service" /\ row[t] \notin {"purged", "COMPLETED"}
      /\ UNCHANGED <<store, sections, owner, gen, K!files, lock, step, K!place, calls, faults>>
  BY DEF K!Submit, K!CancelWaiting
<1>2. PICK s \in {"WAITING", "CANCELLED"} : row' = [row EXCEPT ![t] = s]
  BY DEF K!Submit, K!CancelWaiting, K!Status
<1>3. UNCHANGED <<dir, staging, op, at, hit, read, cut>> BY <1>1 DEF K!files, K!place
<1>4. K!TypeOK' BY <1>1, <1>2 DEF StoreInv, K!TypeOK, K!files, K!place, K!Statuses, K!Terminal
<1>5. /\ \A u \in Tasks : row[u] = "purged" => row'[u] = "purged"
      /\ \A u \in Tasks : row[u] \notin K!NoRow => row'[u] \notin K!NoRow
      /\ \A u \in Tasks : row[u] # "COMPLETED" => row'[u] # "COMPLETED"
      /\ \A u \in Tasks : row'[u] = row[u] \/ row'[u] \notin {"COMPLETED"} \cup K!NoRow
  BY <1>1, <1>2 DEF StoreInv, K!TypeOK, K!NoRow
<1>6. ASSUME NEW p \in Procs PROVE SoundProc(p)'
  <2>1. SoundProc(p) BY DEF StoreInv
  <2>2. step[p] # "idle" => at[p] \in Tasks BY <2>1 DEF SoundProc, Placed
  <2>3. Placed(p)' /\ HasLocks(p)' /\ ClaimKept(p)'
    <3>1. Holding(p)' <=> Holding(p) BY <1>1 DEF Holding
    <3> QED BY <1>1, <1>3, <2>1, <3>1 DEF SoundProc, Placed, HasLocks, ClaimKept
  <2>4. KnowsRow(p)' BY <1>1, <1>3, <1>5, <2>1, <2>2 DEF SoundProc, KnowsRow, Working
  <2>5. KnowsDirectory(p)' /\ KnowsStaging(p)'
    BY <1>1, <1>3, <2>1 DEF SoundProc, KnowsDirectory, KnowsStaging, K!WholeDocument, K!Rendered
  <2>6. CutIsGone(p)'
    <3>1. cut[p] => hit[p] \in Tasks BY <2>1 DEF SoundProc, CutIsGone, Placed, Copying
    <3> QED BY <1>1, <1>3, <1>5, <2>1, <3>1 DEF SoundProc, CutIsGone
  <2>7. AnswerTrue(p)' BY <1>1 DEF AnswerTrue
  <2> QED BY <2>3, <2>4, <2>5, <2>6, <2>7 DEF SoundProc
<1>7. ASSUME NEW u \in Tasks PROVE SoundTask(u)'
  <2>1. SoundTask(u) BY DEF StoreInv
  <2> QED BY <1>3, <1>5, <2>1 DEF SoundTask, K!WholeDocument, K!Rendered
<1>8. Alone' BY <1>1, <1>3 DEF StoreInv, Alone
<1> QED BY <1>4, <1>6, <1>7, <1>8 DEF StoreInv

\* A process that does nothing.
LEMMA IdleSound ==
    ASSUME NEW p \in Procs, step'[p] = "idle", ~cut'[p],
           store' = "commands" => hit'[p] \notin Tasks
    PROVE  SoundProc(p)'
BY DEF SoundProc, Placed, HasLocks, KnowsRow, KnowsDirectory, KnowsStaging, CutIsGone, ClaimKept,
       AnswerTrue, Holding, Locked, Copying, Working, K!ParseSteps, K!ResumeSteps, K!PurgeSteps

LEMMA StopTyped ==
    ASSUME K!StoreAssumption, K!TypeOK, NEW P \in SUBSET Procs, K!Stop(P),
           store' \in {"service", "commands", "stopped"}
    PROVE  K!TypeOK'
<1>1. lock' \in [Tasks -> Procs \cup {None}] BY DEF K!Stop, K!TypeOK
<1>2. step' \in [Procs -> {"idle", "lock"} \cup K!ParseSteps \cup K!ResumeSteps \cup K!PurgeSteps]
  BY DEF K!Stop, K!TypeOK
<1>3. at' \in [Procs -> Tasks \cup {None}] /\ hit' \in [Procs -> Tasks \cup {None}]
  BY DEF K!Stop, K!TypeOK
<1>4. cut' \in [Procs -> BOOLEAN] BY DEF K!Stop, K!TypeOK
<1>5. read' \in [Procs -> 0..MaxCalls] BY DEF K!Stop, K!TypeOK, K!StoreAssumption
<1>6. faults' \in 0..MaxFaults BY DEF K!Stop, K!TypeOK, K!StoreAssumption
<1> QED BY <1>1, <1>2, <1>3, <1>4, <1>5, <1>6 DEF K!Stop, K!TypeOK, K!rows, K!files

LEMMA CommandStopsKeeps ==
    ASSUME K!StoreAssumption, StoreInv, NEW p \in Procs, K!CommandStops(p) PROVE StoreInv'
<1>1. store = "commands" /\ step[p] # "idle" /\ store' = store /\ K!Stop({p})
  BY DEF K!CommandStops
<1>2. UNCHANGED <<row, dir, staging, op, owner>> BY <1>1 DEF K!Stop, K!rows, K!files
<1>3. step' = [step EXCEPT ![p] = "idle"] BY <1>1 DEF K!Stop, StoreInv, K!TypeOK
<1>4. \A q \in Procs \ {p} :
          at'[q] = at[q] /\ hit'[q] = hit[q] /\ read'[q] = read[q] /\ cut'[q] = cut[q]
  BY <1>1 DEF K!Stop, StoreInv, K!TypeOK
<1>5. \A t \in Tasks : lock'[t] = lock[t] \/ lock[t] \in {p, None} BY <1>1 DEF K!Stop
<1>6. step'[p] = "idle" /\ hit'[p] \notin Tasks /\ ~cut'[p]
  BY <1>1 DEF K!Stop, K!StoreAssumption
<1>7. SoundProc(p)' BY <1>6, IdleSound
<1>8. K!TypeOK' BY <1>1, StopTyped DEF StoreInv
<1> QED BY <1>1, <1>2, <1>3, <1>4, <1>5, <1>6, <1>7, <1>8, OutsideStands DEF SoundProc

\* All processes are idle while the service is down.
LEMMA NobodyWorks ==
    ASSUME StoreInv, store \notin {"service", "commands"}
    PROVE  \A p \in Procs : step[p] = "idle" /\ ~cut[p]
BY DEF StoreInv, SoundProc, Placed, CutIsGone

LEMMA AllIdle ==
    ASSUME StoreInv, K!TypeOK', store' # "commands", \A p \in Procs : step'[p] = "idle" /\ ~cut'[p],
           \A t \in Tasks : SoundTask(t)'
    PROVE  StoreInv'
<1>1. \A p \in Procs : SoundProc(p)' BY IdleSound
<1>2. Alone' BY DEF Alone
<1> QED BY <1>1, <1>2 DEF StoreInv

LEMMA ServiceStopsKeeps ==
    ASSUME K!StoreAssumption, StoreInv, K!ServiceStops PROVE StoreInv'
<1>1. K!Stop(Procs) /\ store' = "stopped" BY DEF K!ServiceStops
<1>2. K!TypeOK' BY <1>1, StopTyped DEF StoreInv
<1>3. \A p \in Procs : step'[p] = "idle" /\ ~cut'[p] BY <1>1 DEF K!Stop
<1>4. row' = row /\ dir' = dir BY <1>1 DEF K!Stop, K!rows, K!files
<1>5. \A t \in Tasks : SoundTask(t)' BY <1>4, TaskStands DEF StoreInv
<1> QED BY <1>1, <1>2, <1>3, <1>5, AllIdle

LEMMA MarkKeeps ==
    ASSUME K!StoreAssumption, StoreInv, K!MarkInterrupted PROVE StoreInv'
<1>1. store = "stopped" /\ store' = "marked" BY DEF K!MarkInterrupted
<1>2. UNCHANGED <<sections, owner, gen, K!files, lock, step, K!place, calls, faults>>
  BY DEF K!MarkInterrupted
<1>3. row' = [t \in Tasks |-> IF row[t] \in K!Statuses THEN "INTERRUPTED" ELSE row[t]]
  BY DEF K!MarkInterrupted
<1>4. K!TypeOK'
  <2>1. row' \in [Tasks -> K!Statuses \cup K!Terminal \cup K!NoRow]
    BY <1>3 DEF StoreInv, K!TypeOK, K!Terminal
  <2> QED BY <1>1, <1>2, <2>1 DEF StoreInv, K!TypeOK, K!files, K!place
<1>5. \A p \in Procs : step'[p] = "idle" /\ ~cut'[p]
  BY <1>1, <1>2, NobodyWorks DEF K!place
<1>6. ASSUME NEW t \in Tasks PROVE SoundTask(t)'
  <2>1. SoundTask(t) /\ dir' = dir BY <1>2 DEF StoreInv, K!files
  <2> QED BY <1>3, <2>1 DEF SoundTask, K!NoRow, K!WholeDocument, K!Rendered
<1> QED BY <1>1, <1>4, <1>5, <1>6, AllIdle

LEMMA SweepKeeps ==
    ASSUME K!StoreAssumption, StoreInv, K!SweepStart PROVE StoreInv'
<1>1. store = "marked" /\ store' = "service" BY DEF K!SweepStart
<1>2. UNCHANGED <<K!rows, snapshot, lock, step, K!place, calls, faults>> BY DEF K!SweepStart
<1>3. /\ staging' = [t \in Tasks |-> K!NoDir]
      /\ dir' = [t \in Tasks |-> IF row[t] = "WAITING" /\ sections[t] = "none"
                                 THEN K!NoDir ELSE dir[t]]
  BY DEF K!SweepStart
<1>4. K!TypeOK'
  <2>1. K!NoDir \in Document BY DEF K!NoDir, Document, K!StoreAssumption
  <2>2. dir \in [Tasks -> Document] BY DirTyped DEF StoreInv
  <2>3. dir' \in [Tasks -> Document] /\ staging' \in [Tasks -> Document]
    BY <1>3, <2>1, <2>2
  <2> QED BY <1>1, <1>2, <2>3 DEF StoreInv, K!TypeOK, K!rows, K!place, Document
<1>5. \A p \in Procs : step'[p] = "idle" /\ ~cut'[p]
  BY <1>1, <1>2, NobodyWorks DEF K!place
<1>6. ASSUME NEW t \in Tasks PROVE SoundTask(t)'
  <2>1. SoundTask(t) /\ row' = row BY <1>2 DEF StoreInv, K!rows
  <2>2. dir'[t] = K!NoDir \/ dir'[t] = dir[t] BY <1>3
  <2> QED BY <2>1, <2>2 DEF SoundTask, K!NoDir, K!WholeDocument, K!Rendered
<1> QED BY <1>1, <1>4, <1>5, <1>6, AllIdle

-----------------------------------------------------------------------------
(* The invariant, and the promises *)

LEMMA Initially ==
    ASSUME K!StoreAssumption, K!Init PROVE StoreInv
<1>1. K!TypeOK
  <2>1. K!NoDir \in Document BY DEF K!NoDir, Document, K!StoreAssumption
  <2>2. dir \in [Tasks -> Document] /\ staging \in [Tasks -> Document] BY <2>1 DEF K!Init
  <2>3. row \in [Tasks -> K!Statuses \cup K!Terminal \cup K!NoRow] BY DEF K!Init, K!NoRow
  <2> QED BY <2>2, <2>3 DEF K!Init, K!TypeOK, Document, K!StoreAssumption
<1>2. \A p \in Procs : step[p] = "idle" /\ ~cut[p] /\ hit[p] \notin Tasks
  BY DEF K!Init, K!StoreAssumption
<1>3. \A p \in Procs : SoundProc(p)
  BY <1>2
  DEF SoundProc, Placed, HasLocks, KnowsRow, KnowsDirectory, KnowsStaging, CutIsGone, ClaimKept,
      AnswerTrue, Holding, Locked, Copying, Working, K!ParseSteps, K!ResumeSteps, K!PurgeSteps
<1>4. \A t \in Tasks : SoundTask(t) BY DEF K!Init, SoundTask, K!NoDir
<1>5. Alone BY <1>2 DEF Alone
<1> QED BY <1>1, <1>3, <1>4, <1>5 DEF StoreInv

LEMMA StepsKeep ==
    ASSUME K!StoreAssumption, StoreInv, NEW p \in Procs, K!Steps(p) PROVE StoreInv'
<1>1. CASE K!Clear(p) \/ K!Lock(p) \/ K!Leave(p) \/ K!Report(p)
  BY <1>1, ClearKeeps, LockKeeps, TaskLeaveKeeps, ReportKeeps
<1>2. CASE K!Look(p) \/ K!LockHit(p) \/ K!Answer(p)
  BY <1>2, LookKeeps, LockHitKeeps, AnswerKeeps
<1>3. CASE K!OpenPictures(p) \/ K!CopyPictures(p) \/ K!WriteTexts(p) \/ K!Publish(p)
  BY <1>3, OpenPicturesKeeps, CopyPicturesKeeps, WriteTextsKeeps, PublishKeeps
<1>4. CASE K!CommitRows(p) \/ K!Verify(p) \/ K!Withdraw(p)
  BY <1>4, CommitRowsKeeps, VerifyKeeps, WithdrawKeeps
<1>5. CASE K!Promote(p) \/ K!Extract(p) \/ K!Section(p) \/ K!Interpret(p) \/ K!Complete(p)
  BY <1>5, PromoteKeeps, ExtractKeeps, SectionKeeps, InterpretKeeps, CompleteKeeps
<1>6. CASE K!Merge(p) \/ K!Receipt(p) \/ K!Fail(p)
  BY <1>6, TaskMergeKeeps, ReceiptKeeps, FailKeeps
<1>7. CASE K!Claim(p) \/ K!Assess(p) \/ K!Reset(p) \/ K!Release(p)
  BY <1>7, ClaimKeeps, AssessKeeps, ResetKeeps, ReleaseKeeps
<1>8. CASE K!Quarantine(p) \/ K!Erase(p) \/ K!Drop(p)
  BY <1>8, QuarantineKeeps, EraseKeeps, DropKeeps
<1> QED BY <1>1, <1>2, <1>3, <1>4, <1>5, <1>6, <1>7, <1>8 DEF K!Steps

LEMMA NextKeeps ==
    ASSUME K!StoreAssumption, StoreInv, K!Next PROVE StoreInv'
<1>1. CASE \E p \in Procs, t \in Tasks :
               K!Dispatch(p, t) \/ K!ParseCommand(p, t) \/ K!ResumeCommand(p, t) \/ K!Delete(p, t)
  BY <1>1, BeginKeeps
<1>2. CASE \E t \in Tasks : K!Submit(t) \/ K!CancelWaiting(t) BY <1>2, RegisterKeeps
<1>3. CASE \E p \in Procs : K!Steps(p) \/ K!CommandStops(p) BY <1>3, StepsKeep, CommandStopsKeeps
<1>4. CASE K!ServiceStops \/ K!MarkInterrupted \/ K!SweepStart
  BY <1>4, ServiceStopsKeeps, MarkKeeps, SweepKeeps
<1> QED BY <1>1, <1>2, <1>3, <1>4 DEF K!Next

LEMMA StutterKeeps ==
    ASSUME StoreInv, UNCHANGED K!vars PROVE StoreInv'
<1>1. /\ UNCHANGED <<store, row, sections, owner, gen, snapshot, dir, staging, lock, step>>
      /\ UNCHANGED <<op, at, hit, seen, cut, read, calls, faults>>
  BY DEF K!vars, K!rows, K!files, K!place
<1>2. K!TypeOK' /\ Alone' BY <1>1 DEF StoreInv, K!TypeOK, Alone
<1>3. ASSUME NEW p \in Procs PROVE SoundProc(p)'
  <2>1. SoundProc(p) BY DEF StoreInv
  <2>2. Placed(p)' /\ HasLocks(p)' /\ KnowsRow(p)'
    BY <1>1, <2>1 DEF SoundProc, Placed, HasLocks, KnowsRow, Holding
  <2>3. KnowsDirectory(p)' /\ KnowsStaging(p)'
    BY <1>1, <2>1 DEF SoundProc, KnowsDirectory, KnowsStaging, K!WholeDocument, K!Rendered
  <2>4. CutIsGone(p)' /\ ClaimKept(p)' /\ AnswerTrue(p)'
    BY <1>1, <2>1 DEF SoundProc, CutIsGone, ClaimKept, AnswerTrue, K!WholeDocument, K!Rendered
  <2> QED BY <2>2, <2>3, <2>4 DEF SoundProc
<1>4. \A t \in Tasks : SoundTask(t)' BY <1>1, TaskStands DEF StoreInv
<1> QED BY <1>2, <1>3, <1>4 DEF StoreInv

LEMMA Inductive ==
    ASSUME K!StoreAssumption PROVE K!Spec => []StoreInv
<1>1. K!Init => StoreInv BY Initially
<1>2. StoreInv /\ [K!Next]_(K!vars) => StoreInv' BY NextKeeps, StutterKeeps
<1> QED BY <1>1, <1>2, PTL DEF K!Spec

\* The state of the tasks has the types that TypeOK gives it (the rows and
\* directories of storage/repository.py and storage/fs_layout.py).
THEOREM StoreTypeCorrect == K!Spec => []K!TypeOK
<1>1. StoreInv => K!TypeOK BY DEF StoreInv
<1> QED BY <1>1, Inductive, TasksAssumption, PTL

\* A task that says COMPLETED has its whole document, or, once a purge has begun,
\* nothing (_run_registered_parse, resume, _materialize_cached_task and
\* _purge_locked).
THEOREM CompletedWhole == K!Spec => []CompletedIsWhole
<1>1. StoreInv => CompletedIsWhole
  BY DEF StoreInv, SoundTask, K!CompletedIsWhole, CompletedIsWhole,
         K!WholeDocument, WholeDocument, K!Rendered, Rendered
<1> QED BY <1>1, Inductive, TasksAssumption, PTL

\* No directory outlives the row that a purge would find it by (_purge_locked,
\* materialize_cached_task).
THEOREM DirectoryRow == K!Spec => []DirectoryHasRow
<1>1. StoreInv => DirectoryHasRow
  BY DEF StoreInv, SoundTask, K!DirectoryHasRow, DirectoryHasRow, K!NoRow, NoRow
<1> QED BY <1>1, Inductive, TasksAssumption, PTL

\* What a parse answers from an earlier task is true when it is answered
\* (_reuse_direct_file_cache).
THEOREM AnswersTrue == K!Spec => []AnswerIsTrue
<1>1. StoreInv => AnswerIsTrue
  BY DEF StoreInv, SoundProc, AnswerTrue, K!AnswerIsTrue, AnswerIsTrue,
         K!WholeDocument, WholeDocument, K!Rendered, Rendered
<1> QED BY <1>1, Inductive, TasksAssumption, PTL

\* The claim of a resume, and the lock of its task, are its own until it gives
\* them back (_clear_stale_resume_claims, claim_task_resume, _release_resume).
THEOREM ClaimStays == K!Spec => []ClaimIsKept
<1>1. StoreInv => ClaimIsKept
  BY DEF StoreInv, SoundProc, ClaimKept, K!ClaimIsKept, ClaimIsKept,
         K!ResumeSteps, ResumeSteps, K!ParseSteps, ParseSteps
<1> QED BY <1>1, Inductive, TasksAssumption, PTL
=============================================================================
