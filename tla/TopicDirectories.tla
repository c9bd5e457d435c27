-------------------------- MODULE TopicDirectories --------------------------
(***************************************************************************)
(* The directories of a course's topics (workbench/topic_markdown_sync.py):*)
(* a synchronisation finds or makes the directory of a topic and publishes *)
(* its map into it, a merge of unpublished topics renames their            *)
(* directories away, replaces the rows and cleans up, a deletion empties   *)
(* the directory and removes the row.  Files and rows change separately,   *)
(* by several threads of one service, while the user puts files of his own *)
(* into a directory and the process stops anywhere.                        *)
(*                                                                         *)
(* A topic keeps its title, so that it has one visible name; a hidden name *)
(* (".pdf2md-merge-<topic>-<operation>") is a new one of every merge.  A   *)
(* directory is its inode.  The rows of a topic, its claims and fences in  *)
(* full are TopicGeneration.tla, the journal of a commit is                *)
(* MarkdownPublication.tla.  A lock file that is replaced counts as the    *)
(* same one here; the code then refuses, which here it may do.             *)
(***************************************************************************)
EXTENDS Naturals, FiniteSets

CONSTANTS
    Threads,
    Dirs,       \* inodes
    None,
    LastTopic,  \* the topics that are looked at are 1..LastTopic, by seq
    MaxTroubles \* bound of the model: transactions that fail, files of the user, crashes

ASSUME DirectoriesAssumption ==
    /\ None \notin Dirs \cup Threads \cup ({"visible", "hidden"} \X (1..LastTopic))
    /\ LastTopic \in Nat \ {0, 1} /\ MaxTroubles \in Nat

VARIABLES
    live,       \* topics with a row in wb_topics
    claim,      \* owner_id of wb_topic_markdown_sync
    place,      \* place[d]: the name of d, None when it is removed
    files,      \* files[d]
    dirLock,    \* flock of a directory (with _BUNDLE_LOCKS)
    fileLock,   \* flock of its LOCK_NAME
    db,         \* repo._connection_lock
    pc,
    topics,     \* topics[p]: what the request of p is about
    hold,       \* hold[p][t]: the directory p has open for t
    made,       \* made[p]: placeholder_created
    away,       \* away[p]: detached
    existed,    \* existed[p]: target_existed
    shown,      \* topics whose map has been published and not given up since
    troubles

fileVars == <<place, files, dirLock, fileLock>>
jobVars == <<topics, hold, made, away, existed>>
rowVars == <<live, claim>>
vars == <<rowVars, fileVars, db, pc, jobVars, shown, troubles>>

Topics == 1..LastTopic
Whole == {"lock", "owner", "map"}
Syncing == {"rename", "open", "own", "commit"}
Merging == {"take", "lockFile", "flock", "check", "detach", "merge", "clean", "leave"}
Deleting == {"dLock", "dFlock", "dCheck", "dUnlink", "dRemove", "dRow"}
NoDirs == [t \in Topics |-> None]
Least(S) == CHOOSE t \in S : \A u \in S : t <= u

TypeOK ==
    /\ live \subseteq Topics
    /\ claim \in [Topics -> Threads \cup {None}]
    /\ place \in [Dirs -> ({"visible", "hidden"} \X Topics) \cup {None}]
    /\ files \in [Dirs -> SUBSET (Whole \cup {"user"})]
    /\ dirLock \in [Dirs -> Threads \cup {None}] /\ fileLock \in [Dirs -> Threads \cup {None}]
    /\ db \in Threads \cup {None}
    /\ pc \in [Threads -> {"idle"} \cup Syncing \cup Merging \cup Deleting]
    /\ topics \in [Threads -> SUBSET Topics]
    /\ hold \in [Threads -> [Topics -> Dirs \cup {None}]]
    /\ made \in [Threads -> SUBSET Topics] /\ away \in [Threads -> SUBSET Topics]
    /\ existed \in [Threads -> BOOLEAN] /\ shown \subseteq Topics
    /\ troubles \in 0..MaxTroubles

Init ==
    /\ live = Topics
    /\ claim = [t \in Topics |-> None] /\ place = [d \in Dirs |-> None]
    /\ files = [d \in Dirs |-> {}]
    /\ dirLock = [d \in Dirs |-> None] /\ fileLock = [d \in Dirs |-> None] /\ db = None
    /\ pc = [p \in Threads |-> "idle"] /\ topics = [p \in Threads |-> {}]
    /\ hold = [p \in Threads |-> NoDirs] /\ made = [p \in Threads |-> {}]
    /\ away = [p \in Threads |-> {}] /\ existed = [p \in Threads |-> FALSE]
    /\ shown = {} /\ troubles = 0

-----------------------------------------------------------------------------
(* Directories *)

Name(d, kind, t) == place[d] = <<kind, t>>
Here(t) == {d \in Dirs : Name(d, "visible", t)}

\* _directory_with_marker: hidden directories are looked into as well.
MapsOf(t) == {d \in Dirs : (Name(d, "visible", t) \/ Name(d, "hidden", t)) /\ "map" \in files[d]}

\* An inode that nothing refers to.
Free == {d \in Dirs : place[d] = None /\ \A p \in Threads, t \in Topics : hold[p][t] # d}

\* os.mkdir of a name nobody has
Make(d, t) ==
    /\ d = CHOOSE e \in Free : TRUE
    /\ place' = [place EXCEPT ![d] = <<"visible", t>>] /\ files' = [files EXCEPT ![d] = {}]

Add(d, f) == files' = [files EXCEPT ![d] = @ \cup {f}]

\* os.rmdir, of the directories D
Gone(D) ==
    /\ place' = [d \in Dirs |-> IF d \in D THEN None ELSE place[d]]
    /\ files' = [d \in Dirs |-> IF d \in D THEN {} ELSE files[d]]

\* _validate_delete_directory
Valid(d, kind, t) == Name(d, kind, t) /\ files[d] = Whole

\* What _remove_created_placeholder asks for.
Bare(d, kind, t) == Name(d, kind, t) /\ files[d] = {"lock"}

Trouble == troubles < MaxTroubles /\ troubles' = troubles + 1

Goto(p, l) == pc' = [pc EXCEPT ![p] = l]

\* The request ends; its descriptors, and with them its locks, are closed.
Ends(p) ==
    /\ Goto(p, "idle") /\ topics' = [topics EXCEPT ![p] = {}]
    /\ hold' = [hold EXCEPT ![p] = NoDirs]
    /\ made' = [made EXCEPT ![p] = {}] /\ away' = [away EXCEPT ![p] = {}]
    /\ existed' = [existed EXCEPT ![p] = FALSE]
    /\ dirLock' = [d \in Dirs |-> IF dirLock[d] = p THEN None ELSE dirLock[d]]
    /\ fileLock' = [d \in Dirs |-> IF fileLock[d] = p THEN None ELSE fileLock[d]]
    /\ db' = IF db = p THEN None ELSE db

-----------------------------------------------------------------------------
(* _publish_topic_markdown *)

The(p) == CHOOSE t \in topics[p] : TRUE
Dir(p) == hold[p][The(p)]

SyncFails(p) ==
    /\ Ends(p)
    /\ claim' = [t \in Topics |-> IF claim[t] = p THEN None ELSE claim[t]]
    /\ UNCHANGED <<live, place, files, shown, troubles>>

\* The claim, which is taken over when it has expired, the state snapshot,
\* target_existed and what migrate_generated_directory finds.  A name that is
\* another's, or two directories with the marker, are an exception, and nothing
\* has changed.
BeginSync(p, t) ==
    /\ pc[p] = "idle" /\ t \in live
    /\ \/ /\ MapsOf(t) = {} /\ \A d \in Here(t) : "owner" \in files[d]
          /\ Goto(p, "open") /\ UNCHANGED hold
       \/ /\ Cardinality(MapsOf(t)) = 1 /\ MapsOf(t) = Here(t)
          /\ Goto(p, "open") /\ UNCHANGED hold
       \/ /\ Cardinality(MapsOf(t)) = 1 /\ Here(t) = {}
          /\ hold' = [hold EXCEPT ![p][t] = CHOOSE d \in MapsOf(t) : TRUE] /\ Goto(p, "rename")
    /\ claim' = [claim EXCEPT ![t] = p] /\ topics' = [topics EXCEPT ![p] = {t}]
    /\ existed' = [existed EXCEPT ![p] = Here(t) # {}]
    /\ UNCHANGED <<live, fileVars, db, made, away, shown, troubles>>

\* os.replace puts the directory in the place of an empty one.
Rename(p) ==
    LET t == The(p) IN
    /\ pc[p] = "rename" /\ Name(Dir(p), "hidden", t) /\ \A e \in Here(t) : files[e] = {}
    /\ place' = [d \in Dirs |-> IF d = Dir(p) THEN <<"visible", t>>
                                ELSE IF d \in Here(t) THEN None ELSE place[d]]
    /\ hold' = [hold EXCEPT ![p] = NoDirs] /\ Goto(p, "open")
    /\ UNCHANGED <<rowVars, files, dirLock, fileLock, db, topics, made, away, existed, shown,
                   troubles>>

\* open_secure_directory
OpenDir(p) ==
    LET t == The(p) IN
    /\ pc[p] = "open" /\ Goto(p, "own")
    /\ \/ \E d \in Here(t) : hold' = [hold EXCEPT ![p][t] = d] /\ UNCHANGED <<place, files>>
       \/ Here(t) = {} /\ \E d \in Free : hold' = [hold EXCEPT ![p][t] = d] /\ Make(d, t)
    /\ UNCHANGED <<rowVars, dirLock, fileLock, db, topics, made, away, existed, shown, troubles>>

\* allow_create_or_replace
MayOwn(p) == ~existed[p] \/ \E d \in Here(The(p)) : "map" \in files[d]

\* ensure_directory_owner; no file can be made in a directory that was removed.
Own(p) ==
    /\ pc[p] = "own" /\ place[Dir(p)] # None
    /\ "owner" \in files[Dir(p)] \/ MayOwn(p)
    /\ Add(Dir(p), "owner") /\ Goto(p, "commit")
    /\ UNCHANGED <<rowVars, place, dirLock, fileLock, db, jobVars, shown, troubles>>

NotOwned(p) ==
    /\ pc[p] = "own"
    /\ place[Dir(p)] = None \/ ("owner" \notin files[Dir(p)] /\ ~MayOwn(p))
    /\ SyncFails(p)

\* _locked_bundle_directories, commit_markdown_publication: the lock file, then the
\* map and the row, fenced, under the lock of the connection.
Commit(p) ==
    LET t == The(p) IN
    /\ pc[p] = "commit" /\ dirLock[Dir(p)] = None /\ db = None
    /\ t \in live /\ claim[t] = p /\ place[Dir(p)] # None
    /\ files' = [files EXCEPT ![Dir(p)] = @ \cup {"lock", "map"}]
    /\ shown' = shown \cup {t}
    /\ claim' = [claim EXCEPT ![t] = None] /\ Ends(p)
    /\ UNCHANGED <<live, place, troubles>>

\* The fence refuses, or the journal cannot be written; the lock file stays.
CommitFails(p) ==
    /\ pc[p] = "commit" /\ dirLock[Dir(p)] = None /\ db = None
    /\ files' = [files EXCEPT ![Dir(p)] = IF place[Dir(p)] = None THEN @ ELSE @ \cup {"lock"}]
    /\ claim' = [t \in Topics |-> IF claim[t] = p THEN None ELSE claim[t]]
    /\ Ends(p) /\ UNCHANGED <<live, place, shown, troubles>>

\* The rename finds the name taken, or the directory gone.
RenameFails(p) == pc[p] = "rename" /\ SyncFails(p)

-----------------------------------------------------------------------------
(* What a merge and a deletion share *)

\* The lock file is opened, or made in a placeholder or in a directory of t.
LockFileReady(p, t, d) ==
    /\ place[d] # None
    /\ IF t \in made[p] THEN "lock" \notin files[d]
       ELSE "lock" \in files[d] \/ ("owner" \in files[d] /\ "user" \notin files[d])

\* mkdir, or the directory that is there
OpenTarget(p, t) ==
    \/ \E d \in Here(t) :
        hold' = [hold EXCEPT ![p][t] = d] /\ UNCHANGED <<place, files, made>>
    \/ /\ Here(t) = {} /\ made' = [made EXCEPT ![p] = @ \cup {t}]
       /\ \E d \in Free : hold' = [hold EXCEPT ![p][t] = d] /\ Make(d, t)

Untouched(p, t) ==
    IF t \in made[p] THEN Bare(hold[p][t], "visible", t) ELSE Valid(hold[p][t], "visible", t)

-----------------------------------------------------------------------------
(* merge_unpublished_topics *)

\* Mutant: a hidden directory is cleaned whether its topic is there or not.
AllHidden == {d \in Dirs : \E t \in Topics : Name(d, "hidden", t) /\ "lock" \in files[d]}

\* The hidden directories whose topic has no row.
Journals ==
    {d \in Dirs : \E t \in Topics \ live : Name(d, "hidden", t) /\ "lock" \in files[d]}

\* _cleanup_committed_merge_journals
Tidy ==
    /\ \A d \in Journals : fileLock[d] = None
    /\ Gone({d \in Journals : files[d] \in {{"lock"}, Whole}})

BeginMerge(p, S) ==
    /\ pc[p] = "idle" /\ S \subseteq live /\ Cardinality(S) = 2 /\ Tidy
    /\ topics' = [topics EXCEPT ![p] = S] /\ Goto(p, "take")
    /\ UNCHANGED <<rowVars, dirLock, fileLock, db, hold, made, away, existed, shown, troubles>>

\* Another two topics of the course are merged.
OtherMerge ==
    /\ Tidy
    /\ UNCHANGED <<rowVars, dirLock, fileLock, db, pc, jobVars, shown, troubles>>

\* The topic p prepares: one after the other, by seq.
Current(p) ==
    LET todo == {t \in topics[p] : hold[p][t] = None \/ fileLock[hold[p][t]] # p}
    IN Least(todo)

Take(p) ==
    /\ pc[p] = "take" /\ Goto(p, "lockFile")
    /\ \E t \in topics[p] : t = Current(p) /\ OpenTarget(p, t)
    /\ UNCHANGED <<rowVars, dirLock, fileLock, db, topics, away, existed, shown, troubles>>

TakeLockFile(p) ==
    LET t == Current(p) d == hold[p][t] IN
    /\ pc[p] = "lockFile" /\ LockFileReady(p, t, d)
    /\ Add(d, "lock") /\ Goto(p, "flock")
    /\ UNCHANGED <<rowVars, place, dirLock, fileLock, db, jobVars, shown, troubles>>

\* There is no record of this directory yet: it is left as it is.
NoLockFile(p) ==
    LET t == Current(p) IN
    /\ pc[p] = "lockFile" /\ ~LockFileReady(p, t, hold[p][t])
    /\ hold' = [hold EXCEPT ![p][t] = None] /\ made' = [made EXCEPT ![p] = @ \ {t}]
    /\ Goto(p, "leave")
    /\ UNCHANGED <<rowVars, fileVars, db, topics, away, existed, shown, troubles>>

Flock(p) ==
    LET t == Current(p) d == hold[p][t] IN
    /\ pc[p] = "flock" /\ fileLock[d] = None
    /\ fileLock' = [fileLock EXCEPT ![d] = p]
    /\ Goto(p, IF ~Untouched(p, t) THEN "leave"
               ELSE IF \E u \in topics[p] : hold[p][u] = None THEN "take" ELSE "check")
    /\ UNCHANGED <<rowVars, place, files, dirLock, db, jobVars, shown, troubles>>

\* Once more, under the lock of the connection.
Check(p) ==
    /\ pc[p] = "check" /\ db = None
    /\ IF topics[p] \subseteq live /\ \A t \in topics[p] : Untouched(p, t)
       THEN db' = p /\ Goto(p, "detach") ELSE Goto(p, "leave") /\ UNCHANGED db
    /\ UNCHANGED <<rowVars, fileVars, jobVars, shown, troubles>>

\* A topic is running, or has output: it is protected.
Protected(p) ==
    /\ pc[p] = "check" /\ db = None /\ Goto(p, "leave")
    /\ UNCHANGED <<rowVars, fileVars, db, jobVars, shown, troubles>>

Detach(p) ==
    /\ pc[p] = "detach"
    /\ \E t \in topics[p] \ away[p] :
        /\ t = Least(topics[p] \ away[p])
        /\ place' = [d \in Dirs |-> IF d \in Here(t) THEN <<"hidden", t>> ELSE place[d]]
        /\ away' = [away EXCEPT ![p] = @ \cup {t}]
    /\ Goto(p, IF away'[p] = topics[p] THEN "merge" ELSE "detach")
    /\ UNCHANGED <<rowVars, files, dirLock, fileLock, db, topics, hold, made, existed, shown,
                   troubles>>

\* repo.merge_topics; the topic that is made of them has another name.
Merge(p) ==
    /\ pc[p] = "merge" /\ live' = live \ topics[p] /\ db' = None /\ Goto(p, "clean")
    /\ UNCHANGED <<claim, fileVars, jobVars, shown, troubles>>

\* A directory that cannot be put back ends the loop.
Stuck(p) ==
    {t \in away[p] : IF t \in made[p] THEN files[hold[p][t]] # {"lock"}
                     ELSE \E e \in Here(t) : files[e] # {}}

\* The records of the loop over reversed(records) before that one.
PutBack(p) == {t \in away[p] : \A u \in Stuck(p) : t > u}

\* d goes back to the name of t.
Returned(p, t, d) == t \in PutBack(p) \ made[p] /\ hold[p][t] = d

\* The transaction fails.
MergeFails(p) ==
    /\ pc[p] = "merge" /\ Trouble
    /\ LET gone == {hold[p][t] : t \in PutBack(p) \cap made[p]}
                   \cup UNION {Here(t) : t \in PutBack(p) \ made[p]}
       IN /\ place' = [d \in Dirs |-> IF \E t \in Topics : Returned(p, t, d)
                                      THEN <<"visible", CHOOSE t \in Topics : Returned(p, t, d)>>
                                      ELSE IF d \in gone THEN None ELSE place[d]]
          /\ files' = [d \in Dirs |-> IF d \in gone THEN {} ELSE files[d]]
    /\ away' = [away EXCEPT ![p] = @ \ PutBack(p)]
    /\ made' = [made EXCEPT ![p] = @ \ PutBack(p)]
    /\ db' = None /\ Goto(p, "leave")
    /\ UNCHANGED <<rowVars, dirLock, fileLock, topics, hold, existed, shown>>

\* Mutant: whatever else is in the directory goes with it.
Emptied(d, t) == Name(d, "hidden", t) /\ Whole \subseteq files[d]

\* What _remove_detached_topic_directory asks for.
Removable(d, t) == Valid(d, "hidden", t)

\* The hidden directories of the merged topics; one that is not as it was stays.
Clean(p) ==
    /\ pc[p] = "clean"
    /\ Gone({hold[p][t] : t \in {u \in topics[p] :
                IF u \in made[p] THEN Bare(hold[p][u], "hidden", u)
                ELSE Removable(hold[p][u], u)}})
    /\ Ends(p) /\ UNCHANGED <<rowVars, shown, troubles>>

\* finally: placeholders that are still there go.
Leave(p) ==
    /\ pc[p] = "leave"
    /\ Gone({hold[p][t] : t \in {u \in made[p] \ away[p] :
                hold[p][u] # None /\ Bare(hold[p][u], "visible", u)}})
    /\ Ends(p) /\ UNCHANGED <<rowVars, shown, troubles>>

-----------------------------------------------------------------------------
(* delete_unpublished_topic *)

BeginDelete(p, t) ==
    /\ pc[p] = "idle" /\ t \in live /\ topics' = [topics EXCEPT ![p] = {t}]
    /\ OpenTarget(p, t) /\ Goto(p, "dLock")
    /\ UNCHANGED <<rowVars, dirLock, fileLock, db, away, existed, shown, troubles>>

DeleteLock(p) ==
    /\ pc[p] = "dLock" /\ dirLock[Dir(p)] = None
    /\ LockFileReady(p, The(p), Dir(p)) /\ Add(Dir(p), "lock")
    /\ dirLock' = [dirLock EXCEPT ![Dir(p)] = p] /\ Goto(p, "dFlock")
    /\ UNCHANGED <<rowVars, place, fileLock, db, jobVars, shown, troubles>>

DeleteRefused(p) ==
    /\ pc[p] = "dLock" /\ dirLock[Dir(p)] = None /\ ~LockFileReady(p, The(p), Dir(p))
    /\ Ends(p) /\ UNCHANGED <<rowVars, place, files, shown, troubles>>

DeleteFlock(p) ==
    /\ pc[p] = "dFlock" /\ fileLock[Dir(p)] = None
    /\ fileLock' = [fileLock EXCEPT ![Dir(p)] = p] /\ Goto(p, "dCheck")
    /\ UNCHANGED <<rowVars, place, files, dirLock, db, jobVars, shown, troubles>>

DeleteCheck(p) ==
    /\ pc[p] = "dCheck" /\ db = None /\ The(p) \in live /\ The(p) \notin made[p]
    /\ Untouched(p, The(p)) /\ db' = p /\ Goto(p, "dUnlink")
    /\ UNCHANGED <<rowVars, fileVars, jobVars, shown, troubles>>

\* A placeholder goes in the transaction of the row.
DeletePlaceholder(p) ==
    /\ pc[p] = "dCheck" /\ db = None /\ The(p) \in live /\ The(p) \in made[p]
    /\ Untouched(p, The(p)) /\ Gone({Dir(p)})
    /\ live' = live \ {The(p)} /\ Ends(p)
    /\ UNCHANGED <<claim, shown, troubles>>

\* The topic is gone, protected or changed; a placeholder is taken away again.
DeleteStops(p) ==
    /\ pc[p] = "dCheck" /\ db = None
    /\ Gone(IF The(p) \in made[p] /\ Untouched(p, The(p)) THEN {Dir(p)} ELSE {})
    /\ Ends(p) /\ UNCHANGED <<rowVars, shown, troubles>>

DeleteFiles(p) ==
    /\ pc[p] = "dUnlink" /\ files' = [files EXCEPT ![Dir(p)] = @ \ {"map", "owner"}]
    /\ shown' = shown \ {The(p)} /\ Goto(p, "dRemove")
    /\ UNCHANGED <<rowVars, place, dirLock, fileLock, db, jobVars, troubles>>

DeleteDir(p) ==
    /\ pc[p] = "dRemove" /\ Bare(Dir(p), "visible", The(p))
    /\ Gone({Dir(p)}) /\ Goto(p, "dRow")
    /\ UNCHANGED <<rowVars, dirLock, fileLock, db, jobVars, shown, troubles>>

\* _restore_delete_directory, of a directory that is still there
DeleteUndone(p) ==
    /\ pc[p] = "dRemove" /\ ~Bare(Dir(p), "visible", The(p))
    /\ IF Name(Dir(p), "visible", The(p))
       THEN /\ files' = [files EXCEPT ![Dir(p)] = @ \cup Whole]
            /\ shown' = shown \cup {The(p)}
       ELSE UNCHANGED <<files, shown>>
    /\ Ends(p) /\ UNCHANGED <<rowVars, place, troubles>>

DeleteRow(p) ==
    /\ pc[p] = "dRow" /\ live' = live \ {The(p)} /\ Ends(p)
    /\ UNCHANGED <<claim, place, files, shown, troubles>>

\* _restore_delete_directory, of one that is gone: it is made again, unless
\* another took the name.
DeleteRowFails(p) ==
    LET t == The(p) IN
    /\ pc[p] = "dRow" /\ Trouble
    /\ IF Here(t) = {}
       THEN /\ \E d \in Free : d = (CHOOSE e \in Free : TRUE)
                   /\ place' = [place EXCEPT ![d] = <<"visible", t>>]
                   /\ files' = [files EXCEPT ![d] = Whole]
            /\ shown' = shown \cup {t}
       ELSE UNCHANGED <<place, files, shown>>
    /\ Ends(p) /\ UNCHANGED <<rowVars>>

-----------------------------------------------------------------------------
(* The user, and the process *)

UserWrites(d) ==
    /\ place[d] # None /\ "user" \notin files[d] /\ Trouble /\ Add(d, "user")
    /\ UNCHANGED <<rowVars, place, dirLock, fileLock, db, pc, jobVars, shown>>

\* What an unlink sequence that is struck leaves of a directory.
Remainders(p, d) ==
    CASE pc[p] = "dUnlink" -> {files[d] \ {"map"}}
      [] pc[p] = "dRemove" /\ files[d] = {"lock"} -> {{}}
      [] pc[p] = "clean" /\ files[d] = Whole -> {{"lock", "owner"}, {"lock"}, {}}
      [] pc[p] \in {"clean", "leave"} /\ files[d] = {"lock"} -> {{}}
      [] OTHER -> {}

Stops ==
    /\ Trouble
    /\ pc' = [p \in Threads |-> "idle"] /\ topics' = [p \in Threads |-> {}]
    /\ hold' = [p \in Threads |-> NoDirs] /\ made' = [p \in Threads |-> {}]
    /\ away' = [p \in Threads |-> {}] /\ existed' = [p \in Threads |-> FALSE]
    /\ dirLock' = [d \in Dirs |-> None] /\ fileLock' = [d \in Dirs |-> None] /\ db' = None
    /\ UNCHANGED <<rowVars, place>>

Crash == (\E p \in Threads : pc[p] # "idle") /\ Stops /\ UNCHANGED <<files, shown>>

CrashRemoving(p, t) ==
    /\ hold[p][t] # None
    /\ \E rest \in Remainders(p, hold[p][t]) : files' = [files EXCEPT ![hold[p][t]] = rest]
    /\ shown' = shown \ {t} /\ Stops

Next ==
    \/ \E p \in Threads :
        \/ \E t \in Topics : BeginSync(p, t) \/ BeginDelete(p, t) \/ CrashRemoving(p, t)
        \/ Rename(p) \/ RenameFails(p) \/ OpenDir(p) \/ Own(p) \/ NotOwned(p)
        \/ Commit(p) \/ CommitFails(p)
        \/ \E S \in SUBSET Topics : BeginMerge(p, S)
        \/ Take(p) \/ TakeLockFile(p) \/ NoLockFile(p) \/ Flock(p) \/ Check(p)
        \/ Protected(p) \/ Detach(p) \/ Merge(p) \/ MergeFails(p) \/ Clean(p) \/ Leave(p)
        \/ DeleteLock(p) \/ DeleteRefused(p) \/ DeleteFlock(p) \/ DeleteCheck(p)
        \/ DeletePlaceholder(p) \/ DeleteStops(p) \/ DeleteFiles(p) \/ DeleteDir(p)
        \/ DeleteUndone(p) \/ DeleteRow(p) \/ DeleteRowFails(p)
    \/ \E d \in Dirs : UserWrites(d)
    \/ OtherMerge \/ Crash

Spec == Init /\ [][Next]_vars

-----------------------------------------------------------------------------
\* A topic that has a row and a published map still has the map on disk, in its
\* own or in a hidden directory, through merges that fail or are struck
\* (topic_markdown_sync.py:463-497, 290) and synchronisations meanwhile; only a
\* deletion gives it up.
MapIsKept == \A t \in live \cap shown : MapsOf(t) # {}

\* A file that the user put into a directory stays, and the directory with it, whenever
\* he put it there (_remove_detached_topic_directory:279, delete_unpublished_topic:672).
UserFileStands ==
    [][\A d \in Dirs : "user" \in files[d] => "user" \in files'[d] /\ place'[d] # None]_vars

\* tests/test_workbench/test_topic_markdown_sync.py:453 "removes placeholder and
\* sync can continue": nothing of the program's own keeps a topic from its name. It
\* does NOT hold when a process is struck between mkdir and the write of its marker.
SyncCanContinue ==
    (\A p \in Threads : pc[p] = "idle") =>
        \A t \in live : \A d \in Here(t) : "user" \in files[d] \/ "owner" \in files[d]
=============================================================================
