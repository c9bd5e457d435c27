--------------------- MODULE MarkdownPublicationProofs ---------------------
(* Proofs about MarkdownPublication.tla. *)
EXTENDS MarkdownPublication, TLAPS

InTx(p) == pc[p] \in {"prepare", "replace"}
Holding == {"recover", "prepare", "replace", "settle", "undo"}

\* The publisher in one of the phases under the locks holds them, and so does
\* the start of the server.
Locks ==
    /\ pc[Boot] \in {"idle", "boot"} /\ (pc[Boot] = "boot" <=> lock = Boot)
    /\ \A p \in Publishers :
        /\ pc[p] # "boot" /\ (pc[p] \in Holding <=> lock = p)

\* Publication ids are fresh, and what is claimed or staged is not committed.
Ids ==
    /\ pending.id < nextId /\ receipt.id < nextId /\ chapterReceipt < nextId
    /\ claim.id < nextId
    /\ \A d \in Dirs : journal[d] < nextId
    /\ claim.id # 0 => claim.id \notin {receipt.id, chapterReceipt}
    /\ pending.id # 0 => pending.id \notin {receipt.id, chapterReceipt}
    /\ \A p \in Publishers :
        /\ pub[p] < nextId
        /\ pc[p] \in Holding \cup {"claimed"} \/ chapter[p] => pub[p] # 0
        /\ ~chapter[p] /\ pub[p] # 0 => pub[p] # pending.id

\* A committed journal is one of the last publication.
Judged == \A d \in Dirs : journal[d] = chapterReceipt => journal[d] \in {0, receipt.id}

\* A bundle was rendered at or after the revision its publisher took, and at
\* that revision it holds every directory there is something to publish in.
Rendered ==
    /\ revision >= 1 /\ receipt.rev <= revision
    /\ \A d \in Dirs : journal[d] # 0 => d = Main \/ runsExist
    /\ \A p \in Publishers : pc[p] # "idle" =>
        /\ rev[p] <= revision
        /\ \A d \in Dirs :
            /\ content[p][d] # 0 =>
                /\ rev[p] <= content[p][d] /\ content[p][d] <= revision
                /\ d = Main \/ runsExist
            /\ content[p][d] = 0 /\ revision = rev[p] =>
                \/ d # Main /\ ~runsExist
                \/ pc[p] = "render" /\ d \in todo[p]

\* Before the transaction the directories of the bundle are recovered one by
\* one; in it they hold a journal and the new files one by one.
InPlace ==
    \A p \in Publishers :
        /\ pc[p] = "recover" => \A d \in Bundle(p) \ todo[p] : journal[d] = 0
        /\ InTx(p) =>
            /\ Valid(p) /\ todo[p] \subseteq Bundle(p)
            /\ \A d \in Dirs :
                /\ d \notin Bundle(p) => journal[d] = 0
                /\ d \in Bundle(p) \ todo[p] =>
                    journal[d] = pub[p] /\ \A f \in FilesOf[d] : file[d][f] = content[p][d]
                /\ d \in todo[p] /\ ~(pc[p] = "replace" /\ d = Current(p)) => journal[d] = 0
        /\ pc[p] = "replace" =>
            LET d == Current(p)
            IN /\ d \in todo[p] /\ journal[d] = pub[p]
               /\ \A f \in existed[d] : backup[d][f] # 0
               /\ \A f \in FilesOf[d] \ temp[d] : file[d][f] = content[p][d]

\* An entry that is handled needs its journal no more.
HandledSound ==
    \A a \in Actors : Recovering(a) =>
        LET d == Current(a)
        IN \A f \in handled :
            /\ f \in FilesOf[d] /\ f \notin temp[d] /\ backup[d][f] = 0
            /\ journal[d] # receipt.id /\ f \notin existed[d] => file[d][f] = 0

IInv == TypeOK /\ Locks /\ Ids /\ Judged /\ Rendered /\ InPlace /\ HandledSound

-----------------------------------------------------------------------------

\* The directory that an actor works on is one of those left.
LEMMA CurrentLeft ==
    ASSUME NEW a \in Actors, todo[a] \in SUBSET Dirs, todo[a] # {}
    PROVE  Current(a) \in todo[a] /\ Current(a) \in Dirs
BY DEF Current, Dirs

\* The locks are taken and released with the phases.
LEMMA LocksStep ==
    ASSUME IInv, [Next]_vars
    PROVE  Locks'
<1>1. CASE Edit
    BY PublicationAssumption, <1>1 DEF IInv, TypeOK, Locks, dbVars, fileVars,
        jobVars, Actors, Holding, Recovering, Edit
<1>2. CASE Stage
    BY PublicationAssumption, <1>2 DEF IInv, TypeOK, Locks, dbVars, fileVars,
        jobVars, Actors, Holding, Recovering, Stage
<1>2a. CASE Discard
    BY PublicationAssumption, <1>2a DEF IInv, TypeOK, Locks, dbVars, fileVars,
        jobVars, Actors, Holding, Recovering, Discard
<1>3. CASE Crash
    BY PublicationAssumption, <1>3 DEF IInv, TypeOK, Locks, dbVars, fileVars,
        jobVars, Actors, Holding, Recovering, Crash
<1>4. CASE BootEnds
    BY PublicationAssumption, <1>4 DEF IInv, TypeOK, Locks, dbVars, fileVars,
        jobVars, Actors, Holding, Recovering, BootEnds
<1>5. ASSUME NEW p \in Publishers, StartSync(p) PROVE Locks'
    BY PublicationAssumption, <1>5 DEF IInv, TypeOK, Locks, dbVars, fileVars,
        jobVars, Actors, Holding, Recovering, StartSync, Begins
<1>6. ASSUME NEW p \in Publishers, StartChapter(p) PROVE Locks'
    BY PublicationAssumption, <1>6 DEF IInv, TypeOK, Locks, dbVars, fileVars,
        jobVars, Actors, Holding, Recovering, StartChapter, Begins
<1>7. ASSUME NEW p \in Publishers, Render(p) PROVE Locks'
    BY PublicationAssumption, <1>7 DEF IInv, TypeOK, Locks, dbVars, fileVars,
        jobVars, Actors, Holding, Recovering, Render
<1>8. ASSUME NEW p \in Publishers, Claim(p) PROVE Locks'
    BY PublicationAssumption, <1>8 DEF IInv, TypeOK, Locks, dbVars, fileVars,
        jobVars, Actors, Holding, Recovering, Claim, ClaimsRendered
<1>9. ASSUME NEW p \in Publishers, GivesUp(p) PROVE Locks'
    BY PublicationAssumption, <1>9 DEF IInv, TypeOK, Locks, dbVars, fileVars,
        jobVars, Actors, Holding, Recovering, GivesUp, Returns
<1>10. ASSUME NEW p \in Publishers, Lock(p) PROVE Locks'
    BY PublicationAssumption, <1>10 DEF IInv, TypeOK, Locks, dbVars, fileVars,
        jobVars, Actors, Holding, Recovering, Lock
<1>11. ASSUME NEW p \in Publishers, Fence(p) PROVE Locks'
    BY PublicationAssumption, <1>11 DEF IInv, TypeOK, Locks, dbVars, fileVars,
        jobVars, Actors, Holding, Recovering, Fence
<1>12. ASSUME NEW p \in Publishers, WriteJournal(p) PROVE Locks'
    BY PublicationAssumption, <1>12 DEF IInv, TypeOK, Locks, dbVars, fileVars,
        jobVars, Actors, Holding, Recovering, WriteJournal
<1>13. ASSUME NEW p \in Publishers, WriteJournalRaises(p) PROVE Locks'
    BY PublicationAssumption, <1>13 DEF IInv, TypeOK, Locks, dbVars, fileVars,
        jobVars, Actors, Holding, Recovering, WriteJournalRaises
<1>14. ASSUME NEW p \in Publishers, Replace(p) PROVE Locks'
    BY PublicationAssumption, <1>14 DEF IInv, TypeOK, Locks, dbVars, fileVars,
        jobVars, Actors, Holding, Recovering, Replace
<1>15. ASSUME NEW p \in Publishers, Replaced(p) PROVE Locks'
    BY PublicationAssumption, <1>15 DEF IInv, TypeOK, Locks, dbVars, fileVars,
        jobVars, Actors, Holding, Recovering, Replaced
<1>16. ASSUME NEW p \in Publishers, Commit(p) PROVE Locks'
    BY PublicationAssumption, <1>16 DEF IInv, TypeOK, Locks, dbVars, fileVars,
        jobVars, Actors, Holding, Recovering, Commit
<1>17. ASSUME NEW p \in Publishers, Raises(p) PROVE Locks'
    BY PublicationAssumption, <1>17 DEF IInv, TypeOK, Locks, dbVars, fileVars,
        jobVars, Actors, Holding, Recovering, Raises
<1>18. ASSUME NEW p \in Publishers, Unlock(p) PROVE Locks'
    BY PublicationAssumption, <1>18 DEF IInv, TypeOK, Locks, dbVars, fileVars,
        jobVars, Actors, Holding, Recovering, Unlock, Returns
<1>19. ASSUME NEW a \in Actors, RecoverEntry(a) PROVE Locks'
    BY PublicationAssumption, <1>19 DEF IInv, TypeOK, Locks, dbVars, fileVars,
        jobVars, Actors, Holding, Recovering, RecoverEntry
<1>20. ASSUME NEW a \in Actors, RecoverDone(a) PROVE Locks'
    BY PublicationAssumption, <1>20 DEF IInv, TypeOK, Locks, dbVars, fileVars,
        jobVars, Actors, Holding, Recovering, RecoverDone
<1>21. CASE UNCHANGED vars
    BY PublicationAssumption, <1>21 DEF IInv, TypeOK, Locks, dbVars, fileVars,
        jobVars, Actors, Holding, Recovering, vars
<1> QED BY <1>1, <1>2, <1>2a, <1>3, <1>4, <1>5, <1>6, <1>7, <1>8, <1>9, <1>10, <1>11,
        <1>12, <1>13, <1>14, <1>15, <1>16, <1>17, <1>18, <1>19, <1>20, <1>21,
        Zenon DEF Next

\* Ids stay fresh, and what is claimed or staged stays uncommitted.
LEMMA IdsStep ==
    ASSUME IInv, [Next]_vars
    PROVE  Ids'
<1>1. CASE Edit
    BY PublicationAssumption, <1>1 DEF IInv, TypeOK, Locks, Ids, NoClaim, NoPending,
        dbVars, fileVars, jobVars, Actors, Holding, Dirs, Current, Valid, InTx,
        InPlace, Recovering, Edit
<1>2. CASE Stage
    BY PublicationAssumption, <1>2 DEF IInv, TypeOK, Locks, Ids, NoClaim, NoPending,
        dbVars, fileVars, jobVars, Actors, Holding, Dirs, Current, Valid, InTx,
        InPlace, Recovering, Stage
<1>2a. CASE Discard
    BY PublicationAssumption, <1>2a DEF IInv, TypeOK, Locks, Ids, NoClaim, NoPending,
        dbVars, fileVars, jobVars, Actors, Holding, Dirs, Current, Valid, InTx,
        InPlace, Recovering, Discard
<1>3. CASE Crash
    BY PublicationAssumption, <1>3 DEF IInv, TypeOK, Locks, Ids, NoClaim, NoPending,
        dbVars, fileVars, jobVars, Actors, Holding, Dirs, Current, Valid, InTx,
        InPlace, Recovering, Crash
<1>4. CASE BootEnds
    BY PublicationAssumption, <1>4 DEF IInv, TypeOK, Locks, Ids, NoClaim, NoPending,
        dbVars, fileVars, jobVars, Actors, Holding, Dirs, Current, Valid, InTx,
        InPlace, Recovering, BootEnds
<1>5. ASSUME NEW p \in Publishers, StartSync(p) PROVE Ids'
    BY PublicationAssumption, <1>5 DEF IInv, TypeOK, Locks, Ids, NoClaim, NoPending,
        dbVars, fileVars, jobVars, Actors, Holding, Dirs, Current, Valid, InTx,
        InPlace, Recovering, StartSync, Begins
<1>6. ASSUME NEW p \in Publishers, StartChapter(p) PROVE Ids'
    BY PublicationAssumption, <1>6 DEF IInv, TypeOK, Locks, Ids, NoClaim, NoPending,
        dbVars, fileVars, jobVars, Actors, Holding, Dirs, Current, Valid, InTx,
        InPlace, Recovering, StartChapter, Begins
<1>7. ASSUME NEW p \in Publishers, Render(p) PROVE Ids'
    BY PublicationAssumption, <1>7 DEF IInv, TypeOK, Locks, Ids, NoClaim, NoPending,
        dbVars, fileVars, jobVars, Actors, Holding, Dirs, Current, Valid, InTx,
        InPlace, Recovering, Render
<1>8. ASSUME NEW p \in Publishers, Claim(p) PROVE Ids'
    BY PublicationAssumption, <1>8 DEF IInv, TypeOK, Locks, Ids, NoClaim, NoPending,
        dbVars, fileVars, jobVars, Actors, Holding, Dirs, Current, Valid, InTx,
        InPlace, Recovering, Claim, ClaimsRendered
<1>9. ASSUME NEW p \in Publishers, GivesUp(p) PROVE Ids'
    BY PublicationAssumption, <1>9 DEF IInv, TypeOK, Locks, Ids, NoClaim, NoPending,
        dbVars, fileVars, jobVars, Actors, Holding, Dirs, Current, Valid, InTx,
        InPlace, Recovering, GivesUp, Returns
<1>10. ASSUME NEW p \in Publishers, Lock(p) PROVE Ids'
    BY PublicationAssumption, <1>10 DEF IInv, TypeOK, Locks, Ids, NoClaim,
        NoPending, dbVars, fileVars, jobVars, Actors, Holding, Dirs, Current, Valid,
        InTx, InPlace, Recovering, Lock
<1>11. ASSUME NEW p \in Publishers, Fence(p) PROVE Ids'
    BY PublicationAssumption, <1>11 DEF IInv, TypeOK, Locks, Ids, NoClaim,
        NoPending, dbVars, fileVars, jobVars, Actors, Holding, Dirs, Current, Valid,
        InTx, InPlace, Recovering, Fence
<1>12. ASSUME NEW p \in Publishers, WriteJournal(p) PROVE Ids'
    BY PublicationAssumption, <1>12 DEF IInv, TypeOK, Locks, Ids, NoClaim,
        NoPending, dbVars, fileVars, jobVars, Actors, Holding, Dirs, Current, Valid,
        InTx, InPlace, Recovering, WriteJournal
<1>13. ASSUME NEW p \in Publishers, WriteJournalRaises(p) PROVE Ids'
    BY PublicationAssumption, <1>13 DEF IInv, TypeOK, Locks, Ids, NoClaim,
        NoPending, dbVars, fileVars, jobVars, Actors, Holding, Dirs, Current, Valid,
        InTx, InPlace, Recovering, WriteJournalRaises
<1>14. ASSUME NEW p \in Publishers, Replace(p) PROVE Ids'
    BY PublicationAssumption, <1>14 DEF IInv, TypeOK, Locks, Ids, NoClaim,
        NoPending, dbVars, fileVars, jobVars, Actors, Holding, Dirs, Current, Valid,
        InTx, InPlace, Recovering, Replace
<1>15. ASSUME NEW p \in Publishers, Replaced(p) PROVE Ids'
    BY PublicationAssumption, <1>15 DEF IInv, TypeOK, Locks, Ids, NoClaim,
        NoPending, dbVars, fileVars, jobVars, Actors, Holding, Dirs, Current, Valid,
        InTx, InPlace, Recovering, Replaced
<1>16. ASSUME NEW p \in Publishers, Commit(p) PROVE Ids'
    BY PublicationAssumption, <1>16 DEF IInv, TypeOK, Locks, Ids, NoClaim,
        NoPending, dbVars, fileVars, jobVars, Actors, Holding, Dirs, Current, Valid,
        InTx, InPlace, Recovering, Commit
<1>17. ASSUME NEW p \in Publishers, Raises(p) PROVE Ids'
    BY PublicationAssumption, <1>17 DEF IInv, TypeOK, Locks, Ids, NoClaim,
        NoPending, dbVars, fileVars, jobVars, Actors, Holding, Dirs, Current, Valid,
        InTx, InPlace, Recovering, Raises
<1>18. ASSUME NEW p \in Publishers, Unlock(p) PROVE Ids'
    BY PublicationAssumption, <1>18 DEF IInv, TypeOK, Locks, Ids, NoClaim,
        NoPending, dbVars, fileVars, jobVars, Actors, Holding, Dirs, Current, Valid,
        InTx, InPlace, Recovering, Unlock, Returns
<1>19. ASSUME NEW a \in Actors, RecoverEntry(a) PROVE Ids'
    BY PublicationAssumption, <1>19 DEF IInv, TypeOK, Locks, Ids, NoClaim,
        NoPending, dbVars, fileVars, jobVars, Actors, Holding, Dirs, Current, Valid,
        InTx, InPlace, Recovering, RecoverEntry
<1>20. ASSUME NEW a \in Actors, RecoverDone(a) PROVE Ids'
    BY PublicationAssumption, <1>20 DEF IInv, TypeOK, Locks, Ids, NoClaim,
        NoPending, dbVars, fileVars, jobVars, Actors, Holding, Dirs, Current, Valid,
        InTx, InPlace, Recovering, RecoverDone
<1>21. CASE UNCHANGED vars
    BY PublicationAssumption, <1>21 DEF IInv, TypeOK, Locks, Ids, NoClaim,
        NoPending, dbVars, fileVars, jobVars, Actors, Holding, Dirs, Current, Valid,
        InTx, InPlace, Recovering, vars
<1> QED BY <1>1, <1>2, <1>2a, <1>3, <1>4, <1>5, <1>6, <1>7, <1>8, <1>9, <1>10, <1>11,
        <1>12, <1>13, <1>14, <1>15, <1>16, <1>17, <1>18, <1>19, <1>20, <1>21,
        Zenon DEF Next

\* No journal is committed by the older receipt alone.
LEMMA JudgedStep ==
    ASSUME IInv, [Next]_vars
    PROVE  Judged'
<1>1. CASE Edit
    BY PublicationAssumption, <1>1 DEF IInv, TypeOK, Locks, Ids, Judged, dbVars,
        fileVars, jobVars, Actors, Holding, Dirs, Current, Valid, InTx, InPlace,
        Recovering, Edit
<1>2. CASE Stage
    BY PublicationAssumption, <1>2 DEF IInv, TypeOK, Locks, Ids, Judged, dbVars,
        fileVars, jobVars, Actors, Holding, Dirs, Current, Valid, InTx, InPlace,
        Recovering, Stage
<1>2a. CASE Discard
    BY PublicationAssumption, <1>2a DEF IInv, TypeOK, Locks, Ids, Judged, dbVars,
        fileVars, jobVars, Actors, Holding, Dirs, Current, Valid, InTx, InPlace,
        Recovering, Discard
<1>3. CASE Crash
    BY PublicationAssumption, <1>3 DEF IInv, TypeOK, Locks, Ids, Judged, dbVars,
        fileVars, jobVars, Actors, Holding, Dirs, Current, Valid, InTx, InPlace,
        Recovering, Crash
<1>4. CASE BootEnds
    BY PublicationAssumption, <1>4 DEF IInv, TypeOK, Locks, Ids, Judged, dbVars,
        fileVars, jobVars, Actors, Holding, Dirs, Current, Valid, InTx, InPlace,
        Recovering, BootEnds
<1>5. ASSUME NEW p \in Publishers, StartSync(p) PROVE Judged'
    BY PublicationAssumption, <1>5 DEF IInv, TypeOK, Locks, Ids, Judged, dbVars,
        fileVars, jobVars, Actors, Holding, Dirs, Current, Valid, InTx, InPlace,
        Recovering, StartSync, Begins
<1>6. ASSUME NEW p \in Publishers, StartChapter(p) PROVE Judged'
    BY PublicationAssumption, <1>6 DEF IInv, TypeOK, Locks, Ids, Judged, dbVars,
        fileVars, jobVars, Actors, Holding, Dirs, Current, Valid, InTx, InPlace,
        Recovering, StartChapter, Begins
<1>7. ASSUME NEW p \in Publishers, Render(p) PROVE Judged'
    BY PublicationAssumption, <1>7 DEF IInv, TypeOK, Locks, Ids, Judged, dbVars,
        fileVars, jobVars, Actors, Holding, Dirs, Current, Valid, InTx, InPlace,
        Recovering, Render
<1>8. ASSUME NEW p \in Publishers, Claim(p) PROVE Judged'
    BY PublicationAssumption, <1>8 DEF IInv, TypeOK, Locks, Ids, Judged, dbVars,
        fileVars, jobVars, Actors, Holding, Dirs, Current, Valid, InTx, InPlace,
        Recovering, Claim, ClaimsRendered
<1>9. ASSUME NEW p \in Publishers, GivesUp(p) PROVE Judged'
    BY PublicationAssumption, <1>9 DEF IInv, TypeOK, Locks, Ids, Judged, dbVars,
        fileVars, jobVars, Actors, Holding, Dirs, Current, Valid, InTx, InPlace,
        Recovering, GivesUp, Returns
<1>10. ASSUME NEW p \in Publishers, Lock(p) PROVE Judged'
    BY PublicationAssumption, <1>10 DEF IInv, TypeOK, Locks, Ids, Judged, dbVars,
        fileVars, jobVars, Actors, Holding, Dirs, Current, Valid, InTx, InPlace,
        Recovering, Lock
<1>11. ASSUME NEW p \in Publishers, Fence(p) PROVE Judged'
    BY PublicationAssumption, <1>11 DEF IInv, TypeOK, Locks, Ids, Judged, dbVars,
        fileVars, jobVars, Actors, Holding, Dirs, Current, Valid, InTx, InPlace,
        Recovering, Fence
<1>12. ASSUME NEW p \in Publishers, WriteJournal(p) PROVE Judged'
    BY PublicationAssumption, <1>12 DEF IInv, TypeOK, Locks, Ids, Judged, dbVars,
        fileVars, jobVars, Actors, Holding, Dirs, Current, Valid, InTx, InPlace,
        Recovering, WriteJournal
<1>13. ASSUME NEW p \in Publishers, WriteJournalRaises(p) PROVE Judged'
    BY PublicationAssumption, <1>13 DEF IInv, TypeOK, Locks, Ids, Judged, dbVars,
        fileVars, jobVars, Actors, Holding, Dirs, Current, Valid, InTx, InPlace,
        Recovering, WriteJournalRaises
<1>14. ASSUME NEW p \in Publishers, Replace(p) PROVE Judged'
    BY PublicationAssumption, <1>14 DEF IInv, TypeOK, Locks, Ids, Judged, dbVars,
        fileVars, jobVars, Actors, Holding, Dirs, Current, Valid, InTx, InPlace,
        Recovering, Replace
<1>15. ASSUME NEW p \in Publishers, Replaced(p) PROVE Judged'
    BY PublicationAssumption, <1>15 DEF IInv, TypeOK, Locks, Ids, Judged, dbVars,
        fileVars, jobVars, Actors, Holding, Dirs, Current, Valid, InTx, InPlace,
        Recovering, Replaced
<1>16. ASSUME NEW p \in Publishers, Commit(p) PROVE Judged'
    BY PublicationAssumption, <1>16 DEF IInv, TypeOK, Locks, Ids, Judged, dbVars,
        fileVars, jobVars, Actors, Holding, Dirs, Current, Valid, InTx, InPlace,
        Recovering, Commit
<1>17. ASSUME NEW p \in Publishers, Raises(p) PROVE Judged'
    BY PublicationAssumption, <1>17 DEF IInv, TypeOK, Locks, Ids, Judged, dbVars,
        fileVars, jobVars, Actors, Holding, Dirs, Current, Valid, InTx, InPlace,
        Recovering, Raises
<1>18. ASSUME NEW p \in Publishers, Unlock(p) PROVE Judged'
    BY PublicationAssumption, <1>18 DEF IInv, TypeOK, Locks, Ids, Judged, dbVars,
        fileVars, jobVars, Actors, Holding, Dirs, Current, Valid, InTx, InPlace,
        Recovering, Unlock, Returns
<1>19. ASSUME NEW a \in Actors, RecoverEntry(a) PROVE Judged'
    BY PublicationAssumption, <1>19 DEF IInv, TypeOK, Locks, Ids, Judged, dbVars,
        fileVars, jobVars, Actors, Holding, Dirs, Current, Valid, InTx, InPlace,
        Recovering, RecoverEntry
<1>20. ASSUME NEW a \in Actors, RecoverDone(a) PROVE Judged'
    BY PublicationAssumption, <1>20 DEF IInv, TypeOK, Locks, Ids, Judged, dbVars,
        fileVars, jobVars, Actors, Holding, Dirs, Current, Valid, InTx, InPlace,
        Recovering, RecoverDone
<1>21. CASE UNCHANGED vars
    BY PublicationAssumption, <1>21 DEF IInv, TypeOK, Locks, Ids, Judged, dbVars,
        fileVars, jobVars, Actors, Holding, Dirs, Current, Valid, InTx, InPlace,
        Recovering, vars
<1> QED BY <1>1, <1>2, <1>2a, <1>3, <1>4, <1>5, <1>6, <1>7, <1>8, <1>9, <1>10, <1>11,
        <1>12, <1>13, <1>14, <1>15, <1>16, <1>17, <1>18, <1>19, <1>20, <1>21,
        Zenon DEF Next

\* Bundles are as fresh as their revision says.
LEMMA RenderedStep ==
    ASSUME IInv, [Next]_vars
    PROVE  Rendered'
<1>1. CASE Edit
    <2>1. revision' > revision /\ (runsExist => runsExist')
        BY <1>1 DEF IInv, TypeOK, Edit
    <2> QED BY <1>1, <2>1 DEF IInv, TypeOK, Rendered, fileVars, jobVars, Edit
<1>2. CASE Stage
    BY PublicationAssumption, <1>2 DEF IInv, TypeOK, Locks, Rendered, dbVars,
        fileVars, jobVars, Actors, Holding, Dirs, Current, Valid, InTx, InPlace,
        Recovering, Bundle, Stage
<1>2a. CASE Discard
    BY PublicationAssumption, <1>2a DEF IInv, TypeOK, Locks, Rendered, dbVars,
        fileVars, jobVars, Actors, Holding, Dirs, Current, Valid, InTx, InPlace,
        Recovering, Bundle, Discard
<1>3. CASE Crash
    BY PublicationAssumption, <1>3 DEF IInv, TypeOK, Locks, Rendered, dbVars,
        fileVars, jobVars, Actors, Holding, Dirs, Current, Valid, InTx, InPlace,
        Recovering, Bundle, Crash
<1>4. CASE BootEnds
    BY PublicationAssumption, <1>4 DEF IInv, TypeOK, Locks, Rendered, dbVars,
        fileVars, jobVars, Actors, Holding, Dirs, Current, Valid, InTx, InPlace,
        Recovering, Bundle, BootEnds
<1>5. ASSUME NEW p \in Publishers, StartSync(p) PROVE Rendered'
    BY PublicationAssumption, <1>5 DEF IInv, TypeOK, Locks, Rendered, dbVars,
        fileVars, jobVars, Actors, Holding, Dirs, Current, Valid, InTx, InPlace,
        Recovering, Bundle, StartSync, Begins
<1>6. ASSUME NEW p \in Publishers, StartChapter(p) PROVE Rendered'
    BY PublicationAssumption, <1>6 DEF IInv, TypeOK, Locks, Rendered, dbVars,
        fileVars, jobVars, Actors, Holding, Dirs, Current, Valid, InTx, InPlace,
        Recovering, Bundle, StartChapter, Begins
<1>7. ASSUME NEW p \in Publishers, Render(p) PROVE Rendered'
    BY PublicationAssumption, <1>7 DEF IInv, TypeOK, Locks, Rendered, dbVars,
        fileVars, jobVars, Actors, Holding, Dirs, Current, Valid, InTx, InPlace,
        Recovering, Bundle, Render
<1>8. ASSUME NEW p \in Publishers, Claim(p) PROVE Rendered'
    BY PublicationAssumption, <1>8 DEF IInv, TypeOK, Locks, Rendered, dbVars,
        fileVars, jobVars, Actors, Holding, Dirs, Current, Valid, InTx, InPlace,
        Recovering, Bundle, Claim, ClaimsRendered
<1>9. ASSUME NEW p \in Publishers, GivesUp(p) PROVE Rendered'
    BY PublicationAssumption, <1>9 DEF IInv, TypeOK, Locks, Rendered, dbVars,
        fileVars, jobVars, Actors, Holding, Dirs, Current, Valid, InTx, InPlace,
        Recovering, Bundle, GivesUp, Returns
<1>10. ASSUME NEW p \in Publishers, Lock(p) PROVE Rendered'
    BY PublicationAssumption, <1>10 DEF IInv, TypeOK, Locks, Rendered, dbVars,
        fileVars, jobVars, Actors, Holding, Dirs, Current, Valid, InTx, InPlace,
        Recovering, Bundle, Lock
<1>11. ASSUME NEW p \in Publishers, Fence(p) PROVE Rendered'
    BY PublicationAssumption, <1>11 DEF IInv, TypeOK, Locks, Rendered, dbVars,
        fileVars, jobVars, Actors, Holding, Dirs, Current, Valid, InTx, InPlace,
        Recovering, Bundle, Fence
<1>12. ASSUME NEW p \in Publishers, WriteJournal(p) PROVE Rendered'
    <2> DEFINE d == Current(p)
    <2>1. p \in Actors /\ todo[p] \in SUBSET Dirs /\ todo[p] # {}
        BY <1>12 DEF IInv, TypeOK, Actors, WriteJournal
    <2>2. d \in todo[p] /\ d \in Dirs
        BY <2>1, CurrentLeft
    <2>3. content[p][d] # 0 /\ pc[p] # "idle"
        BY <1>12, <2>2 DEF IInv, InPlace, InTx, Bundle, WriteJournal
    <2>4. d = Main \/ runsExist
        BY <2>2, <2>3 DEF IInv, Rendered
    <2>5. journal' = [journal EXCEPT ![d] = pub[p]]
        BY <1>12 DEF WriteJournal
    <2>6. \A e \in Dirs : journal'[e] # 0 => e = Main \/ runsExist
        <3> HIDE DEF d
        <3> QED BY <2>2, <2>4, <2>5 DEF IInv, TypeOK, Rendered
    <2> QED BY <1>12, <2>1, <2>6 DEF IInv, TypeOK, Rendered, dbVars, jobVars, Actors, WriteJournal
<1>13. ASSUME NEW p \in Publishers, WriteJournalRaises(p) PROVE Rendered'
    <2> DEFINE d == Current(p)
    <2>1. p \in Actors /\ todo[p] \in SUBSET Dirs /\ todo[p] # {}
        BY <1>13 DEF IInv, TypeOK, Actors, WriteJournalRaises
    <2>2. d \in todo[p] /\ d \in Dirs
        BY <2>1, CurrentLeft
    <2>3. content[p][d] # 0 /\ pc[p] # "idle"
        BY <1>13, <2>2 DEF IInv, InPlace, InTx, Bundle, WriteJournalRaises
    <2>4. d = Main \/ runsExist
        BY <2>2, <2>3 DEF IInv, Rendered
    <2>5. journal' = [journal EXCEPT ![d] = pub[p]]
        BY <1>13 DEF WriteJournalRaises
    <2>6. \A e \in Dirs : journal'[e] # 0 => e = Main \/ runsExist
        <3> HIDE DEF d
        <3> QED BY <2>2, <2>4, <2>5 DEF IInv, TypeOK, Rendered
    <2> QED BY <1>13, <2>1, <2>6 DEF IInv, TypeOK, Rendered, dbVars, jobVars, Actors, WriteJournalRaises
<1>14. ASSUME NEW p \in Publishers, Replace(p) PROVE Rendered'
    BY PublicationAssumption, <1>14 DEF IInv, TypeOK, Locks, Rendered, dbVars,
        fileVars, jobVars, Actors, Holding, Dirs, Current, Valid, InTx, InPlace,
        Recovering, Bundle, Replace
<1>15. ASSUME NEW p \in Publishers, Replaced(p) PROVE Rendered'
    BY PublicationAssumption, <1>15 DEF IInv, TypeOK, Locks, Rendered, dbVars,
        fileVars, jobVars, Actors, Holding, Dirs, Current, Valid, InTx, InPlace,
        Recovering, Bundle, Replaced
<1>16. ASSUME NEW p \in Publishers, Commit(p) PROVE Rendered'
    BY PublicationAssumption, <1>16 DEF IInv, TypeOK, Locks, Rendered, dbVars,
        fileVars, jobVars, Actors, Holding, Dirs, Current, Valid, InTx, InPlace,
        Recovering, Bundle, Commit
<1>17. ASSUME NEW p \in Publishers, Raises(p) PROVE Rendered'
    BY PublicationAssumption, <1>17 DEF IInv, TypeOK, Locks, Rendered, dbVars,
        fileVars, jobVars, Actors, Holding, Dirs, Current, Valid, InTx, InPlace,
        Recovering, Bundle, Raises
<1>18. ASSUME NEW p \in Publishers, Unlock(p) PROVE Rendered'
    BY PublicationAssumption, <1>18 DEF IInv, TypeOK, Locks, Rendered, dbVars,
        fileVars, jobVars, Actors, Holding, Dirs, Current, Valid, InTx, InPlace,
        Recovering, Bundle, Unlock, Returns
<1>19. ASSUME NEW a \in Actors, RecoverEntry(a) PROVE Rendered'
    BY PublicationAssumption, <1>19 DEF IInv, TypeOK, Locks, Rendered, dbVars,
        fileVars, jobVars, Actors, Holding, Dirs, Current, Valid, InTx, InPlace,
        Recovering, Bundle, RecoverEntry
<1>20. ASSUME NEW a \in Actors, RecoverDone(a) PROVE Rendered'
    BY PublicationAssumption, <1>20 DEF IInv, TypeOK, Locks, Rendered, dbVars,
        fileVars, jobVars, Actors, Holding, Dirs, Current, Valid, InTx, InPlace,
        Recovering, Bundle, RecoverDone
<1>21. CASE UNCHANGED vars
    BY PublicationAssumption, <1>21 DEF IInv, TypeOK, Locks, Rendered, dbVars,
        fileVars, jobVars, Actors, Holding, Dirs, Current, Valid, InTx, InPlace,
        Recovering, Bundle, vars
<1> QED BY <1>1, <1>2, <1>2a, <1>3, <1>4, <1>5, <1>6, <1>7, <1>8, <1>9, <1>10, <1>11,
        <1>12, <1>13, <1>14, <1>15, <1>16, <1>17, <1>18, <1>19, <1>20, <1>21,
        Zenon DEF Next

\* Entries are handled one by one.
LEMMA HandledStep ==
    ASSUME IInv, [Next]_vars
    PROVE  HandledSound'
<1>1. CASE Edit
    BY PublicationAssumption, <1>1 DEF IInv, TypeOK, Locks, HandledSound, Judged,
        InPlace, InTx, dbVars, fileVars, jobVars, Actors, Holding, Dirs, Current,
        Recovering, Committed, Undone, Edit
<1>2. CASE Stage
    BY PublicationAssumption, <1>2 DEF IInv, TypeOK, Locks, HandledSound, Judged,
        InPlace, InTx, dbVars, fileVars, jobVars, Actors, Holding, Dirs, Current,
        Recovering, Committed, Undone, Stage
<1>2a. CASE Discard
    BY PublicationAssumption, <1>2a DEF IInv, TypeOK, Locks, HandledSound, Judged,
        InPlace, InTx, dbVars, fileVars, jobVars, Actors, Holding, Dirs, Current,
        Recovering, Committed, Undone, Discard
<1>3. CASE Crash
    BY PublicationAssumption, <1>3 DEF IInv, TypeOK, Locks, HandledSound, Judged,
        InPlace, InTx, dbVars, fileVars, jobVars, Actors, Holding, Dirs, Current,
        Recovering, Committed, Undone, Crash
<1>4. CASE BootEnds
    BY PublicationAssumption, <1>4 DEF IInv, TypeOK, Locks, HandledSound, Judged,
        InPlace, InTx, dbVars, fileVars, jobVars, Actors, Holding, Dirs, Current,
        Recovering, Committed, Undone, BootEnds
<1>5. ASSUME NEW p \in Publishers, StartSync(p) PROVE HandledSound'
    BY PublicationAssumption, <1>5 DEF IInv, TypeOK, Locks, HandledSound, Judged,
        InPlace, InTx, dbVars, fileVars, jobVars, Actors, Holding, Dirs, Current,
        Recovering, Committed, Undone, StartSync, Begins
<1>6. ASSUME NEW p \in Publishers, StartChapter(p) PROVE HandledSound'
    BY PublicationAssumption, <1>6 DEF IInv, TypeOK, Locks, HandledSound, Judged,
        InPlace, InTx, dbVars, fileVars, jobVars, Actors, Holding, Dirs, Current,
        Recovering, Committed, Undone, StartChapter, Begins
<1>7. ASSUME NEW p \in Publishers, Render(p) PROVE HandledSound'
    BY PublicationAssumption, <1>7 DEF IInv, TypeOK, Locks, HandledSound, Judged,
        InPlace, InTx, dbVars, fileVars, jobVars, Actors, Holding, Dirs, Current,
        Recovering, Committed, Undone, Render
<1>8. ASSUME NEW p \in Publishers, Claim(p) PROVE HandledSound'
    BY PublicationAssumption, <1>8 DEF IInv, TypeOK, Locks, HandledSound, Judged,
        InPlace, InTx, dbVars, fileVars, jobVars, Actors, Holding, Dirs, Current,
        Recovering, Committed, Undone, Claim, ClaimsRendered
<1>9. ASSUME NEW p \in Publishers, GivesUp(p) PROVE HandledSound'
    BY PublicationAssumption, <1>9 DEF IInv, TypeOK, Locks, HandledSound, Judged,
        InPlace, InTx, dbVars, fileVars, jobVars, Actors, Holding, Dirs, Current,
        Recovering, Committed, Undone, GivesUp, Returns
<1>10. ASSUME NEW p \in Publishers, Lock(p) PROVE HandledSound'
    BY PublicationAssumption, <1>10 DEF IInv, TypeOK, Locks, HandledSound, Judged,
        InPlace, InTx, dbVars, fileVars, jobVars, Actors, Holding, Dirs, Current,
        Recovering, Committed, Undone, Lock
<1>11. ASSUME NEW p \in Publishers, Fence(p) PROVE HandledSound'
    BY PublicationAssumption, <1>11 DEF IInv, TypeOK, Locks, HandledSound, Judged,
        InPlace, InTx, dbVars, fileVars, jobVars, Actors, Holding, Dirs, Current,
        Recovering, Committed, Undone, Fence
<1>12. ASSUME NEW p \in Publishers, WriteJournal(p) PROVE HandledSound'
    BY PublicationAssumption, <1>12 DEF IInv, TypeOK, Locks, HandledSound, Judged,
        InPlace, InTx, dbVars, fileVars, jobVars, Actors, Holding, Dirs, Current,
        Recovering, Committed, Undone, WriteJournal
<1>13. ASSUME NEW p \in Publishers, WriteJournalRaises(p) PROVE HandledSound'
    BY PublicationAssumption, <1>13 DEF IInv, TypeOK, Locks, HandledSound, Judged,
        InPlace, InTx, dbVars, fileVars, jobVars, Actors, Holding, Dirs, Current,
        Recovering, Committed, Undone, WriteJournalRaises
<1>14. ASSUME NEW p \in Publishers, Replace(p) PROVE HandledSound'
    BY PublicationAssumption, <1>14 DEF IInv, TypeOK, Locks, HandledSound, Judged,
        InPlace, InTx, dbVars, fileVars, jobVars, Actors, Holding, Dirs, Current,
        Recovering, Committed, Undone, Replace
<1>15. ASSUME NEW p \in Publishers, Replaced(p) PROVE HandledSound'
    BY PublicationAssumption, <1>15 DEF IInv, TypeOK, Locks, HandledSound, Judged,
        InPlace, InTx, dbVars, fileVars, jobVars, Actors, Holding, Dirs, Current,
        Recovering, Committed, Undone, Replaced
<1>16. ASSUME NEW p \in Publishers, Commit(p) PROVE HandledSound'
    BY PublicationAssumption, <1>16 DEF IInv, TypeOK, Locks, HandledSound, Judged,
        InPlace, InTx, dbVars, fileVars, jobVars, Actors, Holding, Dirs, Current,
        Recovering, Committed, Undone, Commit
<1>17. ASSUME NEW p \in Publishers, Raises(p) PROVE HandledSound'
    BY PublicationAssumption, <1>17 DEF IInv, TypeOK, Locks, HandledSound, Judged,
        InPlace, InTx, dbVars, fileVars, jobVars, Actors, Holding, Dirs, Current,
        Recovering, Committed, Undone, Raises
<1>18. ASSUME NEW p \in Publishers, Unlock(p) PROVE HandledSound'
    BY PublicationAssumption, <1>18 DEF IInv, TypeOK, Locks, HandledSound, Judged,
        InPlace, InTx, dbVars, fileVars, jobVars, Actors, Holding, Dirs, Current,
        Recovering, Committed, Undone, Unlock, Returns
<1>19. ASSUME NEW a \in Actors, RecoverEntry(a) PROVE HandledSound'
    BY PublicationAssumption, <1>19 DEF IInv, TypeOK, Locks, HandledSound, Judged,
        InPlace, InTx, dbVars, fileVars, jobVars, Actors, Holding, Dirs, Current,
        Recovering, Committed, Undone, RecoverEntry
<1>20. ASSUME NEW a \in Actors, RecoverDone(a) PROVE HandledSound'
    BY PublicationAssumption, <1>20 DEF IInv, TypeOK, Locks, HandledSound, Judged,
        InPlace, InTx, dbVars, fileVars, jobVars, Actors, Holding, Dirs, Current,
        Recovering, Committed, Undone, RecoverDone
<1>21. CASE UNCHANGED vars
    BY PublicationAssumption, <1>21 DEF IInv, TypeOK, Locks, HandledSound, Judged,
        InPlace, InTx, dbVars, fileVars, jobVars, Actors, Holding, Dirs, Current,
        Recovering, Committed, Undone, vars
<1> QED BY <1>1, <1>2, <1>2a, <1>3, <1>4, <1>5, <1>6, <1>7, <1>8, <1>9, <1>10, <1>11,
        <1>12, <1>13, <1>14, <1>15, <1>16, <1>17, <1>18, <1>19, <1>20, <1>21,
        Zenon DEF Next

\* Every variable keeps its type.
LEMMA TypeStep ==
    ASSUME IInv, [Next]_vars
    PROVE  TypeOK'
<1>1. CASE Edit
    BY PublicationAssumption, <1>1 DEF IInv, TypeOK, Locks, HandledSound, Dirs,
        Current, Recovering, Committed, Undone, NoClaim, NoPending, dbVars,
        fileVars, jobVars, Actors, Edit
<1>2. CASE Stage
    BY PublicationAssumption, <1>2 DEF IInv, TypeOK, Locks, HandledSound, Dirs,
        Current, Recovering, Committed, Undone, NoClaim, NoPending, dbVars,
        fileVars, jobVars, Actors, Stage
<1>2a. CASE Discard
    BY PublicationAssumption, <1>2a DEF IInv, TypeOK, Locks, HandledSound, Dirs,
        Current, Recovering, Committed, Undone, NoClaim, NoPending, dbVars,
        fileVars, jobVars, Actors, Discard
<1>3. CASE Crash
    BY PublicationAssumption, <1>3 DEF IInv, TypeOK, Locks, HandledSound, Dirs,
        Current, Recovering, Committed, Undone, NoClaim, NoPending, dbVars,
        fileVars, jobVars, Actors, Crash
<1>4. CASE BootEnds
    BY PublicationAssumption, <1>4 DEF IInv, TypeOK, Locks, HandledSound, Dirs,
        Current, Recovering, Committed, Undone, NoClaim, NoPending, dbVars,
        fileVars, jobVars, Actors, BootEnds
<1>5. ASSUME NEW p \in Publishers, StartSync(p) PROVE TypeOK'
    BY PublicationAssumption, <1>5 DEF IInv, TypeOK, Locks, HandledSound, Dirs,
        Current, Recovering, Committed, Undone, NoClaim, NoPending, dbVars,
        fileVars, jobVars, Actors, StartSync, Begins
<1>6. ASSUME NEW p \in Publishers, StartChapter(p) PROVE TypeOK'
    BY PublicationAssumption, <1>6 DEF IInv, TypeOK, Locks, HandledSound, Dirs,
        Current, Recovering, Committed, Undone, NoClaim, NoPending, dbVars,
        fileVars, jobVars, Actors, StartChapter, Begins
<1>7. ASSUME NEW p \in Publishers, Render(p) PROVE TypeOK'
    BY PublicationAssumption, <1>7 DEF IInv, TypeOK, Locks, HandledSound, Dirs,
        Current, Recovering, Committed, Undone, NoClaim, NoPending, dbVars,
        fileVars, jobVars, Actors, Render
<1>8. ASSUME NEW p \in Publishers, Claim(p) PROVE TypeOK'
    BY PublicationAssumption, <1>8 DEF IInv, TypeOK, Locks, HandledSound, Dirs,
        Current, Recovering, Committed, Undone, NoClaim, NoPending, dbVars,
        fileVars, jobVars, Actors, Claim, ClaimsRendered
<1>9. ASSUME NEW p \in Publishers, GivesUp(p) PROVE TypeOK'
    BY PublicationAssumption, <1>9 DEF IInv, TypeOK, Locks, HandledSound, Dirs,
        Current, Recovering, Committed, Undone, NoClaim, NoPending, dbVars,
        fileVars, jobVars, Actors, GivesUp, Returns
<1>10. ASSUME NEW p \in Publishers, Lock(p) PROVE TypeOK'
    BY PublicationAssumption, <1>10 DEF IInv, TypeOK, Locks, HandledSound, Dirs,
        Current, Recovering, Committed, Undone, NoClaim, NoPending, dbVars,
        fileVars, jobVars, Actors, Lock, Bundle
<1>11. ASSUME NEW p \in Publishers, Fence(p) PROVE TypeOK'
    BY PublicationAssumption, <1>11 DEF IInv, TypeOK, Locks, HandledSound, Dirs,
        Current, Recovering, Committed, Undone, NoClaim, NoPending, dbVars,
        fileVars, jobVars, Actors, Fence, Bundle
<1>12. ASSUME NEW p \in Publishers, WriteJournal(p) PROVE TypeOK'
    BY PublicationAssumption, <1>12 DEF IInv, TypeOK, Locks, HandledSound, Dirs,
        Current, Recovering, Committed, Undone, NoClaim, NoPending, dbVars,
        fileVars, jobVars, Actors, WriteJournal, Ids, Holding, InPlace, InTx
<1>13. ASSUME NEW p \in Publishers, WriteJournalRaises(p) PROVE TypeOK'
    BY PublicationAssumption, <1>13 DEF IInv, TypeOK, Locks, HandledSound, Dirs,
        Current, Recovering, Committed, Undone, NoClaim, NoPending, dbVars,
        fileVars, jobVars, Actors, WriteJournalRaises, Ids, Bundle, Holding,
        InPlace, InTx
<1>14. ASSUME NEW p \in Publishers, Replace(p) PROVE TypeOK'
    BY PublicationAssumption, <1>14 DEF IInv, TypeOK, Locks, HandledSound, Dirs,
        Current, Recovering, Committed, Undone, NoClaim, NoPending, dbVars,
        fileVars, jobVars, Actors, Replace
<1>15. ASSUME NEW p \in Publishers, Replaced(p) PROVE TypeOK'
    BY PublicationAssumption, <1>15 DEF IInv, TypeOK, Locks, HandledSound, Dirs,
        Current, Recovering, Committed, Undone, NoClaim, NoPending, dbVars,
        fileVars, jobVars, Actors, Replaced
<1>16. ASSUME NEW p \in Publishers, Commit(p) PROVE TypeOK'
    BY PublicationAssumption, <1>16 DEF IInv, TypeOK, Locks, HandledSound, Dirs,
        Current, Recovering, Committed, Undone, NoClaim, NoPending, dbVars,
        fileVars, jobVars, Actors, Commit, Bundle
<1>17. ASSUME NEW p \in Publishers, Raises(p) PROVE TypeOK'
    BY PublicationAssumption, <1>17 DEF IInv, TypeOK, Locks, HandledSound, Dirs,
        Current, Recovering, Committed, Undone, NoClaim, NoPending, dbVars,
        fileVars, jobVars, Actors, Raises, Bundle
<1>18. ASSUME NEW p \in Publishers, Unlock(p) PROVE TypeOK'
    BY PublicationAssumption, <1>18 DEF IInv, TypeOK, Locks, HandledSound, Dirs,
        Current, Recovering, Committed, Undone, NoClaim, NoPending, dbVars,
        fileVars, jobVars, Actors, Unlock, Returns
<1>19. ASSUME NEW a \in Actors, RecoverEntry(a) PROVE TypeOK'
    BY PublicationAssumption, <1>19 DEF IInv, TypeOK, Locks, HandledSound, Dirs,
        Current, Recovering, Committed, Undone, NoClaim, NoPending, dbVars,
        fileVars, jobVars, Actors, RecoverEntry
<1>20. ASSUME NEW a \in Actors, RecoverDone(a) PROVE TypeOK'
    BY PublicationAssumption, <1>20 DEF IInv, TypeOK, Locks, HandledSound, Dirs,
        Current, Recovering, Committed, Undone, NoClaim, NoPending, dbVars,
        fileVars, jobVars, Actors, RecoverDone
<1>21. CASE UNCHANGED vars
    BY PublicationAssumption, <1>21 DEF IInv, TypeOK, Locks, HandledSound, Dirs,
        Current, Recovering, Committed, Undone, NoClaim, NoPending, dbVars,
        fileVars, jobVars, Actors, vars
<1> QED BY <1>1, <1>2, <1>2a, <1>3, <1>4, <1>5, <1>6, <1>7, <1>8, <1>9, <1>10, <1>11,
        <1>12, <1>13, <1>14, <1>15, <1>16, <1>17, <1>18, <1>19, <1>20, <1>21,
        Zenon DEF Next

\* The files are put in place one by one, behind the journals.
LEMMA InPlaceStep ==
    ASSUME IInv, [Next]_vars
    PROVE  InPlace'
<1>1. CASE Edit
    BY PublicationAssumption, <1>1 DEF IInv, TypeOK, Locks, InPlace, Rendered,
        HandledSound, Holding, InTx, Valid, Bundle, Dirs, Current, Recovering,
        dbVars, fileVars, jobVars, Actors, Edit, DbFree, TxOpen
<1>2. CASE Stage
    BY PublicationAssumption, <1>2 DEF IInv, TypeOK, Locks, InPlace, Rendered,
        HandledSound, Holding, InTx, Valid, Bundle, Dirs, Current, Recovering,
        dbVars, fileVars, jobVars, Actors, Stage, DbFree, TxOpen
<1>2a. CASE Discard
    BY PublicationAssumption, <1>2a DEF IInv, TypeOK, Locks, InPlace, Rendered,
        HandledSound, Holding, InTx, Valid, Bundle, Dirs, Current, Recovering,
        dbVars, fileVars, jobVars, Actors, Discard, DbFree, TxOpen
<1>3. CASE Crash
    BY PublicationAssumption, <1>3 DEF IInv, TypeOK, Locks, InPlace, Rendered,
        HandledSound, Holding, InTx, Valid, Bundle, Dirs, Current, Recovering,
        dbVars, fileVars, jobVars, Actors, Crash
<1>4. CASE BootEnds
    BY PublicationAssumption, <1>4 DEF IInv, TypeOK, Locks, InPlace, Rendered,
        HandledSound, Holding, InTx, Valid, Bundle, Dirs, Current, Recovering,
        dbVars, fileVars, jobVars, Actors, BootEnds
<1>5. ASSUME NEW p \in Publishers, StartSync(p) PROVE InPlace'
    BY PublicationAssumption, <1>5 DEF IInv, TypeOK, Locks, InPlace, Rendered,
        HandledSound, Holding, InTx, Valid, Bundle, Dirs, Current, Recovering,
        dbVars, fileVars, jobVars, Actors, StartSync, Begins
<1>6. ASSUME NEW p \in Publishers, StartChapter(p) PROVE InPlace'
    BY PublicationAssumption, <1>6 DEF IInv, TypeOK, Locks, InPlace, Rendered,
        HandledSound, Holding, InTx, Valid, Bundle, Dirs, Current, Recovering,
        dbVars, fileVars, jobVars, Actors, StartChapter, Begins, DbFree, TxOpen
<1>7. ASSUME NEW p \in Publishers, Render(p) PROVE InPlace'
    BY PublicationAssumption, <1>7 DEF IInv, TypeOK, Locks, InPlace, Rendered,
        HandledSound, Holding, InTx, Valid, Bundle, Dirs, Current, Recovering,
        dbVars, fileVars, jobVars, Actors, Render
<1>8. ASSUME NEW p \in Publishers, Claim(p) PROVE InPlace'
    BY PublicationAssumption, <1>8 DEF IInv, TypeOK, Locks, InPlace, Rendered,
        HandledSound, Holding, InTx, Valid, Bundle, Dirs, Current, Recovering,
        dbVars, fileVars, jobVars, Actors, Claim, ClaimsRendered, DbFree, TxOpen
<1>9. ASSUME NEW p \in Publishers, GivesUp(p) PROVE InPlace'
    BY PublicationAssumption, <1>9 DEF IInv, TypeOK, Locks, InPlace, Rendered,
        HandledSound, Holding, InTx, Valid, Bundle, Dirs, Current, Recovering,
        dbVars, fileVars, jobVars, Actors, GivesUp, Returns
<1>10. ASSUME NEW p \in Publishers, Lock(p) PROVE InPlace'
    BY PublicationAssumption, <1>10 DEF IInv, TypeOK, Locks, InPlace, Rendered,
        HandledSound, Holding, InTx, Valid, Bundle, Dirs, Current, Recovering,
        dbVars, fileVars, jobVars, Actors, Lock
<1>11. ASSUME NEW p \in Publishers, Fence(p) PROVE InPlace'
    BY PublicationAssumption, <1>11 DEF IInv, TypeOK, Locks, InPlace, Rendered,
        HandledSound, Holding, InTx, Valid, Bundle, Dirs, Current, Recovering,
        dbVars, fileVars, jobVars, Actors, Fence
<1>12. ASSUME NEW p \in Publishers, WriteJournal(p) PROVE InPlace'
    BY PublicationAssumption, <1>12 DEF IInv, TypeOK, Locks, InPlace, Rendered,
        HandledSound, Holding, InTx, Valid, Bundle, Dirs, Current, Recovering,
        dbVars, fileVars, jobVars, Actors, WriteJournal
<1>13. ASSUME NEW p \in Publishers, WriteJournalRaises(p) PROVE InPlace'
    BY PublicationAssumption, <1>13 DEF IInv, TypeOK, Locks, InPlace, Rendered,
        HandledSound, Holding, InTx, Valid, Bundle, Dirs, Current, Recovering,
        dbVars, fileVars, jobVars, Actors, WriteJournalRaises
<1>14. ASSUME NEW p \in Publishers, Replace(p) PROVE InPlace'
    BY PublicationAssumption, <1>14 DEF IInv, TypeOK, Locks, InPlace, Rendered,
        HandledSound, Holding, InTx, Valid, Bundle, Dirs, Current, Recovering,
        dbVars, fileVars, jobVars, Actors, Replace
<1>15. ASSUME NEW p \in Publishers, Replaced(p) PROVE InPlace'
    <2> DEFINE d == Current(p)
    <2>1. /\ pc[p] = "replace" /\ pc' = [pc EXCEPT ![p] = "prepare"]
          /\ todo' = [todo EXCEPT ![p] = @ \ {d}] /\ temp[d] = {}
          /\ UNCHANGED <<revision, pending, claim, file, journal, chapter, pub, rev, content>>
        BY <1>15 DEF Replaced, dbVars, fileVars, jobVars
    <2>2. Valid(p)' /\ todo'[p] \subseteq Bundle(p)' /\ pc'[p] = "prepare"
        BY <2>1 DEF IInv, TypeOK, InPlace, InTx, Valid, Bundle, Actors
    <2>3. journal[d] = pub[p] /\ \A f \in FilesOf[d] : file[d][f] = content[p][d]
        BY <2>1 DEF IInv, InPlace
    <2>4. \A e \in Dirs :
            /\ e \notin Bundle(p) => journal[e] = 0
            /\ e \in Bundle(p) \ todo[p] =>
                journal[e] = pub[p] /\ \A f \in FilesOf[e] : file[e][f] = content[p][e]
            /\ e \in todo[p] /\ e # d => journal[e] = 0
        BY <2>1 DEF IInv, InPlace, InTx
    <2>5. \A e \in Dirs :
            /\ e \notin Bundle(p)' => journal'[e] = 0
            /\ e \in Bundle(p)' \ todo'[p] =>
                journal'[e] = pub'[p] /\ \A f \in FilesOf[e] : file'[e][f] = content'[p][e]
            /\ e \in todo'[p] => journal'[e] = 0
        <3> HIDE DEF d
        <3> QED BY <2>1, <2>3, <2>4 DEF IInv, TypeOK, Bundle, Actors
    <2>6. ASSUME NEW q \in Publishers, q # p
          PROVE  pc'[q] = pc[q] /\ pc[q] \notin {"recover", "prepare", "replace"}
        BY <2>1, <2>6 DEF IInv, TypeOK, Locks, Holding, Actors
    <2> QED BY <2>2, <2>5, <2>6 DEF InPlace, InTx
<1>16. ASSUME NEW p \in Publishers, Commit(p) PROVE InPlace'
    BY PublicationAssumption, <1>16 DEF IInv, TypeOK, Locks, InPlace, Rendered,
        HandledSound, Holding, InTx, Valid, Bundle, Dirs, Current, Recovering,
        dbVars, fileVars, jobVars, Actors, Commit
<1>17. ASSUME NEW p \in Publishers, Raises(p) PROVE InPlace'
    BY PublicationAssumption, <1>17 DEF IInv, TypeOK, Locks, InPlace, Rendered,
        HandledSound, Holding, InTx, Valid, Bundle, Dirs, Current, Recovering,
        dbVars, fileVars, jobVars, Actors, Raises
<1>18. ASSUME NEW p \in Publishers, Unlock(p) PROVE InPlace'
    BY PublicationAssumption, <1>18 DEF IInv, TypeOK, Locks, InPlace, Rendered,
        HandledSound, Holding, InTx, Valid, Bundle, Dirs, Current, Recovering,
        dbVars, fileVars, jobVars, Actors, Unlock, Returns
<1>19. ASSUME NEW a \in Actors, RecoverEntry(a) PROVE InPlace'
    BY PublicationAssumption, <1>19 DEF IInv, TypeOK, Locks, InPlace, Rendered,
        HandledSound, Holding, InTx, Valid, Bundle, Dirs, Current, Recovering,
        dbVars, fileVars, jobVars, Actors, RecoverEntry, Committed, Undone
<1>20. ASSUME NEW a \in Actors, RecoverDone(a) PROVE InPlace'
    BY PublicationAssumption, <1>20 DEF IInv, TypeOK, Locks, InPlace, Rendered,
        HandledSound, Holding, InTx, Valid, Bundle, Dirs, Current, Recovering,
        dbVars, fileVars, jobVars, Actors, RecoverDone
<1>21. CASE UNCHANGED vars
    BY PublicationAssumption, <1>21 DEF IInv, TypeOK, Locks, InPlace, Rendered,
        HandledSound, Holding, InTx, Valid, Bundle, Dirs, Current, Recovering,
        dbVars, fileVars, jobVars, Actors, vars
<1> QED BY <1>1, <1>2, <1>2a, <1>3, <1>4, <1>5, <1>6, <1>7, <1>8, <1>9, <1>10, <1>11,
        <1>12, <1>13, <1>14, <1>15, <1>16, <1>17, <1>18, <1>19, <1>20, <1>21,
        Zenon DEF Next

-----------------------------------------------------------------------------

\* The invariant holds in every reachable state.
LEMMA InvariantLemma == Spec => []IInv
<1>1. Init => IInv
    <2> SUFFICES ASSUME Init PROVE IInv
        OBVIOUS
    <2>1. TypeOK
        <3>1. /\ revision \in Nat /\ runsExist \in BOOLEAN /\ nextId \in 1..(MaxIds + 1)
              /\ pending \in [id : 0..MaxIds, owner : Publishers \cup {None}]
              /\ claim \in [id : 0..MaxIds, owner : Publishers \cup {None}, rev : Nat]
              /\ receipt \in [id : 0..MaxIds, rev : Nat] /\ chapterReceipt \in 0..MaxIds
            <4>1. /\ revision = 1 /\ runsExist = FALSE /\ nextId = 1 /\ chapterReceipt = 0
                  /\ pending = [id |-> 0, owner |-> None] /\ receipt = [id |-> 0, rev |-> 0]
                  /\ claim = [id |-> 0, owner |-> None, rev |-> 0]
                BY DEF Init, NoClaim, NoPending
            <4>2. MaxIds \in Nat
                BY PublicationAssumption
            <4>3. nextId \in 1..(MaxIds + 1) /\ 0 \in 0..MaxIds
                BY <4>1, <4>2
            <4>4. NoPending \in [id : 0..MaxIds, owner : Publishers \cup {None}]
                BY <4>2, <4>3 DEF NoPending
            <4>5. NoClaim \in [id : 0..MaxIds, owner : Publishers \cup {None}, rev : Nat]
                BY <4>2, <4>3 DEF NoClaim
            <4>6. [id |-> 0, rev |-> 0] \in [id : 0..MaxIds, rev : Nat]
                BY <4>2, <4>3
            <4> QED BY <4>1, <4>3, <4>4, <4>5, <4>6 DEF NoPending, NoClaim
        <3>2. /\ DOMAIN file = Dirs /\ DOMAIN backup = Dirs
              /\ journal \in [Dirs -> 0..MaxIds] /\ DOMAIN existed = Dirs
              /\ DOMAIN temp = Dirs
            BY PublicationAssumption DEF Init
        <3>3. ASSUME NEW d \in Dirs
              PROVE  /\ file[d] \in [FilesOf[d] -> Nat] /\ backup[d] \in [FilesOf[d] -> Nat]
                     /\ existed[d] \subseteq FilesOf[d] /\ temp[d] \subseteq FilesOf[d]
                     /\ temp[d] = {} /\ \A f \in FilesOf[d] : backup[d][f] = 0
            BY DEF Init
        <3>4. /\ lock \in Actors \cup {None}
              /\ pc \in [Actors -> {"idle", "render", "claimed", "recover", "prepare",
                                    "replace", "settle", "undo", "boot"}]
              /\ todo \in [Actors -> SUBSET Dirs]
              /\ handled \subseteq UNION {FilesOf[d] : d \in Dirs}
            BY DEF Init
        <3>5. /\ chapter \in [Publishers -> BOOLEAN] /\ pub \in [Publishers -> 0..MaxIds]
              /\ rev \in [Publishers -> Nat] /\ content \in [Publishers -> [Dirs -> Nat]]
            BY PublicationAssumption DEF Init
        <3> QED BY <3>1, <3>2, <3>3, <3>4, <3>5 DEF TypeOK
    <2>2. \A a \in Actors : pc[a] = "idle" /\ lock # a
        BY PublicationAssumption DEF Init
    <2>3. Locks /\ InPlace /\ HandledSound
        BY <2>2 DEF Init, Locks, InPlace, HandledSound, Holding, InTx, Recovering, Actors
    <2>4. Ids /\ Judged
        BY <2>2 DEF Init, Ids, Judged, Holding, Actors, NoClaim, NoPending
    <2>5. Rendered
        BY <2>2 DEF Init, Rendered, Actors
    <2> QED BY <2>1, <2>3, <2>4, <2>5 DEF IInv
<1>2. IInv /\ [Next]_vars => IInv'
    BY TypeStep, LocksStep, IdsStep, JudgedStep, RenderedStep, InPlaceStep, HandledStep
        DEF IInv
<1> QED BY <1>1, <1>2, PTL DEF Spec

\* Every variable of the publication keeps its type, and a directory without a
\* journal has no temporary file and no backup left.
THEOREM TypeCorrect == Spec => []TypeOK
<1>1. IInv => TypeOK
    BY DEF IInv
<1> QED BY <1>1, InvariantLemma, PTL

\* What an edit changes before the commit is in the committed files: the bundle
\* was rendered from the revision that is current at the commit, and holds every
\* directory there is something to publish in.
THEOREM CommitsCurrent == Spec => CommittedIsCurrent
<1> DEFINE AtCommit(p) == pc[p] = "prepare" /\ pc'[p] = "settle" =>
            /\ \A d \in Dirs : d = Main \/ runsExist => content[p][d] = revision
<1>1. ASSUME IInv PROVE \A p \in Publishers : AtCommit(p)
    <2> SUFFICES ASSUME NEW p \in Publishers, pc[p] = "prepare",
                        NEW d \in Dirs, d = Main \/ runsExist
                 PROVE  content[p][d] = revision
        OBVIOUS
    <2>1. revision = rev[p]
        BY <1>1 DEF IInv, InPlace, InTx, Valid
    <2>2. content[p][d] # 0
        BY <1>1, <2>1 DEF IInv, Rendered
    <2>3. rev[p] <= content[p][d] /\ content[p][d] <= revision
        BY <1>1, <2>2 DEF IInv, Rendered
    <2>4. revision \in Nat /\ content[p][d] \in Nat
        BY <1>1 DEF IInv, TypeOK
    <2> QED BY <2>1, <2>3, <2>4
<1>2. IInv => [\A p \in Publishers : AtCommit(p)]_vars
    BY <1>1
<1> QED BY <1>2, InvariantLemma, PTL DEF CommittedIsCurrent

-----------------------------------------------------------------------------
(* The publication is atomic: the steps of the protocol, seen through Shown *)

\* What a reader sees of one file.
Seen(d, f) == IF journal[d] \in {0, receipt.id} THEN file[d][f] ELSE Undone(d, f)

LEMMA SeenSame ==
    ASSUME receipt' = receipt,
           \A d \in Dirs : \A f \in FilesOf[d] : Seen(d, f)' = Seen(d, f)
    PROVE  UNCHANGED <<Shown, receipt>>
<1>1. Shown = [d \in Dirs |-> [f \in FilesOf[d] |-> Seen(d, f)]]
    BY DEF Shown, Seen
<1>2. Shown' = [d \in Dirs |-> [f \in FilesOf[d] |-> Seen(d, f)']]
    BY DEF Shown, Seen
<1> QED BY <1>1, <1>2

\* The steps that leave the files and their journals alone.
LEMMA DiskSame ==
    ASSUME UNCHANGED <<file, journal, existed, backup, receipt>>
    PROVE  UNCHANGED <<Shown, receipt>>
BY DEF Shown, Undone

\* The recovery of an entry: an entry of a committed transaction shows the file
\* as it is, another one the outcome of undoing it, before and after.
LEMMA RecoverEntryShows ==
    ASSUME IInv, NEW a \in Actors, RecoverEntry(a)
    PROVE  UNCHANGED <<Shown, receipt>>
<1>0. PICK d \in Dirs : d = Current(a)
    BY DEF Current, Dirs
<1>1. UNCHANGED <<receipt, journal, existed>> /\ journal[d] # 0
    BY <1>0 DEF RecoverEntry, dbVars
<1>2. PICK f \in FilesOf[d] :
        /\ file' = IF journal[d] \in Committed(a) THEN file
                   ELSE [file EXCEPT ![d][f] = Undone(d, f)]
        /\ backup' = [backup EXCEPT ![d][f] = 0]
    BY <1>0 DEF RecoverEntry
<1>3. journal[d] \in Committed(a) <=> journal[d] = receipt.id
    BY <1>1 DEF IInv, Judged, Committed
<1>4. /\ DOMAIN file = Dirs /\ DOMAIN backup = Dirs
      /\ \A e \in Dirs : file[e] \in [FilesOf[e] -> Nat] /\ backup[e] \in [FilesOf[e] -> Nat]
    BY DEF IInv, TypeOK
<1>5. Seen(d, f)' = Seen(d, f)
    <2>1. backup'[d][f] = 0
        BY <1>1, <1>2, <1>4
    <2>2. CASE journal[d] = receipt.id
        BY <1>1, <1>2, <1>3, <2>2 DEF Seen
    <2>3. CASE journal[d] # receipt.id
        <3>1. file'[d][f] = Undone(d, f)
            BY <1>1, <1>2, <1>3, <1>4, <2>3
        <3> QED BY <1>1, <2>1, <2>3, <3>1 DEF Seen, Undone
    <2> QED BY <2>2, <2>3
<1>6. ASSUME NEW e \in Dirs, NEW g \in FilesOf[e], e # d \/ g # f
      PROVE  Seen(e, g)' = Seen(e, g)
    <2>1. file'[e][g] = file[e][g] /\ backup'[e][g] = backup[e][g]
        BY <1>1, <1>2, <1>4, <1>6
    <2> QED BY <1>1, <2>1 DEF Seen, Undone
<1> QED BY <1>1, <1>5, <1>6, SeenSame

\* A journal goes when each of its entries is as the journal says.
LEMMA RecoverDoneShows ==
    ASSUME IInv, NEW a \in Actors, RecoverDone(a)
    PROVE  UNCHANGED <<Shown, receipt>>
<1>0. PICK d \in Dirs : d = Current(a)
    BY DEF Current, Dirs
<1>1. /\ UNCHANGED <<receipt, file, backup>>
      /\ journal[d] # 0 => FilesOf[d] \subseteq handled
      /\ journal' = [journal EXCEPT ![d] = 0] /\ existed' = [existed EXCEPT ![d] = {}]
      /\ Recovering(a)
    BY <1>0 DEF RecoverDone, dbVars
<1>2. journal'[d] = 0 /\ \A e \in Dirs : e # d => journal'[e] = journal[e] /\ existed'[e] = existed[e]
    BY <1>1 DEF IInv, TypeOK
<1>3. ASSUME NEW f \in FilesOf[d] PROVE Seen(d, f)' = Seen(d, f)
    <2>1. Seen(d, f)' = file[d][f]
        BY <1>1, <1>2 DEF Seen
    <2>2. journal[d] \notin {0, receipt.id} => file[d][f] = Undone(d, f)
        BY <1>0, <1>1, <1>3 DEF IInv, HandledSound, Undone
    <2> QED BY <2>1, <2>2 DEF Seen
<1>4. ASSUME NEW e \in Dirs, NEW f \in FilesOf[e], e # d PROVE Seen(e, f)' = Seen(e, f)
    BY <1>1, <1>2, <1>4 DEF Seen, Undone
<1> QED BY <1>1, <1>3, <1>4, SeenSame

\* A new journal undoes to what is in the files: their contents are in the
\* backups, or there are no backups and the files are in place.
LEMMA WriteJournalShows ==
    ASSUME IInv, NEW p \in Publishers, WriteJournal(p) \/ WriteJournalRaises(p)
    PROVE  UNCHANGED <<Shown, receipt>>
<1>0. PICK d \in Dirs : d = Current(p)
    BY DEF Current, Dirs
<1>1. /\ UNCHANGED <<receipt, file>> /\ pc[p] = "prepare" /\ d \in todo[p]
      /\ journal' = [journal EXCEPT ![d] = pub[p]]
      /\ existed' = [existed EXCEPT ![d] = {f \in FilesOf[d] : file[d][f] # 0}]
      /\ backup' = backup \/ backup' = [backup EXCEPT ![d] = file[d]]
    BY <1>0 DEF WriteJournal, WriteJournalRaises, dbVars, Current, IInv, InPlace, InTx, Bundle, Dirs
<1>2. journal[d] = 0
    BY <1>1 DEF IInv, InPlace, InTx, Bundle
<1>3. \A f \in FilesOf[d] : backup[d][f] = 0
    BY <1>2 DEF IInv, TypeOK
<1>4. /\ existed'[d] = {f \in FilesOf[d] : file[d][f] # 0}
      /\ \A f \in FilesOf[d] : backup'[d][f] \in {0, file[d][f]}
      /\ \A e \in Dirs : e # d =>
            journal'[e] = journal[e] /\ existed'[e] = existed[e] /\ backup'[e] = backup[e]
    BY <1>1, <1>2, <1>3 DEF IInv, TypeOK
<1>5. ASSUME NEW f \in FilesOf[d] PROVE Seen(d, f)' = Seen(d, f)
    <2>1. Undone(d, f)' = file[d][f]
        BY <1>1, <1>4, <1>5 DEF Undone
    <2> QED BY <1>1, <1>2, <2>1 DEF Seen
<1>6. ASSUME NEW e \in Dirs, NEW f \in FilesOf[e], e # d PROVE Seen(e, f)' = Seen(e, f)
    BY <1>1, <1>4, <1>6 DEF Seen, Undone
<1> QED BY <1>1, <1>5, <1>6, SeenSame

\* A file is replaced behind a journal that undoes to its backup.
LEMMA ReplaceShows ==
    ASSUME IInv, NEW p \in Publishers, Replace(p)
    PROVE  UNCHANGED <<Shown, receipt>>
<1>0. PICK d \in Dirs : d = Current(p)
    BY DEF Current, Dirs
<1>1. UNCHANGED <<receipt, journal, existed, backup>> /\ pc[p] = "replace"
    BY DEF Replace, dbVars
<1>2. journal[d] = pub[p] /\ \A f \in existed[d] : backup[d][f] # 0
    BY <1>0, <1>1 DEF IInv, InPlace
<1>3. pub[p] \notin {0, receipt.id}
    BY <1>1 DEF IInv, InPlace, InTx, Valid, Ids, Holding
<1>4. PICK f \in temp[d] : file' = [file EXCEPT ![d][f] = content[p][d]]
    BY <1>0 DEF Replace
<1>5. f \in FilesOf[d] /\ DOMAIN file = Dirs /\ DOMAIN file[d] = FilesOf[d]
    BY <1>1, <1>4 DEF IInv, TypeOK
<1>6. ASSUME NEW e \in Dirs, NEW g \in FilesOf[e], e # d PROVE Seen(e, g)' = Seen(e, g)
    <2>1. file'[e] = file[e]
        BY <1>4, <1>5, <1>6
    <2> QED BY <1>1, <2>1 DEF Seen, Undone
<1>7. ASSUME NEW g \in FilesOf[d] PROVE Seen(d, g)' = Seen(d, g)
    BY <1>1, <1>2, <1>3, <1>7 DEF Seen, Undone
<1> QED BY <1>1, <1>6, <1>7, SeenSame

\* The commit publishes the bundle: the files of its directories hold what was
\* rendered at the revision of the receipt, and the other directories have no
\* journal whose judgement changes.
LEMMA CommitPublishes ==
    ASSUME IInv, NEW p \in Publishers, Commit(p)
    PROVE  Contract!Publish(Bundle(p))
<1>1. /\ UNCHANGED <<file, journal, existed, backup>> /\ pc[p] = "prepare" /\ todo[p] = {}
      /\ receipt' = [id |-> pub[p], rev |-> rev[p]]
    BY DEF Commit, fileVars
<1>2. Valid(p) /\ pub[p] # 0
    BY <1>1 DEF IInv, InPlace, InTx, Ids, Holding
<1>3. receipt'.id # receipt.id
    BY <1>1, <1>2 DEF IInv, Ids, Valid
<1>4. receipt'.rev >= receipt.rev
    BY <1>1, <1>2 DEF IInv, TypeOK, Rendered, Valid
<1>5. \A d \in Dirs :
        /\ d \notin Bundle(p) => journal[d] = 0
        /\ d \in Bundle(p) =>
            journal[d] = pub[p] /\ \A f \in FilesOf[d] : file[d][f] = content[p][d]
    BY <1>1 DEF IInv, InPlace, InTx
<1>6. ASSUME NEW d \in Dirs, d \in Bundle(p) PROVE content[p][d] = rev[p]
    <2>1. rev[p] <= content[p][d] /\ content[p][d] <= revision /\ revision = rev[p]
        BY <1>1, <1>2, <1>6 DEF IInv, Rendered, Bundle, Valid
    <2>2. revision \in Nat /\ content[p][d] \in Nat
        BY DEF IInv, TypeOK
    <2> QED BY <2>1, <2>2
<1>7. ASSUME NEW d \in Dirs, d \in Bundle(p)
      PROVE  [f \in FilesOf[d] |-> Seen(d, f)'] = [f \in FilesOf[d] |-> receipt'.rev]
    BY <1>1, <1>5, <1>6, <1>7 DEF Seen
<1>8. ASSUME NEW d \in Dirs, d \notin Bundle(p)
      PROVE  [f \in FilesOf[d] |-> Seen(d, f)'] = Shown[d]
    BY <1>1, <1>5, <1>8 DEF Seen, Shown
<1>9. Shown' = [d \in Dirs |-> [f \in FilesOf[d] |-> Seen(d, f)']]
    BY DEF Shown, Seen
<1>10. Shown' = [d \in Dirs |-> IF d \in Bundle(p) THEN [f \in FilesOf[d] |-> receipt'.rev]
                                ELSE Shown[d]]
    BY <1>7, <1>8, <1>9
<1> QED BY <1>3, <1>4, <1>10 DEF Contract!Publish

\* The files of all directories change together, in the commit, to what one
\* database revision renders to: the journals, the recovery and the start after
\* a crash implement the atomic publication.
THEOREM PublishesAtomically == Spec => ImplementsContract
<1>1. Init => Contract!Init
    BY DEF Init, Shown, Contract!Init
<1>2. ASSUME IInv, [Next]_vars PROVE [Contract!Next]_(Contract!vars)
    <2> SUFFICES \/ UNCHANGED <<Shown, receipt>>
                 \/ \E p \in Publishers : Contract!Publish(Bundle(p))
        BY DEF Contract!Next, Contract!vars, Bundle
    <2>1. CASE Edit \/ Stage \/ Discard \/ Crash \/ BootEnds \/ UNCHANGED vars
        BY <2>1, DiskSame DEF Edit, Stage, Discard, Crash, BootEnds, vars, dbVars, fileVars
    <2>2. ASSUME NEW p \in Publishers,
                 \/ StartSync(p) \/ StartChapter(p) \/ Render(p) \/ Claim(p) \/ GivesUp(p)
                 \/ Lock(p) \/ Fence(p) \/ Replaced(p) \/ Raises(p) \/ Unlock(p)
          PROVE  UNCHANGED <<Shown, receipt>>
        BY <2>2, DiskSame DEF StartSync, StartChapter, Begins, Render, Claim, GivesUp, Lock,
            Fence, Replaced, Raises, Unlock, dbVars, fileVars
    <2>3. ASSUME NEW p \in Publishers, WriteJournal(p) \/ WriteJournalRaises(p) \/ Replace(p)
          PROVE  UNCHANGED <<Shown, receipt>>
        BY <1>2, <2>3, WriteJournalShows, ReplaceShows
    <2>4. ASSUME NEW p \in Publishers, Commit(p) PROVE Contract!Publish(Bundle(p))
        BY <1>2, <2>4, CommitPublishes
    <2>5. ASSUME NEW a \in Actors, RecoverEntry(a) \/ RecoverDone(a)
          PROVE  UNCHANGED <<Shown, receipt>>
        BY <1>2, <2>5, RecoverEntryShows, RecoverDoneShows
    <2> QED BY <1>2, <2>1, <2>2, <2>3, <2>4, <2>5, Zenon DEF Next
<1> QED BY <1>1, <1>2, InvariantLemma, PTL DEF Spec, ImplementsContract, Contract!Spec
=============================================================================
