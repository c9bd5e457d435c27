----------------------------- MODULE MCOcrFiles -----------------------------
(***************************************************************************)
(* OcrFiles for TLC: the part that runs is chosen at the start, and the    *)
(* others stand still.                                                     *)
(***************************************************************************)
EXTENDS OcrFiles

CONSTANTS a, b, book, other, page, next, p1, p2, c1, c2

VARIABLE part

OneOfEach(cat) == IF cat = "jobs" THEN 2 ELSE 1
BookSlot(x) == 1
Same == Permutations({a, b}) \cup Permutations({book, other}) \cup Permutations({page, next})

\* One caller of a publication in each process.
Process(t) == IF t = c1 THEN p1 ELSE p2

EitherInit ==
    /\ part \in {"cache", "locks", "migration"} /\ Init /\ C!Init /\ L!Init
    /\ part # "migration" => kind = "note"
EitherNext ==
    \/ part = "cache" /\ C!Next
        /\ UNCHANGED <<part, vars, root, file, workerFile, turn, mutex, registered, open,
                       through, thread>>
    \/ part = "locks" /\ L!Next
        /\ UNCHANGED <<part, vars, disk, valid, committed, held, lock, slot, index, job, client>>
    \/ part = "migration" /\ Next /\ UNCHANGED <<part, cacheVars, lockVars>>
EitherSpec == EitherInit /\ [][EitherNext]_<<part, vars, cacheVars, lockVars>>
=============================================================================
