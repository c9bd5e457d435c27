----------------------------- MODULE PageCache -----------------------------
(***************************************************************************)
(* The cache of rendered pages (workbench/ocr/page_cache.py) and the       *)
(* client that fills it (VisionClient.recognize, workbench/ocr/vision.py). *)
(*                                                                         *)
(* A client copies its book into the cache, renders a page in a job        *)
(* directory, and publishes image and metadata.  Room for each of the      *)
(* three is reserved in a quota file that the clients share; a reservation *)
(* lives as long as the lock slot that its client holds.  When there is no *)
(* room, the reservations of dead clients are dropped, the cache is        *)
(* measured, and what nobody has locked is evicted.                        *)
(*                                                                         *)
(* A piece of the cache has size one.  Work under the quota lock is one    *)
(* step, but a client may also die in the middle of it; a file that a dead *)
(* client leaves is a piece of its own.  The slots of two pages differ.    *)
(* The limit on the number of entries is left out beside those on bytes.   *)
(***************************************************************************)
EXTENDS Naturals, FiniteSets

CONSTANTS
    Clients, Books, Pages,
    Dead, None,         \* a client that is gone; nobody
    Limit(_),           \* limit of a category
    MaxCache,           \* max_page_cache_bytes
    MaxReservations,
    JobSlots,           \* lock slots of jobs and of books that may be evicted
    SlotOf(_),          \* the one of a book
    MaxCrashes          \* bound of the model: clients that die

Categories == {"source", "pages", "jobs"}
Names == Clients \cup Books \cup Pages \cup {Dead}
Piece(c, n) == [cat |-> c, name |-> n]

PageCacheAssumption ==
    /\ {Dead, None} \cap (Clients \cup Books \cup Pages) = {} /\ Dead # None
    /\ Clients \cap (Books \cup Pages) = {} /\ Books \cap Pages = {}
    /\ \A c \in Categories : Limit(c) \in Nat
    /\ MaxCache \in Nat /\ MaxReservations \in Nat /\ MaxCrashes \in Nat
    /\ \A b \in Books : SlotOf(b) \in JobSlots

VARIABLES
    disk,       \* the pieces that are there
    valid,      \* the pages with metadata
    committed,  \* quota file: what is counted of each category
    held,       \* quota file: the reservations, <<client, category>>
    lock,       \* lock[k]: who holds the lock of page k
    slot,       \* slot[c]: the lock slot of the job of c
    index,      \* index[c]: the books that c has a snapshot of, as far as it knows
    job,        \* job[c]: the book and the page that c is at
    pc, crashes

vars == <<disk, valid, committed, held, lock, slot, index, job, pc, crashes>>

Steps == {"off", "idle", "source", "copy", "link", "linked", "lock", "job", "job dir",
          "render", "image", "publish", "meta", "commit", "clean", "refused"}

TypeOK ==
    /\ disk \subseteq [cat : Categories, name : Names] /\ valid \subseteq Pages
    /\ committed \in [Categories -> Nat] /\ held \subseteq (Clients \cup {Dead}) \X Categories
    /\ lock \in [Pages -> Clients \cup {None}] /\ slot \in [Clients -> JobSlots \cup {None}]
    /\ index \in [Clients -> SUBSET Books]
    /\ job \in [Clients -> (Books \X Pages) \cup {None}]
    /\ pc \in [Clients -> Steps] /\ crashes \in 0..MaxCrashes

Init ==
    /\ disk = {} /\ valid = {} /\ held = {}
    /\ committed = [c \in Categories |-> 0]
    /\ lock = [k \in Pages |-> None] /\ slot = [c \in Clients |-> None]
    /\ index = [c \in Clients |-> {}] /\ job = [c \in Clients |-> None]
    /\ pc = [c \in Clients |-> "off"] /\ crashes = 0

Go(c, where) == pc' = [pc EXCEPT ![c] = where]
Book(c) == job[c][1]
Page(c) == job[c][2]

-----------------------------------------------------------------------------
(* The quota *)

Reserved(h, cat) == Cardinality({r \in h : r[2] = cat})

\* _capacity_exceeded by one more of a category; by how much, in it and in all.
Over(n, limit) == IF n > limit THEN n - limit ELSE 0
OverCategory(count, h, cat) == Over(count[cat] + Reserved(h, cat) + 1, Limit(cat))
OverAll(count, h) ==
    Over(count["source"] + count["pages"] + count["jobs"] + Cardinality(h) + 1, MaxCache)
Exceeded(count, h, cat) == OverCategory(count, h, cat) > 0 \/ OverAll(count, h) > 0

\* A mutant of Recovered: the slots are not looked at.
NoneRecovered(h) == h

\* _recover_reservations_locked: those whose slot can be locked are dead.
Recovered(h) == {r \in h : r[1] # Dead}

\* _scan_cache_usage: what is there, without the protected paths.
Measured(there) == [cat \in Categories |-> Cardinality({x \in there : x.cat = cat})]

\* What a reservation protects: the temporary of its client, and its page.
Protected(c) ==
    {Piece("source", c), Piece("pages", c)}
        \cup (IF job[c] # None THEN {Piece("pages", Page(c))} ELSE {})

\* A mutant of Unlocked: the locks of others do not matter.
LockedToo(c, x) == x \notin Protected(c)

\* _try_candidate_lock: pages by the lock of the entry, which its temporary image
\* shares; books and jobs by a slot; other files of the sources have no lock.
Unlocked(c, x) ==
    /\ x \notin Protected(c)
    /\ x.cat = "pages" =>
        /\ x.name \notin Clients
        /\ x.name \in Pages => lock[x.name] = None
    /\ x.cat = "jobs" => x.name = Dead
    /\ x.name \in Books => \A d \in Clients : slot[d] # SlotOf(x.name)

\* _evict_until_fit: the category first when it is over its limit, then anything,
\* and no more than needed.  What it removed stays removed when that is not enough.
Evictions(c, count, h, cat) ==
    LET free == {x \in disk : Unlocked(c, x)}
        own == {x \in free : x.cat = cat}
        need == OverCategory(count, h, cat)
        all == IF OverAll(count, h) > need THEN OverAll(count, h) ELSE need
    IN IF Cardinality(own) < need THEN {own}
       ELSE IF Cardinality(free) < all THEN {free}
       ELSE {e \in SUBSET free : Cardinality(e) = all /\ Cardinality(e \cap own) >= need}

\* _delete_candidate: a page goes with its metadata.
Evict(gone) ==
    /\ disk' = disk \ gone
    /\ valid' = valid \ {x.name : x \in {y \in gone : y.cat = "pages"}}

\* _reserve_capacity
Reserve(c, cat, next) ==
    LET full == Exceeded(committed, held, cat) \/ Cardinality(held) >= MaxReservations
        live == IF full THEN Recovered(held) ELSE held
        grant(h) == IF Cardinality(h) >= MaxReservations
                    THEN held' = h /\ Go(c, "refused")
                    ELSE held' = h \cup {<<c, cat>>} /\ Go(c, next)
    IN IF ~Exceeded(committed, live, cat)
       THEN grant(live) /\ UNCHANGED <<disk, valid, committed>>
       ELSE LET count == Measured(disk \ Protected(c))
            IN \E gone \in Evictions(c, count, live, cat) :
                 /\ Evict(gone)
                 /\ committed' = [k \in Categories |-> count[k] - Measured(gone)[k]]
                 /\ IF Exceeded(committed', live, cat)
                    THEN held' = live /\ Go(c, "refused")
                    ELSE grant(live)

\* _finish_capacity; a reservation that is not there any more is left alone.
Release(c, cat) == held' = held \ {<<c, cat>>} /\ committed' = committed
Commit(c, cat) ==
    IF <<c, cat>> \in held
    THEN held' = held \ {<<c, cat>>} /\ committed' = [committed EXCEPT ![cat] = @ + 1]
    ELSE UNCHANGED <<held, committed>>

\* PageCache.__init__: dead reservations are dropped and the cache is measured.
Open(c) ==
    /\ pc[c] = "off" /\ Go(c, "idle")
    /\ held' = Recovered(held) /\ committed' = Measured(disk)
    /\ UNCHANGED <<disk, valid, lock, slot, index, job, crashes>>

-----------------------------------------------------------------------------
(* The source snapshot *)

Recognize(c, b, k) ==
    /\ pc[c] = "idle" /\ Go(c, "source")
    /\ job' = [job EXCEPT ![c] = <<b, k>>]
    /\ UNCHANGED <<disk, valid, committed, held, lock, slot, index, crashes>>

\* recognize fails or is over.
Finish(c) == job' = [job EXCEPT ![c] = None] /\ Go(c, "idle")

\* A snapshot that the index knows is opened; when it is not there, recognize fails
\* and the index is left as it is.
KnownSource(c) ==
    /\ pc[c] = "source" /\ Book(c) \in index[c]
    /\ IF Piece("source", Book(c)) \in disk THEN Go(c, "lock") /\ job' = job
       ELSE Finish(c)
    /\ UNCHANGED <<disk, valid, committed, held, lock, slot, index, crashes>>

ReserveSource(c) ==
    /\ pc[c] = "source" /\ Book(c) \notin index[c] /\ Reserve(c, "source", "copy")
    /\ UNCHANGED <<lock, slot, index, job, crashes>>

CopySource(c) ==
    /\ pc[c] = "copy" /\ Go(c, "link") /\ disk' = disk \cup {Piece("source", c)}
    /\ UNCHANGED <<valid, committed, held, lock, slot, index, job, crashes>>

Known(c) == index' = [index EXCEPT ![c] = @ \cup {Book(c)}]

\* publish_source_snapshot: the copy is linked under the name of its content, or is
\* dropped when that is there.
LinkSource(c) ==
    /\ pc[c] = "link"
    /\ IF Piece("source", Book(c)) \in disk
       THEN /\ disk' = disk \ {Piece("source", c)} /\ Release(c, "source")
            /\ Known(c) /\ Go(c, "lock") /\ job' = job
       ELSE IF Piece("source", c) \in disk
       THEN /\ disk' = disk \cup {Piece("source", Book(c))} /\ Go(c, "linked")
            /\ UNCHANGED <<held, committed, index, job>>
       ELSE /\ Release(c, "source") /\ Finish(c) /\ UNCHANGED <<disk, index>>
    /\ UNCHANGED <<valid, lock, slot, crashes>>

\* The reservation is committed and the copy goes; the snapshot is validated.
CommitSource(c) ==
    /\ pc[c] = "linked" /\ disk' = disk \ {Piece("source", c)} /\ Commit(c, "source")
    /\ IF Piece("source", Book(c)) \in disk THEN Known(c) /\ Go(c, "lock") /\ job' = job
       ELSE Finish(c) /\ index' = index
    /\ UNCHANGED <<valid, lock, slot, crashes>>

\* The copy fails, is cancelled or times out.
SourceFails(c) ==
    /\ pc[c] \in {"copy", "link"} /\ disk' = disk \ {Piece("source", c)}
    /\ Release(c, "source") /\ Finish(c)
    /\ UNCHANGED <<valid, lock, slot, index, crashes>>

-----------------------------------------------------------------------------
(* The page *)

\* load_valid
Hit(c) == Page(c) \in valid

\* Under the lock of the page: a valid entry is the answer.
LockPage(c) ==
    /\ pc[c] = "lock" /\ lock[Page(c)] = None
    /\ IF Hit(c) THEN Finish(c) /\ lock' = lock
       ELSE lock' = [lock EXCEPT ![Page(c)] = c] /\ Go(c, "job") /\ job' = job
    /\ UNCHANGED <<disk, valid, committed, held, slot, index, crashes>>

ReserveJob(c) ==
    /\ pc[c] = "job" /\ Reserve(c, "jobs", "job dir")
    /\ UNCHANGED <<lock, slot, index, job, crashes>>

Unlock(c) == lock' = [lock EXCEPT ![Page(c)] = None]

\* make_job_dir: the slot of the new name may be that of another.
MakeJob(c) ==
    /\ pc[c] = "job dir"
    /\ \E s \in JobSlots :
        IF \A d \in Clients : slot[d] # s
        THEN /\ slot' = [slot EXCEPT ![c] = s] /\ disk' = disk \cup {Piece("jobs", c)}
             /\ Go(c, "render") /\ UNCHANGED <<held, committed, lock, job>>
        ELSE /\ Release(c, "jobs") /\ Unlock(c) /\ Finish(c) /\ UNCHANGED <<slot, disk>>
    /\ UNCHANGED <<valid, index, crashes>>

\* _run_helper renders the snapshot, which has to be there.
HelperCanRun(c) == Piece("source", Book(c)) \in disk

\* copy_verified_helper_image: from the job directory beside the entry.
CopyImage(c) == disk' = disk \cup {Piece("pages", c)}

Render(c) ==
    /\ pc[c] = "render"
    /\ \/ HelperCanRun(c) /\ CopyImage(c) /\ Go(c, "image")
       \/ Go(c, "clean") /\ disk' = disk
    /\ UNCHANGED <<valid, committed, held, lock, slot, index, job, crashes>>

ReservePage(c) ==
    /\ pc[c] = "image" /\ Reserve(c, "pages", "publish")
    /\ UNCHANGED <<lock, slot, index, job, crashes>>

\* publish: the image replaces what is there, ...
PublishImage(c) ==
    /\ pc[c] = "publish" /\ Go(c, "meta")
    /\ disk' = (disk \ {Piece("pages", c)}) \cup {Piece("pages", Page(c))}
    /\ UNCHANGED <<valid, committed, held, lock, slot, index, job, crashes>>

\* ... then the metadata makes it valid, ...
PublishMeta(c) ==
    /\ pc[c] = "meta" /\ Go(c, "commit") /\ valid' = valid \cup {Page(c)}
    /\ UNCHANGED <<disk, committed, held, lock, slot, index, job, crashes>>

\* ... then it is counted, also when the metadata could not be written.
CommitPage(c) ==
    /\ pc[c] \in {"meta", "commit"} /\ Go(c, "clean") /\ Commit(c, "pages")
    /\ UNCHANGED <<disk, valid, lock, slot, index, job, crashes>>

\* publish fails before the image is there; an older image counts.
PublishFails(c) ==
    /\ pc[c] = "publish" /\ Go(c, "clean")
    /\ disk' = disk \ {Piece("pages", c)}
    /\ IF Piece("pages", Page(c)) \in disk THEN Commit(c, "pages") ELSE Release(c, "pages")
    /\ UNCHANGED <<valid, lock, slot, index, job, crashes>>

\* cleanup_job_dir, and the end of recognize.
CleanJob(c) ==
    /\ pc[c] = "clean" /\ disk' = disk \ {Piece("jobs", c)}
    /\ slot' = [slot EXCEPT ![c] = None] /\ Release(c, "jobs") /\ Unlock(c) /\ Finish(c)
    /\ UNCHANGED <<valid, index, crashes>>

\* The exception of a refused reservation: what the client has is given up.
GiveUp(c) ==
    /\ pc[c] = "refused" /\ disk' = disk \ {Piece("pages", c)}
    /\ IF <<c, "jobs">> \in held THEN Go(c, "clean") /\ UNCHANGED <<job, lock>>
       ELSE /\ Finish(c)
            /\ lock' = [k \in Pages |-> IF lock[k] = c THEN None ELSE lock[k]]
    /\ UNCHANGED <<valid, committed, held, slot, index, crashes>>

-----------------------------------------------------------------------------
(* A client dies: its locks go, its files and reservations stay. *)

Dies(c) ==
    /\ pc[c] # "off" /\ crashes < MaxCrashes /\ crashes' = crashes + 1 /\ Go(c, "off")
    /\ held' = {IF r[1] = c THEN <<Dead, r[2]>> ELSE r : r \in held}
    /\ lock' = [k \in Pages |-> IF lock[k] = c THEN None ELSE lock[k]]
    /\ slot' = [slot EXCEPT ![c] = None] /\ index' = [index EXCEPT ![c] = {}]
    /\ job' = [job EXCEPT ![c] = None] /\ committed' = committed

Left(c, pieces) == {IF x.name = c THEN Piece(x.cat, Dead) ELSE x : x \in pieces}

Crash(c) == Dies(c) /\ disk' = Left(c, disk) /\ valid' = valid

\* It dies while it evicts, before the quota file is written.
CrashEvicting(c) ==
    /\ Dies(c) /\ pc[c] \in {"source", "job", "image"}
    /\ \E x \in {y \in disk : Unlocked(c, y)} :
        disk' = Left(c, disk \ {x}) /\ valid' = valid \ {x.name}

Step(c) ==
    \/ KnownSource(c) \/ ReserveSource(c) \/ CopySource(c) \/ LinkSource(c)
    \/ CommitSource(c) \/ SourceFails(c)
    \/ LockPage(c) \/ ReserveJob(c) \/ MakeJob(c) \/ Render(c) \/ ReservePage(c)
    \/ PublishImage(c) \/ PublishMeta(c) \/ CommitPage(c) \/ PublishFails(c)
    \/ CleanJob(c) \/ GiveUp(c)

Next ==
    \E c \in Clients :
        \/ Open(c) \/ Step(c) \/ Crash(c) \/ CrashEvicting(c)
        \/ \E b \in Books, k \in Pages : Recognize(c, b, k)

Spec == Init /\ [][Next]_vars

-----------------------------------------------------------------------------
(* Properties *)

\* What a client works with stays until it has done with it, whatever the others
\* reserve, recover and evict: its reservations, its job directory, and the page whose
\* lock it holds (_recover_reservations_locked:583, _try_candidate_lock:1072).
UsedIsKept ==
    \A c \in Clients :
        /\ pc[c] \in {"render", "image", "publish", "meta", "commit", "clean"} =>
            Piece("jobs", c) \in disk /\ <<c, "jobs">> \in held
        /\ pc[c] \in {"publish", "meta", "commit"} => <<c, "pages">> \in held
        /\ pc[c] \in {"meta", "commit"} => Piece("pages", Page(c)) \in disk
        /\ pc[c] = "publish" => Piece("pages", c) \in disk

\* A reservation is refused only when there is no other way: the dead ones were given
\* back, and nothing of the category is left that could be evicted, or all the slots
\* are in use (_reserve_capacity:819).
RefusedForAReason ==
    [][\A c \in Clients : pc[c] # "refused" /\ pc'[c] = "refused" =>
        /\ \A r \in held' : r[1] # Dead
        /\ \/ Cardinality(held') >= MaxReservations
           \/ LET cat == IF pc[c] = "source" THEN "source"
                         ELSE IF pc[c] = "job" THEN "jobs" ELSE "pages"
              IN \A x \in disk' : x.cat = cat => ~Unlocked(c, x)]_vars
=============================================================================
