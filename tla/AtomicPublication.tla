------------------------- MODULE AtomicPublication -------------------------
(***************************************************************************)
(* What a publication of Markdown files promises: the files of all the     *)
(* directories of an entity change together, in the step that records the  *)
(* receipt in the database, to the rendering of one database revision;     *)
(* nothing else changes them, a crash included; and an older revision      *)
(* never replaces a newer one.                                             *)
(***************************************************************************)
EXTENDS Naturals

CONSTANTS
    Dirs,       \* the directories of the entity
    FilesOf     \* FilesOf[d]: the files published in directory d

VARIABLES
    shown,      \* shown[d][f]: the revision that file f shows, 0: no such file
    receipt     \* the last publication: its id and the revision it rendered

vars == <<shown, receipt>>

Init ==
    /\ shown = [d \in Dirs |-> [f \in FilesOf[d] |-> 0]]
    /\ receipt = [id |-> 0, rev |-> 0]

\* The directories of bundle are published, all of them or none.
Publish(bundle) ==
    /\ receipt'.id # receipt.id /\ receipt'.rev >= receipt.rev
    /\ shown' = [d \in Dirs |-> IF d \in bundle THEN [f \in FilesOf[d] |-> receipt'.rev]
                                ELSE shown[d]]

Next == \E bundle \in SUBSET Dirs : Publish(bundle)

Spec == Init /\ [][Next]_vars
=============================================================================
