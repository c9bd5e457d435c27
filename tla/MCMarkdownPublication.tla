----------------------- MODULE MCMarkdownPublication -----------------------
(* Instances of MarkdownPublication for TLC. *)
EXTENDS MarkdownPublication, TLC

CONSTANTS p1, p2, note, cards, round

\* Two files beside each other, and one in the other directory.
NoteCardsRound == Main :> {note, cards} @@ Runs :> {round}

Interchangeable == Permutations(Publishers)
=============================================================================
