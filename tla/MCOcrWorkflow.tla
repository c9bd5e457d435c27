--------------------------- MODULE MCOcrWorkflow ---------------------------
(* Instances of OcrWorkflow for TLC. *)
EXTENDS OcrWorkflow, TLC

CONSTANTS p1, p2

\* The second of two pages is one that Baidu is asked about.
LastIsEscalated == {LastPage}
=============================================================================
