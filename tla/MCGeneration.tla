---------------------------- MODULE MCGeneration ----------------------------
(***************************************************************************)
(* Generation for TLC: the part that runs is chosen at the start, and the  *)
(* other one stands still.                                                 *)
(***************************************************************************)
EXTENDS Generation, TLC

CONSTANTS deepseek, hybrid, old, new, w1, w2, c1, c2

VARIABLE part

Interchangeable == Permutations(TopicWorkers) \cup Permutations(Chapters)

\* The topic starts with both chapters, read already or not.
EitherInit ==
    /\ part \in {"chapter", "topic"} /\ Init /\ T!Init
    /\ part = "chapter" => mapped = {} /\ review = [c \in Chapters |-> "none"]
    /\ part = "topic" => input = old /\ mapped = Chapters
EitherNext ==
    \/ part = "chapter" /\ Next /\ UNCHANGED <<part, topicVars>>
    \/ part = "topic" /\ T!Next /\ UNCHANGED <<part, vars>>
EitherSpec == EitherInit /\ [][EitherNext]_<<part, vars, topicVars>>
=============================================================================
