-------------------------- MODULE MCTopicGeneration --------------------------
(* A topic of two chapters, two threads.                                     *)
EXTENDS TopicGeneration, TLC
CONSTANTS w1, w2, c1, c2
TwoWorkers == {w1, w2}
TwoChapters == {c1, c2}
Either == Permutations(TwoWorkers) \cup Permutations(TwoChapters)
=============================================================================
