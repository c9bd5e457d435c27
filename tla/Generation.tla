----------------------------- MODULE Generation -----------------------------
(***************************************************************************)
(* The two generations of the workbench: of the notes of a chapter         *)
(* (ChapterGeneration) and of a topic from several chapters                *)
(* (TopicGeneration).  They share no row: what a topic sees of a chapter   *)
(* is its review, which TopicGeneration changes by itself, so that each    *)
(* runs alone; what they promise is put together here.                     *)
(***************************************************************************)
EXTENDS ChapterGeneration, TopicPromises

CONSTANTS
    TopicWorkers,   \* threads that serve a request on the topic
    Chapters,       \* the chapters of the topic
    LastTopicRound, \* its rounds before the review are 1..LastTopicRound
    MaxChanges      \* bound of the model: how often its input changes

VARIABLES confirmed, reasons, mapped, review, topicLease, topicRuns, rounds, at, topicRound,
          taken, baseline, read, mapOnly, fresh

topicVars ==
    <<topicStatus, confirmed, reasons, mapped, review, topicInput, topicLease, topicRuns, rounds,
      blocks, sync, shown, at, topicRound, taken, baseline, read, mapOnly, fresh>>

T == INSTANCE TopicGeneration WITH
        Workers <- TopicWorkers, LastRound <- LastTopicRound,
        lease <- topicLease, runs <- topicRuns, pc <- at, round <- topicRound, accepted <- taken

ASSUME TopicsAssumption == T!TopicAssumption
=============================================================================
