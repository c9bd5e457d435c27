---------------------------- MODULE TopicPromises ----------------------------
(***************************************************************************)
(* What a topic of a course promises to whoever reads its rows and files,  *)
(* in the terms of the rows alone.  TopicGeneration.tla says how they      *)
(* change.                                                                 *)
(***************************************************************************)

VARIABLES
    topicStatus, \* wb_topics.status
    topicInput,  \* topic_input_snapshot: changes that topics are told of, and quiet ones
    blocks,      \* wb_topic_note_blocks and wb_topic_cards: what they were made from
    sync,        \* wb_topic_markdown_sync
    shown        \* whether topic-map.md and intensive-note.md agree with the rows

\* A topic without a published result.
NoBlocks == [read |-> {}]

\* Every round of a published result was made from the input the generation
\* was started with (run reads the input again for each round, 500; the
\* transaction of publish_topic_generation compares it, repository.py:2788).
PublishedFromOneInput == blocks # NoBlocks => blocks.read = {blocks.input}

\* A topic is COMPLETED only while its result is that of its current input, as
\* far as the topic is told of a change: a rename, another mapping, a chapter
\* that is generated again, also while the topic itself is being generated
\* (_invalidate_topic, repository.py:3166).
CompletedIsCurrent == topicStatus = "COMPLETED" => blocks.input.told = topicInput.told

\* A topic that says SYNCED has its title and its chapters in topic-map.md, however
\* edits and publications overlap (fence_topic_markdown_publication).
SyncedMapIsCurrent == sync.status = "SYNCED" => shown.map
=============================================================================
