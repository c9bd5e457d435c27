------------------------------- MODULE Stores -------------------------------
(***************************************************************************)
(* The two stores that keep rows of SQLite and directories on disk in      *)
(* step: the topics of a course (TopicDirectories) and the tasks of the    *)
(* command line and the service (TaskStore).  They share neither a row nor *)
(* a directory, so that each runs by itself; what they promise is put      *)
(* together here.                                                          *)
(***************************************************************************)
EXTENDS TopicDirectories, StorePromises

CONSTANTS
    MaxCalls,       \* bound of the model: calls of the language model
    MaxClaims,      \* bound of the model: resumes of one task
    MaxFaults       \* bound of the model: crashes and failing steps

VARIABLES sections, snapshot, gen, staging, seen, cut, read, calls, faults

taskVars ==
    <<store, row, sections, snapshot, owner, gen, lock, dir, staging, op, step, at, hit, seen, cut,
      read, calls, faults>>

K == INSTANCE TaskStore

ASSUME TasksAssumption == K!StoreAssumption
=============================================================================
