-------------------------- MODULE GenerationProofs --------------------------
(***************************************************************************)
(* What TLAPS proves of the two generations, for any number of workers,    *)
(* chapters, rounds, inputs and changes.                                   *)
(*                                                                         *)
(* Of ChapterGeneration: who owns the runs, the candidates and the staged  *)
(* publication, and that each is of one input.                             *)
(*                                                                         *)
(* Of TopicGeneration: that a published result was made from one input,    *)
(* that a COMPLETED topic has the result of its input, and that a topic    *)
(* that says SYNCED has its map on disk.  The argument for the result is   *)
(* about the input and not about the lease: what a generation accepted and *)
(* what its rounds read are earlier inputs, in this order, and inputs only *)
(* grow.  A publication asks that the input is the accepted one; then so   *)
(* was every input that was read between.                                  *)
(***************************************************************************)
EXTENDS Generation, TLAPS

\* Where a worker that still has its lease has not staged anything.
Generating == {"started", "restore", "discard", "round", "package", "execute",
               "finish", "fail"}

\* Where the run of the round that a worker is at may be RUNNING.
InRound == {"package", "execute", "finish", "fail"}

\* The chapter of an owner that generates is RUNNING.
OwnersRun == \A w \in Workers : pc[w] \in Generating /\ lease.owner = w => status = "RUNNING"

\* A run that is RUNNING is the one of its owner's round, unless the owner has
\* given up, and then it is not at a later step.
RunsAreCurrent ==
    \A r \in runs : r.status = "RUNNING" =>
        /\ pc[r.owner] \in InRound \cup {"release", "idle"}
        /\ pc[r.owner] \in InRound => r.round = round[r.owner]

\* A worker that goes on without the lease owns no candidate.
CandidatesFollow ==
    \A c \in candidates : pc[c.owner] = "idle" \/ lease.owner = c.owner

\* A generation owns all the candidates there are, at most one of a round.
OneOwner == status = "RUNNING" => \A c \in candidates : c.owner = lease.owner
OnePerRound == \A c, d \in candidates : c.round = d.round => c = d

\* The candidates of the rounds before the one that w is at.
Restored(w) ==
    \A k \in 1..(round[w] - 1) : \E c \in candidates :
        c.round = k /\ c.input = accepted[w] /\ c.reusable /\ w \in Trusted

Produced(w) ==
    /\ {c.round : c \in candidates} = 1..(round[w] - 1)
    /\ \A c \in candidates : c.input = accepted[w] /\ c.reusable = (w \in Trusted)

\* How far an owner is with them.
Progress ==
    \A w \in Workers : lease.owner = w =>
        /\ pc[w] = "started" => round[w] = 1
        /\ pc[w] \in {"restore", "discard"} =>
            checkpoints[w] = candidates /\ Restored(w)
        /\ pc[w] \in {"round"} \cup InRound => Produced(w)

\* An idle call has no variables, and a package was accepted before its round.
Locals ==
    \A w \in Workers :
        /\ pc[w] = "idle" => round[w] = 1 /\ accepted[w] = None
        /\ pc[w] \in {"execute", "finish"} /\ round[w] # Review => accepted[w] # None

Others == OwnersRun /\ RunsAreCurrent /\ CandidatesFollow
Candidates == OneOwner /\ OnePerRound /\ Progress
IInv == TypeOK /\ Locals /\ RunsBelongToLease /\ StagedCanFinish /\ Others /\ Candidates

-----------------------------------------------------------------------------
\* The staged rows change owner together, so that the review run is there
\* for the new one.
LEMMA TakeOverKeeps ==
    ASSUME IInv, NEW w \in Workers, TakeOver(w)
    PROVE  IInv'
<1>1. TypeOK' /\ Locals'
  BY DEF TakeOver, Goto, PendingIsCurrent, GivenTo, RowsOf, NoPending, Run, Candidate,
      Statuses, IInv, TypeOK, Locals
<1>2. RunsBelongToLease' /\ StagedCanFinish'
  <2>1. status = "SYNC_PENDING" /\ pending.owner \in Workers
    BY DEF TakeOver, IInv, TypeOK, StagedCanFinish, NoPending
  <2>2. RunsBelongToLease'
    BY <2>1 DEF TakeOver, GivenTo, RowsOf, IInv, TypeOK, Run, RunsBelongToLease
  <2>3. [owner |-> w, round |-> Review, status |-> "SYNC_PENDING"] \in runs'
    <3> DEFINE r == [owner |-> pending.owner, round |-> Review, status |-> "SYNC_PENDING"]
    <3>1. r \in runs /\ r.owner = pending.owner
      BY DEF TakeOver, IInv, StagedCanFinish
    <3>2. [r EXCEPT !.owner = w] \in runs'
      BY <3>1 DEF TakeOver, GivenTo, RowsOf
    <3>3. [r EXCEPT !.owner = w] = [owner |-> w, round |-> Review, status |-> "SYNC_PENDING"]
      OBVIOUS
    <3>4. QED
      BY <3>2, <3>3
  <2>4. StagedCanFinish'
    BY <2>1, <2>3, GenerationAssumption DEF TakeOver, IInv, TypeOK, StagedCanFinish, NoPending
  <2>5. QED
    BY <2>2, <2>4
<1>3. Others'
  <2>1. OwnersRun'
    BY DEF TakeOver, Goto, IInv, TypeOK, OwnersRun, Generating
  <2>2. \A r \in runs : r.status # "RUNNING"
    BY DEF TakeOver, IInv, RunsBelongToLease, StagedCanFinish
  <2>3. RunsAreCurrent'
    BY <2>2 DEF TakeOver, GivenTo, RowsOf, IInv, TypeOK, Run, RunsAreCurrent
  <2>4. \A c \in candidates : c.owner # pending.owner => pc[c.owner] = "idle"
    BY GenerationAssumption
    DEF TakeOver, IInv, TypeOK, Candidate, StagedCanFinish, Others, CandidatesFollow
  <2>5. CandidatesFollow'
    BY <2>4 DEF TakeOver, Goto, GivenTo, RowsOf, IInv, TypeOK, Candidate, CandidatesFollow
  <2>6. QED
    BY <2>1, <2>3, <2>5 DEF Others
<1>4. Candidates'
  <2>1. OneOwner'
    BY DEF TakeOver, OneOwner
  <2>2. OnePerRound'
    BY DEF TakeOver, GivenTo, RowsOf, IInv, TypeOK, Candidate, Candidates, OnePerRound
  <2>3. Progress'
    BY DEF TakeOver, Goto, IInv, TypeOK, Progress, InRound
  <2>4. QED
    BY <2>1, <2>2, <2>3 DEF Candidates
<1>5. QED
  BY <1>1, <1>2, <1>3, <1>4 DEF IInv

\* No run is left RUNNING for the generation that begins, and all candidates
\* are its own.
LEMMA StartRoundsKeeps ==
    ASSUME IInv, NEW w \in Workers, StartRounds(w)
    PROVE  IInv'
<1>1. TypeOK' /\ Locals'
  BY DEF StartRounds, Goto, PendingIsCurrent, GivenTo, RowsOf, Closed, Interrupted,
      NoPending, NoNotes, Run, Candidate, Statuses, IInv, TypeOK, Locals
<1>2. RunsBelongToLease' /\ StagedCanFinish'
  <2>1. \A r \in runs' : r.status # "RUNNING"
    <3>1. CASE pending # NoPending
      BY <3>1 DEF StartRounds, Closed, RowsOf, IInv, RunsBelongToLease, StagedCanFinish
    <3>2. CASE pending = NoPending
      BY <3>2 DEF StartRounds, Interrupted, RowsOf, IInv, RunsBelongToLease
    <3>3. QED
      BY <3>1, <3>2
  <2>2. QED
    BY <2>1, GenerationAssumption DEF StartRounds, RunsBelongToLease, StagedCanFinish, NoPending
<1>3. Others'
  <2>1. OwnersRun'
    BY DEF StartRounds, OwnersRun
  <2>2. RunsAreCurrent'
    BY <1>2, GenerationAssumption
    DEF StartRounds, Goto, IInv, TypeOK, RunsBelongToLease, RunsAreCurrent, Others,
      Closed, Interrupted, RowsOf, Run, InRound, StagedCanFinish
  <2>3. CandidatesFollow'
    BY DEF StartRounds, GivenTo, IInv, TypeOK, Candidate, Closed, CandidatesFollow
  <2>4. QED
    BY <2>1, <2>2, <2>3 DEF Others
<1>4. Candidates'
  <2>1. OneOwner'
    BY DEF StartRounds, GivenTo, Closed, IInv, TypeOK, Candidate, OneOwner
  <2>2. OnePerRound'
    BY DEF StartRounds, GivenTo, Closed, IInv, TypeOK, Candidate, Candidates, OnePerRound
  <2>3. Progress'
    BY DEF StartRounds, Goto, IInv, TypeOK, Locals, Progress, InRound
  <2>4. QED
    BY <2>1, <2>2, <2>3 DEF Candidates
<1>5. QED
  BY <1>1, <1>2, <1>3, <1>4 DEF IInv

LEMMA ReadCheckpointsKeeps ==
    ASSUME IInv, NEW w \in Workers, ReadCheckpoints(w)
    PROVE  IInv'
<1>1. TypeOK' /\ Locals'
  BY DEF ReadCheckpoints, Goto, RowsOf, rowVars, IInv, TypeOK, Locals
<1>2. RunsBelongToLease' /\ StagedCanFinish'
  BY DEF ReadCheckpoints, Goto, RowsOf, rowVars, IInv, RunsBelongToLease,
      StagedCanFinish
<1>3. Others'
  BY DEF ReadCheckpoints, Goto, RowsOf, rowVars, IInv, Others, OwnersRun,
      RunsAreCurrent, CandidatesFollow, TypeOK, Generating, InRound
<1>4. Candidates'
  BY DEF ReadCheckpoints, Goto, RowsOf, rowVars, IInv, Candidates, OneOwner,
      OnePerRound, Progress, Produced, Restored, RunsBelongToLease, StagedCanFinish,
      TypeOK, Others, OwnersRun, Generating, InRound
<1>5. QED
  BY <1>1, <1>2, <1>3, <1>4 DEF IInv

\* The prefix that is restored comes from one input, the one accepted.
LEMMA RestoreRoundKeeps ==
    ASSUME IInv, NEW w \in Workers, RestoreRound(w)
    PROVE  IInv'
<1>1. TypeOK' /\ Locals'
  BY GenerationAssumption DEF RestoreRound, Goto, Accepts, Reusable, rowVars, NoLease,
      NoPending, NoNotes, Rounds, Review, Run, Candidate, Statuses, IInv, TypeOK, Locals
<1>2. RunsBelongToLease' /\ StagedCanFinish'
  BY DEF RestoreRound, Goto, Accepts, Reusable, rowVars, IInv, RunsBelongToLease,
      StagedCanFinish
<1>3. Others'
  BY GenerationAssumption DEF RestoreRound, Goto, Accepts, Reusable, rowVars, NoLease,
      NoPending, NoNotes, Rounds, Review, Run, Candidate, IInv, Others, OwnersRun,
      RunsAreCurrent, CandidatesFollow, RunsBelongToLease, StagedCanFinish, TypeOK,
      Generating, InRound
<1>4. Candidates'
  <2>1. OneOwner' /\ OnePerRound'
    BY DEF RestoreRound, rowVars, IInv, Candidates, OneOwner, OnePerRound
  <2>2. ASSUME NEW u \in Workers, u # w
        PROVE  <<pc[u], round[u], accepted[u]>>' = <<pc[u], round[u], accepted[u]>>
    BY <2>2 DEF RestoreRound, Accepts, Goto, IInv, TypeOK
  <2>3. ASSUME lease.owner = w PROVE Restored(w)'
    <3>1. checkpoints[w] = candidates /\ Restored(w)
      BY <2>3 DEF RestoreRound, IInv, Candidates, Progress
    <3>2. PICK c \in candidates : c.round = round[w] /\ Accepts(w) /\
                (IF Reusable(w, c) THEN round' = [round EXCEPT ![w] = @ + 1] ELSE UNCHANGED round)
      BY <3>1 DEF RestoreRound
    <3>3. \A k \in 1..(round[w] - 1) : accepted[w] = input
      BY <3>1, <3>2, GenerationAssumption DEF Restored, Accepts, IInv, TypeOK, Candidate
    <3>4. accepted'[w] = input /\ round[w] \in Nat /\ UNCHANGED candidates
      BY <3>2 DEF Accepts, RestoreRound, rowVars, IInv, TypeOK
    <3>5. CASE Reusable(w, c)
      <4>1. round'[w] = round[w] + 1
        BY <3>2, <3>5 DEF IInv, TypeOK
      <4>2. \A k \in 1..(round'[w] - 1) : k \in 1..(round[w] - 1) \/ k = round[w]
        BY <4>1, <3>4
      <4>3. QED
        BY <4>2, <3>1, <3>2, <3>3, <3>4, <3>5 DEF Restored, Reusable
    <3>6. CASE ~Reusable(w, c)
      BY <3>1, <3>2, <3>3, <3>4, <3>6 DEF Restored
    <3>7. QED
      BY <3>5, <3>6
  <2>4. pc'[w] \in {"restore", "discard"} /\ UNCHANGED <<lease, candidates, checkpoints>>
    BY DEF RestoreRound, Goto, rowVars, IInv, TypeOK
  <2>5. Progress'
    BY <2>2, <2>3, <2>4 DEF RestoreRound, IInv, Candidates, Progress, Produced, Restored, InRound
  <2>6. QED
    BY <2>1, <2>5 DEF Candidates
<1>5. QED
  BY <1>1, <1>2, <1>3, <1>4 DEF IInv

LEMMA RestoreEndsKeeps ==
    ASSUME IInv, NEW w \in Workers, RestoreEnds(w)
    PROVE  IInv'
<1>1. TypeOK' /\ Locals'
  BY DEF RestoreEnds, Goto, GotoOnly, rowVars, IInv, TypeOK, Locals
<1>2. RunsBelongToLease' /\ StagedCanFinish'
  BY DEF RestoreEnds, Goto, GotoOnly, rowVars, IInv, RunsBelongToLease, StagedCanFinish
<1>3. Others'
  BY DEF RestoreEnds, Goto, GotoOnly, rowVars, IInv, Others, OwnersRun, RunsAreCurrent,
      CandidatesFollow, TypeOK, Generating, InRound
<1>4. Candidates'
  BY DEF RestoreEnds, Goto, GotoOnly, rowVars, IInv, Candidates, OneOwner, OnePerRound,
      Progress, Produced, Restored, TypeOK, Generating, InRound
<1>5. QED
  BY <1>1, <1>2, <1>3, <1>4 DEF IInv

\* What is not in the prefix is gone: the candidates are those of the rounds
\* before the one to run.
LEMMA DiscardInvalidKeeps ==
    ASSUME IInv, NEW w \in Workers, DiscardInvalid(w)
    PROVE  IInv'
<1>1. TypeOK' /\ Locals'
  BY DEF DiscardInvalid, Goto, RowsOf, IInv, TypeOK, Locals
<1>2. RunsBelongToLease' /\ StagedCanFinish'
  BY DEF DiscardInvalid, Goto, RowsOf, IInv, RunsBelongToLease, StagedCanFinish
<1>3. Others'
  BY DEF DiscardInvalid, Goto, RowsOf, IInv, Others, OwnersRun, RunsAreCurrent,
      CandidatesFollow, TypeOK, Generating, InRound
<1>4. Candidates'
  <2>1. OneOwner' /\ OnePerRound'
    BY DEF DiscardInvalid, IInv, Candidates, OneOwner, OnePerRound
  <2>2. ASSUME lease.owner = w PROVE Produced(w)'
    <3>1. checkpoints[w] = candidates /\ Restored(w) /\ RowsOf(w, candidates) = candidates
      BY <2>2 DEF DiscardInvalid, RowsOf, IInv, Others, OwnersRun, Generating, Candidates,
        OneOwner, Progress
    <3>2. candidates' = {c \in candidates : ~(c.round >= round[w])}
      BY <3>1 DEF DiscardInvalid
    <3>3. \A c \in candidates : c.round \in 1..LastRound
      BY DEF IInv, TypeOK, Candidate, Rounds
    <3>4. \A c \in candidates' : c.round \in 1..(round[w] - 1) /\ c.input = accepted[w]
                                    /\ c.reusable /\ w \in Trusted
      BY <3>1, <3>2, <3>3, GenerationAssumption
      DEF Restored, IInv, TypeOK, Candidates, OnePerRound, Review
    <3>5. \A k \in 1..(round[w] - 1) : \E c \in candidates' : c.round = k
      BY <3>1, <3>2, <3>3, GenerationAssumption DEF Restored, IInv, TypeOK, Review
    <3>6. {c.round : c \in candidates'} = 1..(round[w] - 1)
      BY <3>4, <3>5
    <3>7. \A c \in candidates' : c.reusable = TRUE /\ (w \in Trusted) = TRUE
      BY <3>2, <3>4 DEF IInv, TypeOK, Candidate
    <3>8. \A c \in candidates' : c.input = accepted[w] /\ c.reusable = (w \in Trusted)
      BY <3>4, <3>7
    <3>9. QED
      BY <3>6, <3>8 DEF DiscardInvalid, Produced, IInv, TypeOK
  <2>3. ASSUME NEW u \in Workers, lease.owner = u, u # w PROVE UNCHANGED candidates
    BY <2>3 DEF DiscardInvalid, RowsOf, IInv, Others, CandidatesFollow
  <2>4. Progress'
    BY <2>2, <2>3 DEF DiscardInvalid, Goto, IInv, TypeOK, Candidates, Progress, Produced,
      Restored, InRound
  <2>5. QED
    BY <2>1, <2>4 DEF Candidates
<1>5. QED
  BY <1>1, <1>2, <1>3, <1>4 DEF IInv

LEMMA CreateRunKeeps ==
    ASSUME IInv, NEW w \in Workers, CreateRun(w)
    PROVE  IInv'
<1>1. TypeOK' /\ Locals'
  BY DEF CreateRun, Goto, RowsOf, Rounds, Review, Run, Candidate, Statuses, IInv,
      TypeOK, Locals
<1>2. RunsBelongToLease' /\ StagedCanFinish'
  BY DEF CreateRun, Goto, RowsOf, Rounds, Review, IInv, RunsBelongToLease,
      StagedCanFinish, TypeOK, Others, RunsAreCurrent, OwnersRun, Generating, InRound
<1>3. Others'
  BY DEF CreateRun, Goto, RowsOf, Rounds, Review, IInv, Others, OwnersRun,
      RunsAreCurrent, CandidatesFollow, TypeOK, Generating, InRound
<1>4. Candidates'
  BY DEF CreateRun, Goto, RowsOf, Rounds, Review, IInv, Candidates, OneOwner,
      OnePerRound, Progress, Produced, Restored
<1>5. QED
  BY <1>1, <1>2, <1>3, <1>4 DEF IInv

\* A package that is accepted has the input of the candidates so far.
LEMMA PackageKeeps ==
    ASSUME IInv, NEW w \in Workers, Package(w)
    PROVE  IInv'
<1>1. TypeOK' /\ Locals'
  BY GenerationAssumption DEF Package, Goto, Accepts, rowVars, NoLease, NoPending,
      NoNotes, Rounds, Review, IInv, TypeOK, Locals
<1>2. RunsBelongToLease' /\ StagedCanFinish'
  BY DEF Package, Goto, Accepts, rowVars, IInv, RunsBelongToLease, StagedCanFinish
<1>3. Others'
  BY DEF Package, Goto, Accepts, rowVars, IInv, Others, OwnersRun, RunsAreCurrent,
      CandidatesFollow, TypeOK, Generating, InRound
<1>4. Candidates'
  <2>1. OneOwner' /\ OnePerRound'
    BY DEF Package, rowVars, IInv, Candidates, OneOwner, OnePerRound
  <2>2. ASSUME lease.owner = w PROVE Produced(w)'
    <3>1. Produced(w)
      BY <2>2 DEF Package, IInv, Candidates, Progress, InRound
    <3>2. \A c \in candidates : c.input = input
      BY <3>1, GenerationAssumption DEF Package, Accepts, Produced, IInv, TypeOK, Candidate
    <3>3. QED
      BY <3>1, <3>2 DEF Package, Accepts, rowVars, Produced, IInv, TypeOK
  <2>3. Progress'
    BY <2>2 DEF Package, Accepts, Goto, rowVars, IInv, TypeOK, Candidates, Progress,
      Produced, Restored, InRound
  <2>4. QED
    BY <2>1, <2>3 DEF Candidates
<1>5. QED
  BY <1>1, <1>2, <1>3, <1>4 DEF IInv

LEMMA ExecuteKeeps ==
    ASSUME IInv, NEW w \in Workers, Execute(w)
    PROVE  IInv'
<1>1. TypeOK' /\ Locals'
  BY DEF Execute, Goto, GotoOnly, HoldsLease, rowVars, IInv, TypeOK, Locals
<1>2. RunsBelongToLease' /\ StagedCanFinish'
  BY DEF Execute, Goto, GotoOnly, HoldsLease, rowVars, IInv, RunsBelongToLease,
      StagedCanFinish
<1>3. Others'
  BY DEF Execute, Goto, GotoOnly, HoldsLease, rowVars, IInv, Others, OwnersRun,
      RunsAreCurrent, CandidatesFollow, TypeOK, Generating, InRound
<1>4. Candidates'
  BY DEF Execute, Goto, GotoOnly, HoldsLease, rowVars, IInv, Candidates, OneOwner,
      OnePerRound, Progress, Produced, Restored, TypeOK, Generating, InRound
<1>5. QED
  BY <1>1, <1>2, <1>3, <1>4 DEF IInv

\* The candidate is the first of its round, and its input the one accepted.
LEMMA FinishKeeps ==
    ASSUME IInv, NEW w \in Workers, Finish(w)
    PROVE  IInv'
<1>1. TypeOK' /\ Locals'
  <2>1. accepted[w] \in Inputs /\ round[w] \in Rounds
    BY GenerationAssumption DEF Finish, IInv, TypeOK, Locals, Rounds, Review
  <2>2. candidates' \subseteq Candidate /\ runs' \subseteq Run
    <3> DEFINE new == [round |-> round[w], owner |-> w, input |-> accepted[w],
                       reusable |-> w \in Trusted]
    <3>1. (w \in Trusted) \in BOOLEAN
      OBVIOUS
    <3>2. new \in Candidate
      BY <2>1, <3>1, Zenon DEF Candidate
    <3>3. QED
      BY <3>2 DEF Finish, IInv, TypeOK
  <2>3. round' \in [Workers -> 1..Review]
    BY <2>1, GenerationAssumption DEF Finish, IInv, TypeOK, Rounds, Review
  <2>4. QED
    BY <2>2, <2>3 DEF Finish, Goto, IInv, TypeOK, Locals
<1>2. RunsBelongToLease' /\ StagedCanFinish'
  BY DEF Finish, Goto, Running, Review, IInv, RunsBelongToLease, StagedCanFinish
<1>3. Others'
  BY GenerationAssumption DEF Finish, Goto, Running, NoLease, NoPending, NoNotes,
      Rounds, Review, Run, Candidate, IInv, Others, OwnersRun, RunsAreCurrent,
      CandidatesFollow, RunsBelongToLease, StagedCanFinish, TypeOK, Generating, InRound
<1>4. Candidates'
  <2> DEFINE new == [round |-> round[w], owner |-> w, input |-> accepted[w],
                     reusable |-> w \in Trusted]
  <2>1. /\ lease.owner = w /\ status = "RUNNING" /\ Produced(w)
        /\ round[w] \in Rounds /\ candidates' = candidates \cup {new}
    BY GenerationAssumption DEF Finish, Running, IInv, TypeOK, RunsBelongToLease, Candidates,
      Progress, InRound, Rounds, Review
  <2>2. \A c \in candidates : c.round < round[w] /\ c.round \in Nat
    BY <2>1, GenerationAssumption DEF Produced, Rounds, IInv, TypeOK, Candidate
  <2>3. OneOwner'
    BY <2>1 DEF Finish, IInv, Candidates, OneOwner
  <2>4. OnePerRound'
    BY <2>1, <2>2, GenerationAssumption DEF IInv, Candidates, OnePerRound, Rounds
  <2>5. round'[w] = round[w] + 1 /\ pc'[w] = "round" /\ UNCHANGED <<lease, accepted>>
    BY DEF Finish, Goto, IInv, TypeOK
  <2>6. Produced(w)'
    <3>1. {c.round : c \in candidates'} = {c.round : c \in candidates} \cup {round[w]}
      BY <2>1, new.round = round[w], Zenon
    <3>2. {c.round : c \in candidates'} = 1..(round'[w] - 1)
      BY <3>1, <2>1, <2>5, GenerationAssumption DEF Produced, Rounds
    <3>3. \A c \in candidates' : c.input = accepted'[w] /\ c.reusable = (w \in Trusted)
      BY <2>1, <2>5 DEF Produced
    <3>4. QED
      BY <3>2, <3>3 DEF Produced
  <2>7. Progress'
    BY <2>1, <2>5, <2>6 DEF Progress, InRound
  <2>8. QED
    BY <2>3, <2>4, <2>7 DEF Candidates
<1>5. QED
  BY <1>1, <1>2, <1>3, <1>4 DEF IInv

\* The only run that is RUNNING is the review, which is staged now.
LEMMA StageKeeps ==
    ASSUME IInv, NEW w \in Workers, Stage(w)
    PROVE  IInv'
<1>1. TypeOK' /\ Locals'
  BY DEF Stage, Goto, HoldsLease, Running, NoPending, Review, Run, Candidate, Statuses,
      IInv, TypeOK, Locals
<1>2. RunsBelongToLease' /\ StagedCanFinish'
  <2>1. \A r \in runs : r.status = "RUNNING" => r = Running(w)
    BY DEF Stage, Running, IInv, TypeOK, Run, RunsBelongToLease, Others, RunsAreCurrent, InRound
  <2>2. \A r \in runs' : r.status # "RUNNING"
    BY <2>1 DEF Stage
  <2>3. accepted[w] \in Inputs
    BY DEF Stage, IInv, TypeOK
  <2>4. QED
    BY <2>2, <2>3, GenerationAssumption
    DEF Stage, HoldsLease, RunsBelongToLease, StagedCanFinish, NoPending
<1>3. Others'
  <2>1. OwnersRun'
    BY DEF Stage, HoldsLease, Goto, IInv, TypeOK, OwnersRun, Generating
  <2>2. \A r \in runs' : r.status # "RUNNING"
    BY <1>2 DEF RunsBelongToLease, Stage
  <2>3. RunsAreCurrent'
    BY <2>2 DEF RunsAreCurrent
  <2>4. CandidatesFollow'
    BY DEF Stage, Goto, IInv, TypeOK, Others, Candidate, CandidatesFollow, HoldsLease
  <2>5. QED
    BY <2>1, <2>3, <2>4 DEF Others
<1>4. Candidates'
  BY DEF Stage, Goto, HoldsLease, Running, NoPending, Review, IInv, Candidates,
      OneOwner, OnePerRound, Progress, Produced, Restored, TypeOK, Generating, InRound
<1>5. QED
  BY <1>1, <1>2, <1>3, <1>4 DEF IInv

LEMMA FailKeeps ==
    ASSUME IInv, NEW w \in Workers, Fail(w)
    PROVE  IInv'
<1>1. TypeOK' /\ Locals'
  BY DEF Fail, Goto, Running, IInv, TypeOK, Locals
<1>2. RunsBelongToLease' /\ StagedCanFinish'
  BY DEF Fail, Goto, Running, IInv, RunsBelongToLease, StagedCanFinish
<1>3. Others'
  BY DEF Fail, Goto, Running, IInv, Others, OwnersRun, RunsAreCurrent, CandidatesFollow,
      TypeOK, Generating, InRound
<1>4. Candidates'
  BY DEF Fail, Goto, Running, IInv, Candidates, OneOwner, OnePerRound, Progress,
      Produced, Restored, TypeOK, Generating, InRound
<1>5. QED
  BY <1>1, <1>2, <1>3, <1>4 DEF IInv

\* The lease goes with the publication.
LEMMA PublishKeeps ==
    ASSUME IInv, NEW w \in Workers, Publish(w)
    PROVE  IInv'
<1>1. TypeOK' /\ Locals'
  BY DEF Publish, Goto, Returns, HoldsLease, PendingIsCurrent, NoLease, NoPending,
      Review, Run, Candidate, Statuses, IInv, TypeOK, Locals
<1>2. RunsBelongToLease' /\ StagedCanFinish'
  BY DEF Publish, Goto, Returns, HoldsLease, PendingIsCurrent, NoLease, NoPending,
      Review, IInv, RunsBelongToLease, StagedCanFinish
<1>3. Others'
  <2>1. OwnersRun'
    BY GenerationAssumption DEF Publish, NoLease, OwnersRun
  <2>2. \A r \in runs' : r.status # "RUNNING"
    BY DEF Publish, IInv, RunsBelongToLease
  <2>3. RunsAreCurrent'
    BY <2>2 DEF RunsAreCurrent
  <2>4. CandidatesFollow'
    BY DEF Publish, HoldsLease, Returns, Goto, IInv, TypeOK, Candidate, Others, CandidatesFollow
  <2>5. QED
    BY <2>1, <2>3, <2>4 DEF Others
<1>4. Candidates'
  <2>1. OneOwner' /\ OnePerRound'
    BY DEF Publish, IInv, Candidates, OneOwner, OnePerRound
  <2>2. Progress'
    BY GenerationAssumption DEF Publish, NoLease, Progress
  <2>3. QED
    BY <2>1, <2>2 DEF Candidates
<1>5. QED
  BY <1>1, <1>2, <1>3, <1>4 DEF IInv

LEMMA RaisesKeeps ==
    ASSUME IInv, NEW w \in Workers, Raises(w)
    PROVE  IInv'
<1>1. TypeOK' /\ Locals'
  BY DEF Raises, Goto, GotoOnly, rowVars, IInv, TypeOK, Locals
<1>2. RunsBelongToLease' /\ StagedCanFinish'
  BY DEF Raises, Goto, GotoOnly, rowVars, IInv, RunsBelongToLease, StagedCanFinish
<1>3. Others'
  BY GenerationAssumption DEF Raises, Goto, GotoOnly, rowVars, NoLease, NoPending,
      NoNotes, Rounds, Review, Run, Candidate, IInv, Others, OwnersRun, RunsAreCurrent,
      CandidatesFollow, RunsBelongToLease, StagedCanFinish, TypeOK, Generating, InRound
<1>4. Candidates'
  BY DEF Raises, Goto, GotoOnly, rowVars, IInv, Candidates, OneOwner, OnePerRound,
      Progress, Produced, Restored, TypeOK, Generating, InRound
<1>5. QED
  BY <1>1, <1>2, <1>3, <1>4 DEF IInv

\* Either the publication stays with its rows, or no run stays RUNNING.
LEMMA ReleaseKeeps ==
    ASSUME IInv, NEW w \in Workers, Release(w)
    PROVE  IInv'
<1>1. TypeOK' /\ Locals'
  BY GenerationAssumption DEF Release, Goto, Returns, RowsOf, Interrupted, NoLease,
      NoPending, NoNotes, Rounds, Review, Run, Candidate, Statuses, IInv, TypeOK, Locals
<1>2. RunsBelongToLease' /\ StagedCanFinish'
  <2>1. CASE lease.owner # w
    BY <2>1 DEF Release, IInv, RunsBelongToLease, StagedCanFinish
  <2>2. CASE lease.owner = w /\ pending.owner = w
    <3>1. pending # NoPending /\ status = "SYNC_PENDING" /\ \A r \in runs : r.status # "RUNNING"
      BY <2>2, GenerationAssumption DEF IInv, NoPending, StagedCanFinish, RunsBelongToLease
    <3>2. QED
      BY <2>2, <3>1 DEF Release, NoLease, IInv, RunsBelongToLease, StagedCanFinish
  <2>3. CASE lease.owner = w /\ pending.owner # w
    <3>1. pending = NoPending /\ status # "SYNC_PENDING"
      BY <2>3, GenerationAssumption DEF IInv, NoPending, StagedCanFinish
    <3>2. \A r \in runs' : r.status # "RUNNING"
      BY <2>3 DEF Release, Interrupted, RowsOf, IInv, RunsBelongToLease
    <3>3. QED
      BY <2>3, <3>1, <3>2 DEF Release, RunsBelongToLease, StagedCanFinish
  <2>4. QED
    BY <2>1, <2>2, <2>3
<1>3. Others'
  BY GenerationAssumption DEF Release, Goto, Returns, RowsOf, Interrupted, NoLease,
      NoPending, NoNotes, Rounds, Review, Run, Candidate, IInv, Others, OwnersRun,
      RunsAreCurrent, CandidatesFollow, RunsBelongToLease, StagedCanFinish, TypeOK,
      Generating, InRound
<1>4. Candidates'
  <2>1. OneOwner'
    BY DEF Release, IInv, StagedCanFinish, Candidates, OneOwner
  <2>2. OnePerRound'
    BY DEF Release, IInv, Candidates, OnePerRound
  <2>3. Progress'
    BY GenerationAssumption
    DEF Release, Returns, Goto, NoLease, IInv, TypeOK, Candidates, Progress, Produced,
      Restored, InRound
  <2>4. QED
    BY <2>1, <2>2, <2>3 DEF Candidates
<1>5. QED
  BY <1>1, <1>2, <1>3, <1>4 DEF IInv

LEMMA ReleaseRaisesKeeps ==
    ASSUME IInv, NEW w \in Workers, ReleaseRaises(w)
    PROVE  IInv'
<1>1. TypeOK' /\ Locals'
  BY GenerationAssumption DEF ReleaseRaises, Goto, Returns, rowVars, NoLease, NoPending,
      NoNotes, Rounds, Review, IInv, TypeOK, Locals
<1>2. RunsBelongToLease' /\ StagedCanFinish'
  BY DEF ReleaseRaises, Goto, Returns, rowVars, IInv, RunsBelongToLease, StagedCanFinish
<1>3. Others'
  BY DEF ReleaseRaises, Goto, Returns, rowVars, IInv, Others, OwnersRun, RunsAreCurrent,
      CandidatesFollow, TypeOK, Generating, InRound
<1>4. Candidates'
  BY DEF ReleaseRaises, Goto, Returns, rowVars, IInv, Candidates, OneOwner, OnePerRound,
      Progress, Produced, Restored, TypeOK, Generating, InRound
<1>5. QED
  BY <1>1, <1>2, <1>3, <1>4 DEF IInv

LEMMA ExpireKeeps ==
    ASSUME IInv, Expire
    PROVE  IInv'
<1>1. TypeOK' /\ Locals'
  <2>1. lease \in [owner : Workers, live : BOOLEAN]
    BY DEF Expire, IInv, TypeOK, NoLease
  <2>2. lease' \in [owner : Workers, live : BOOLEAN]
    BY <2>1 DEF Expire
  <2>3. QED
    BY <2>2 DEF Expire, jobVars, IInv, TypeOK, Locals
<1>2. RunsBelongToLease' /\ StagedCanFinish'
  BY DEF Expire, jobVars, IInv, RunsBelongToLease, StagedCanFinish
<1>3. Others'
  BY DEF Expire, jobVars, IInv, Others, OwnersRun, RunsAreCurrent, CandidatesFollow
<1>4. Candidates'
  BY DEF Expire, jobVars, IInv, Candidates, OneOwner, OnePerRound, Progress, Produced,
      Restored
<1>5. QED
  BY <1>1, <1>2, <1>3, <1>4 DEF IInv

LEMMA ConfirmKeeps ==
    ASSUME IInv, Confirm
    PROVE  IInv'
<1>1. TypeOK' /\ Locals'
  BY DEF Confirm, jobVars, Run, Candidate, Statuses, IInv, TypeOK, Locals
<1>2. RunsBelongToLease' /\ StagedCanFinish'
  BY DEF Confirm, jobVars, IInv, RunsBelongToLease, StagedCanFinish
<1>3. Others'
  BY DEF Confirm, jobVars, IInv, Others, OwnersRun, RunsAreCurrent, CandidatesFollow
<1>4. Candidates'
  BY DEF Confirm, jobVars, IInv, Candidates, OneOwner, OnePerRound, Progress, Produced,
      Restored
<1>5. QED
  BY <1>1, <1>2, <1>3, <1>4 DEF IInv

LEMMA EditInputKeeps ==
    ASSUME IInv, EditInput
    PROVE  IInv'
<1>1. TypeOK' /\ Locals'
  BY DEF EditInput, jobVars, IInv, TypeOK, Locals
<1>2. RunsBelongToLease' /\ StagedCanFinish'
  BY DEF EditInput, jobVars, IInv, RunsBelongToLease, StagedCanFinish
<1>3. Others'
  BY DEF EditInput, jobVars, IInv, Others, OwnersRun, RunsAreCurrent, CandidatesFollow
<1>4. Candidates'
  BY DEF EditInput, jobVars, IInv, Candidates, OneOwner, OnePerRound, Progress,
      Produced, Restored
<1>5. QED
  BY <1>1, <1>2, <1>3, <1>4 DEF IInv

LEMMA EditNoteKeeps ==
    ASSUME IInv, EditNote
    PROVE  IInv'
<1>1. TypeOK' /\ Locals'
  BY DEF EditNote, jobVars, NoNotes, IInv, TypeOK, Locals
<1>2. RunsBelongToLease' /\ StagedCanFinish'
  BY DEF EditNote, jobVars, NoNotes, IInv, RunsBelongToLease, StagedCanFinish
<1>3. Others'
  BY DEF EditNote, jobVars, NoNotes, IInv, Others, OwnersRun, RunsAreCurrent,
      CandidatesFollow
<1>4. Candidates'
  BY DEF EditNote, jobVars, NoNotes, IInv, Candidates, OneOwner, OnePerRound, Progress,
      Produced, Restored
<1>5. QED
  BY <1>1, <1>2, <1>3, <1>4 DEF IInv

\* Nothing is RUNNING any more, and nobody has the lease.
LEMMA RestartKeeps ==
    ASSUME IInv, Restart
    PROVE  IInv'
<1>1. TypeOK' /\ Locals'
  BY GenerationAssumption DEF Restart, NoLease, NoPending, NoNotes, Rounds, Review, Run,
      Candidate, Statuses, IInv, TypeOK, Locals
<1>2. RunsBelongToLease' /\ StagedCanFinish'
  BY DEF Restart, NoLease, IInv, RunsBelongToLease, StagedCanFinish
<1>3. Others'
  BY GenerationAssumption DEF Restart, NoLease, NoPending, NoNotes, Rounds, Review, Run,
      Candidate, IInv, Others, OwnersRun, RunsAreCurrent, CandidatesFollow,
      RunsBelongToLease, StagedCanFinish, TypeOK, Generating, InRound
<1>4. Candidates'
  BY DEF Restart, NoLease, IInv, Candidates, OneOwner, OnePerRound, Progress, Produced,
      Restored, TypeOK, Generating, InRound
<1>5. QED
  BY <1>1, <1>2, <1>3, <1>4 DEF IInv

-----------------------------------------------------------------------------
LEMMA Starts == Init => IInv
  BY GenerationAssumption DEF Init, IInv, TypeOK, Statuses, NoLease, NoPending, NoNotes,
    Review, Locals, RunsBelongToLease, StagedCanFinish, Others, OwnersRun, RunsAreCurrent,
    CandidatesFollow, Candidates, OneOwner, OnePerRound, Progress, Generating, InRound

LEMMA Stutters == ASSUME IInv, UNCHANGED vars PROVE IInv'
  BY DEF vars, rowVars, jobVars, IInv, TypeOK, Locals, RunsBelongToLease,
    StagedCanFinish, PendingIsCurrent, Others, OwnersRun, RunsAreCurrent, CandidatesFollow,
    Candidates, OneOwner, OnePerRound, Progress, Produced, Restored

LEMMA Inductive == IInv /\ [Next]_vars => IInv'
<1> SUFFICES ASSUME IInv, [Next]_vars PROVE IInv'
  OBVIOUS
<1>1. CASE \E w \in Workers : Start(w)
  BY <1>1, TakeOverKeeps, StartRoundsKeeps DEF Start
<1>2. CASE \E w \in Workers : Proceed(w)
  BY <1>2, ReadCheckpointsKeeps, RestoreRoundKeeps, RestoreEndsKeeps, DiscardInvalidKeeps,
    CreateRunKeeps, PackageKeeps, ExecuteKeeps, FinishKeeps, StageKeeps, FailKeeps,
    PublishKeeps, RaisesKeeps, ReleaseKeeps, ReleaseRaisesKeeps DEF Proceed
<1>3. CASE Expire \/ Confirm \/ EditInput \/ EditNote \/ Restart
  BY <1>3, ExpireKeeps, ConfirmKeeps, EditInputKeeps, EditNoteKeeps, RestartKeeps
<1>4. CASE UNCHANGED vars
  BY <1>4, Stutters
<1>5. QED
  BY <1>1, <1>2, <1>3, <1>4 DEF Next

LEMMA Invariant == Spec => []IInv
  BY Starts, Inductive, PTL DEF Spec

\* The rows and the variables of the workers keep their types; a round is never
\* given to the executor before its package is accepted (pipeline.py).
THEOREM TypeCorrect == Spec => []TypeOK
<1>1. IInv => TypeOK
  BY DEF IInv
<1>2. QED
  BY <1>1, Invariant, PTL

\* What another owner began is closed by the next start, for any number of
\* workers that were too slow, exceptions, restarts and expired leases.
THEOREM OnlyTheOwnerRuns == Spec => []RunsBelongToLease
<1>1. IInv => RunsBelongToLease
  BY DEF IInv
<1>2. QED
  BY <1>1, Invariant, PTL

\* A staged publication always has the rows that its end needs.
THEOREM StagedIsComplete == Spec => []StagedCanFinish
<1>1. IInv => StagedCanFinish
  BY DEF IInv
<1>2. QED
  BY <1>1, Invariant, PTL

-----------------------------------------------------------------------------
(* Action properties *)

\* A worker without the lease is refused by every step that writes, or finds
\* no row of its own.
LEMMA LateStep ==
    ASSUME IInv, [Next]_vars, NEW w \in Workers,
           pc[w] # "idle", pc'[w] # pc[w], lease.owner # w
    PROVE  /\ UNCHANGED <<pending, candidates, notes>>
           /\ UNCHANGED <<status, lease>> \/ \A u \in Workers : pc'[u] = "idle"
<1>1. Proceed(w) \/ Restart
  <2>1. ASSUME NEW u \in Workers, u # w, Start(u) \/ Proceed(u) PROVE pc'[w] = pc[w]
    BY <2>1 DEF Start, Proceed, TakeOver, StartRounds, ReadCheckpoints, RestoreRound,
      RestoreEnds, DiscardInvalid, CreateRun, Package, Execute, Finish, Stage, Fail,
      Publish, Raises, Release, ReleaseRaises, Returns, GotoOnly, Goto, IInv, TypeOK
  <2>2. ~Start(w)
    BY DEF Start, TakeOver, StartRounds
  <2>3. ~(Expire \/ Confirm \/ EditInput \/ EditNote \/ UNCHANGED vars)
    BY DEF Expire, Confirm, EditInput, EditNote, vars, jobVars
  <2>4. QED
    BY <2>1, <2>2, <2>3 DEF Next
<1>2. CASE Restart
  BY <1>2 DEF Restart
<1>3. CASE Proceed(w)
  <2>1. CASE ReadCheckpoints(w) \/ RestoreRound(w) \/ RestoreEnds(w) \/ CreateRun(w)
               \/ Package(w) \/ Execute(w) \/ Fail(w) \/ Raises(w) \/ ReleaseRaises(w)
    BY <2>1 DEF ReadCheckpoints, RestoreRound, RestoreEnds, CreateRun, Package, Execute,
      Fail, Raises, ReleaseRaises, GotoOnly, rowVars
  <2>2. CASE DiscardInvalid(w)
    <3>1. RowsOf(w, candidates) = {}
      BY <2>2 DEF DiscardInvalid, RowsOf, IInv, Others, CandidatesFollow
    <3>2. candidates' = candidates
      BY <2>2, <3>1 DEF DiscardInvalid
    <3>3. QED
      BY <2>2, <3>2 DEF DiscardInvalid
  <2>3. ~Finish(w)
    BY DEF Finish, Running, IInv, RunsBelongToLease
  <2>4. ~Stage(w) /\ ~Publish(w)
    BY DEF Stage, Publish, HoldsLease
  <2>5. CASE Release(w)
    BY <2>5 DEF Release
  <2>6. QED
    BY <1>3, <2>1, <2>2, <2>3, <2>4, <2>5 DEF Proceed
<1>4. QED
  BY <1>1, <1>2, <1>3

\* A worker that lost its lease changes nothing of the chapter, however late it
\* goes on: the checks of repository.py leave no gap.
THEOREM LateWorkersWriteNothing == Spec => LostLeaseWritesNothing
<1> DEFINE Late(w) == pc[w] # "idle" /\ pc'[w] # pc[w] /\ lease.owner # w =>
                        /\ UNCHANGED <<pending, candidates, notes>>
                        /\ UNCHANGED <<status, lease>> \/ \A u \in Workers : pc'[u] = "idle"
<1>1. IInv /\ [Next]_vars => [\A w \in Workers : Late(w)]_vars
  BY LateStep
<1>2. QED
  BY <1>1, Invariant, PTL DEF Spec, LostLeaseWritesNothing

\* Only Publish completes a chapter, and only what is still as it was staged.
THEOREM CompletesAsStaged == Spec => CompletedAsStaged
<1> DEFINE Completes == status # "COMPLETED" /\ status' = "COMPLETED" =>
                            notes' = [input |-> input, edited |-> FALSE]
<1>1. ASSUME IInv, Next, status # "COMPLETED", status' = "COMPLETED"
      PROVE  notes' = [input |-> input, edited |-> FALSE]
  <2>1. PICK w \in Workers : Publish(w)
    BY <1>1 DEF Next, Start, Proceed, TakeOver, StartRounds, ReadCheckpoints, RestoreRound,
      RestoreEnds, DiscardInvalid, CreateRun, Package, Execute, Finish, Stage, Fail,
      Raises, Release, ReleaseRaises, GotoOnly, rowVars, Expire, Confirm, EditInput,
      EditNote, Restart
  <2>2. notes' = notes /\ notes.input = input /\ notes.edited = FALSE
    BY <1>1, <2>1, GenerationAssumption
    DEF Publish, PendingIsCurrent, IInv, TypeOK, StagedCanFinish, NoPending, NoNotes
  <2>3. notes \in [input : Inputs, edited : BOOLEAN]
    BY <1>1, <2>2, GenerationAssumption DEF IInv, TypeOK, NoNotes
  <2>4. QED
    BY <2>2, <2>3
<1>2. IInv /\ [Next]_vars => [Completes]_vars
  BY <1>1
<1>3. QED
  BY <1>2, Invariant, PTL DEF Spec, CompletedAsStaged

\* What is staged comes from one candidate of each round, all made from the
\* input of that moment, whatever the restored prefix and the takeovers were.
THEOREM StagesOneInput == Spec => StagedFromOneInput
<1> DEFINE OneInput(w, used) ==
            /\ \A k \in Rounds : \E c \in used : c.round = k
            /\ \A c, d \in used : c.round = d.round => c = d
            /\ \A c \in used : c.input = input /\ c.reusable = (w \in Trusted)
           Staged(w) == pending = NoPending /\ pending'.owner = w =>
                            OneInput(w, RowsOf(w, candidates))
<1>1. ASSUME IInv, Next, NEW w \in Workers, pending = NoPending, pending'.owner = w
      PROVE  OneInput(w, RowsOf(w, candidates))
  <2>1. Stage(w)
    <3>1. pending' # pending
      BY <1>1, GenerationAssumption DEF NoPending
    <3>2. PICK u \in Workers : Stage(u)
      BY <1>1, <3>1 DEF Next, Start, Proceed, TakeOver, StartRounds, ReadCheckpoints,
        RestoreRound, RestoreEnds, DiscardInvalid, CreateRun, Package, Execute, Finish,
        Publish, Fail, Raises, Release, ReleaseRaises, GotoOnly, rowVars, Expire, Confirm,
        EditInput, EditNote, Restart
    <3>3. u = w
      BY <1>1, <3>2 DEF Stage
    <3>4. QED
      BY <3>2, <3>3
  <2>2. Produced(w) /\ round[w] = LastRound + 1 /\ accepted[w] = input
    BY <1>1, <2>1 DEF Stage, HoldsLease, Review, IInv, Candidates, Progress, InRound
  <2>3. RowsOf(w, candidates) = candidates
    BY <1>1, <2>1 DEF Stage, HoldsLease, RowsOf, IInv, Candidates, OneOwner
  <2>4. {c.round : c \in candidates} = Rounds
    BY <2>2, GenerationAssumption DEF Produced, Rounds
  <2>5. \A c, d \in candidates : c.round = d.round => c = d
    BY <1>1 DEF IInv, Candidates, OnePerRound
  <2>6. \A k \in Rounds : \E c \in candidates : c.round = k
    BY <2>4
  <2>7. \A c \in candidates : c.input = input /\ c.reusable = (w \in Trusted)
    BY <2>2 DEF Produced
  <2>8. QED
    BY <2>3, <2>5, <2>6, <2>7
<1>2. IInv /\ [Next]_vars => [\A w \in Workers : Staged(w)]_vars
  BY <1>1
<1>3. QED
  BY <1>2, Invariant, PTL DEF Spec, StagedFromOneInput

-----------------------------------------------------------------------------
(* Topics *)

\* Where the rounds of a generation are.
Making == {"round", "execute", "answered"}

\* A fingerprint that is not younger than another.
Since(i, now) == i.told <= now.told /\ i.quiet <= now.quiet

SyncTyped == sync \in [status : {"PENDING", "SYNCING", "SYNCED", "FAILED"}, by : T!Owned]

\* What a generation accepted is an earlier input; while the topic has been
\* told of nothing since, its chapters are as they were accepted.
AcceptedStands ==
    \A w \in TopicWorkers : at[w] \in Making =>
        /\ taken[w] \in T!Input /\ Since(taken[w], topicInput)
        /\ taken[w].told = topicInput.told => T!ReviewsDone(mapped, review)

\* The inputs that its rounds read came between the accepted one and this one.
ReadSince ==
    \A w \in TopicWorkers :
        /\ at[w] = "idle" => read[w] = {}
        /\ at[w] \in Making => \A r \in read[w] : Since(taken[w], r) /\ Since(r, topicInput)
        /\ at[w] \in {"execute", "answered"} => read[w] # {}

\* A COMPLETED topic has a result, and chapters that cannot be reviewed anew
\* without its being told.
CompletedStands ==
    topicStatus = "COMPLETED" => blocks # T!NoBlocks /\ T!ReviewsDone(mapped, review)

TopicTyped == T!TypeOK /\ SyncTyped
Jobs == AcceptedStands /\ ReadSince
Result == CompletedStands /\ T!CompletedIsCurrent
TopicInv == TopicTyped /\ Jobs /\ Result /\ T!PublishedFromOneInput /\ T!SyncedMapIsCurrent

-----------------------------------------------------------------------------
(* Facts about inputs and reviews *)

LEMMA InputFields == ASSUME NEW i \in T!Input PROVE i.told \in Nat /\ i.quiet \in Nat
BY DEF T!Input

LEMMA SinceSame == ASSUME NEW i \in T!Input PROVE Since(i, i)
BY InputFields DEF Since

LEMMA SinceBetween ==
    ASSUME NEW i \in T!Input, NEW r \in T!Input, Since(i, r), Since(r, i) PROVE r = i
<1>1. r.told = i.told /\ r.quiet = i.quiet BY InputFields DEF Since
<1> QED BY <1>1 DEF T!Input

LEMMA SinceTrans ==
    ASSUME NEW i \in T!Input, NEW j \in T!Input, NEW k \in T!Input, Since(i, j), Since(j, k)
    PROVE  Since(i, k)
BY InputFields DEF Since

\* A change that the topic is told of, and one that it is not.
LEMMA Tells ==
    ASSUME T!TopicAssumption, topicInput \in T!Input, T!Told
    PROVE  /\ topicInput' \in T!Input /\ Since(topicInput, topicInput')
           /\ topicInput'.told = topicInput.told + 1
<1>1. topicInput.told \in Nat /\ topicInput.quiet \in Nat BY InputFields
<1>2. topicInput.told + topicInput.quiet < MaxChanges /\ MaxChanges \in Nat
  BY DEF T!Told, T!TopicAssumption
<1>3. topicInput' = [topicInput EXCEPT !.told = topicInput.told + 1] BY DEF T!Told
<1>4. topicInput.told + 1 \in 0..MaxChanges BY <1>1, <1>2
<1>5. topicInput'.told = topicInput.told + 1 /\ topicInput'.quiet = topicInput.quiet
  BY <1>3 DEF T!Input
<1>6. topicInput' \in T!Input BY <1>3, <1>4 DEF T!Input
<1> QED BY <1>1, <1>5, <1>6 DEF Since

\* A change of what topics read leaves the jobs alone if they are told of it, or
\* if no review is undone.
LEMMA JobsStand ==
    ASSUME TopicTyped, Jobs, UNCHANGED <<at, taken, read>>,
           topicInput' \in T!Input, Since(topicInput, topicInput'),
           \/ topicInput'.told > topicInput.told
           \/ T!ReviewsDone(mapped, review) => T!ReviewsDone(mapped', review')
    PROVE  Jobs'
<1>0. topicInput \in T!Input BY DEF TopicTyped, T!TypeOK
<1>1. ASSUME NEW w \in TopicWorkers, at[w] \in Making
      PROVE  /\ taken[w] \in T!Input /\ Since(taken[w], topicInput')
             /\ taken[w].told = topicInput'.told => T!ReviewsDone(mapped', review')
  <2>1. taken[w] \in T!Input /\ Since(taken[w], topicInput) BY <1>1 DEF Jobs, AcceptedStands
  <2>2. Since(taken[w], topicInput') BY <1>0, <2>1, SinceTrans
  <2>3. /\ taken[w].told \in Nat /\ topicInput.told \in Nat /\ topicInput'.told \in Nat
        /\ taken[w].told <= topicInput.told /\ topicInput.told <= topicInput'.told
    BY <1>0, <2>1, InputFields DEF Since
  <2>4. taken[w].told = topicInput'.told =>
            taken[w].told = topicInput.told /\ ~(topicInput'.told > topicInput.told)
    BY <2>3
  <2>5. taken[w].told = topicInput'.told => T!ReviewsDone(mapped', review')
    BY <1>1, <2>4 DEF Jobs, AcceptedStands
  <2> QED BY <2>1, <2>2, <2>5
<1>2. AcceptedStands' BY <1>1 DEF AcceptedStands
<1>3. ASSUME NEW w \in TopicWorkers, at[w] \in Making, NEW r \in read[w]
      PROVE  Since(taken[w], r) /\ Since(r, topicInput')
  <2>1. r \in T!Input BY DEF TopicTyped, T!TypeOK
  <2>2. Since(taken[w], r) /\ Since(r, topicInput) BY <1>3 DEF Jobs, ReadSince
  <2> QED BY <1>0, <2>1, <2>2, SinceTrans
<1>4. ReadSince' BY <1>3 DEF ReadSince, Jobs
<1> QED BY <1>2, <1>4 DEF Jobs

\* A worker that leaves the rounds, or was in none, reads nothing more.
LEMMA JobsLeave ==
    ASSUME TopicTyped, Jobs, NEW w \in TopicWorkers, UNCHANGED <<topicInput, mapped, review>>,
           NEW l \in {"idle", "claim", "sync", "fail", "failRun"}, T!Goto(w, l),
           \/ UNCHANGED <<taken, read>> /\ l # "idle"
           \/ /\ taken' = [taken EXCEPT ![w] = None]
              /\ read' = [read EXCEPT ![w] = {}]
    PROVE  Jobs'
<1>1. at' = [at EXCEPT ![w] = l] BY DEF T!Goto
<1>2. \A x \in TopicWorkers : at'[x] = IF x = w THEN l ELSE at[x] BY <1>1 DEF TopicTyped, T!TypeOK
<1>3. \A x \in TopicWorkers \ {w} : taken'[x] = taken[x] /\ read'[x] = read[x]
  BY DEF TopicTyped, T!TypeOK
<1>4. l = "idle" => read'[w] = {} BY DEF TopicTyped, T!TypeOK
<1>5. l \notin Making BY DEF Making
<1>6. AcceptedStands' BY <1>2, <1>3, <1>5 DEF AcceptedStands, Jobs
<1>7. ReadSince' BY <1>2, <1>3, <1>4, <1>5 DEF ReadSince, Jobs, Making
<1> QED BY <1>6, <1>7 DEF Jobs

-----------------------------------------------------------------------------
(* Facts about statuses *)

LEMMA ReadinessTyped ==
    ASSUME NEW conf, NEW S, NEW rev
    PROVE  T!Readiness(conf, S, rev) \in {"DRAFT", "READY", "NOT_READY"}
BY DEF T!Readiness

\* A topic that is told of a change is not COMPLETED then.
LEMMA InvalidateTells ==
    ASSUME TopicTyped, NEW reason \in T!Reasons, NEW S, NEW rev, T!Invalidate(reason, S, rev)
    PROVE  topicStatus' \in T!Statuses \ {"COMPLETED"} /\ reasons' \subseteq T!Reasons
BY ReadinessTyped DEF T!Invalidate, TopicTyped, T!TypeOK, T!Statuses

LEMMA RefreshTells ==
    ASSUME TopicTyped, NEW S, NEW rev, T!Refresh(S, rev)
    PROVE  /\ topicStatus' \in T!Statuses /\ reasons' \subseteq T!Reasons
           /\ topicStatus' = "COMPLETED" => topicStatus = "COMPLETED"
BY ReadinessTyped DEF T!Refresh, TopicTyped, T!TypeOK, T!Statuses

LEMMA EditTells ==
    ASSUME TopicTyped, Result, NEW S, NEW rev,
           IF T!Published THEN T!Invalidate("topic", S, rev) ELSE T!Refresh(S, rev)
    PROVE  topicStatus' \in T!Statuses \ {"COMPLETED"} /\ reasons' \subseteq T!Reasons
<1>1. "topic" \in T!Reasons BY DEF T!Reasons
<1>2. CASE T!Published BY <1>1, <1>2, InvalidateTells
<1>3. CASE ~T!Published
  <2>1. topicStatus # "COMPLETED" BY <1>3 DEF T!Published, Result, CompletedStands
  <2> QED BY <1>3, <2>1, RefreshTells
<1> QED BY <1>2, <1>3

LEMMA FailureTyped == ASSUME TopicTyped PROVE T!StatusAfterFailure \in T!Statuses \ {"COMPLETED"}
BY ReadinessTyped DEF T!StatusAfterFailure, T!Statuses

-----------------------------------------------------------------------------
(* Requests that edit the topic *)

\* A request writes PENDING and leaves the jobs and the result alone.
LEMMA RequestKeeps ==
    ASSUME T!TopicAssumption, TopicInv, UNCHANGED <<T!genVars, T!jobVars>>,
           topicStatus' \in T!Statuses, reasons' \subseteq T!Reasons, confirmed' \in BOOLEAN,
           mapped' \subseteq Chapters, review' \in [Chapters -> {"none", "done", "stale"}],
           fresh' \in [TopicWorkers -> BOOLEAN], shown' \in [map : BOOLEAN, note : BOOLEAN],
           SyncTyped', T!SyncedMapIsCurrent',
           topicInput' \in T!Input, Since(topicInput, topicInput'),
           \/ topicInput'.told > topicInput.told
           \/ T!ReviewsDone(mapped, review) => T!ReviewsDone(mapped', review'),
           \/ topicStatus' # "COMPLETED"
           \/ /\ topicStatus = "COMPLETED" /\ topicInput'.told = topicInput.told
              /\ T!ReviewsDone(mapped, review) => T!ReviewsDone(mapped', review')
    PROVE  TopicInv'
<1>1. TopicTyped' BY DEF TopicInv, TopicTyped, T!TypeOK, SyncTyped, T!genVars, T!jobVars
<1>2. Jobs' BY JobsStand DEF TopicInv, T!jobVars
<1>3. Result' BY DEF TopicInv, Result, CompletedStands, T!CompletedIsCurrent, T!genVars
<1>4. T!PublishedFromOneInput' BY DEF TopicInv, T!PublishedFromOneInput, T!genVars
<1> QED BY <1>1, <1>2, <1>3, <1>4 DEF TopicInv

LEMMA EditContentKeeps == ASSUME T!TopicAssumption, TopicInv, T!EditContent PROVE TopicInv'
<1> USE DEF T!EditContent
<1>1. topicStatus' \in T!Statuses \ {"COMPLETED"} /\ reasons' \subseteq T!Reasons
  BY EditTells DEF TopicInv
<1>2. /\ topicInput' \in T!Input /\ Since(topicInput, topicInput')
      /\ topicInput'.told = topicInput.told + 1
  BY Tells DEF TopicInv, TopicTyped, T!TypeOK
<1>3. topicInput'.told > topicInput.told BY <1>2, InputFields DEF TopicInv, TopicTyped, T!TypeOK
<1>4. SyncTyped' /\ T!SyncedMapIsCurrent' BY DEF SyncTyped, T!SyncedMapIsCurrent, T!Pending,
    T!Owned
<1>5. shown' \in [map : BOOLEAN, note : BOOLEAN] /\ fresh' \in [TopicWorkers -> BOOLEAN]
  BY DEF T!RowsChange
<1> QED BY <1>1, <1>2, <1>3, <1>4, <1>5, RequestKeeps DEF TopicInv, TopicTyped, T!TypeOK

LEMMA RemapKeeps ==
    ASSUME T!TopicAssumption, TopicInv, NEW S \in SUBSET Chapters, T!Remap(S) PROVE TopicInv'
<1> USE DEF T!Remap
<1>1. topicStatus' \in T!Statuses \ {"COMPLETED"} /\ reasons' \subseteq T!Reasons
  BY EditTells DEF TopicInv
<1>2. /\ topicInput' \in T!Input /\ Since(topicInput, topicInput')
      /\ topicInput'.told = topicInput.told + 1
  BY Tells DEF TopicInv, TopicTyped, T!TypeOK
<1>3. topicInput'.told > topicInput.told BY <1>2, InputFields DEF TopicInv, TopicTyped, T!TypeOK
<1>4. SyncTyped' /\ T!SyncedMapIsCurrent' BY DEF SyncTyped, T!SyncedMapIsCurrent, T!Pending,
    T!Owned
<1>5. shown' \in [map : BOOLEAN, note : BOOLEAN] /\ fresh' \in [TopicWorkers -> BOOLEAN]
  BY DEF T!RowsChange, TopicInv, TopicTyped, T!TypeOK
<1> QED BY <1>1, <1>2, <1>3, <1>4, <1>5, RequestKeeps DEF TopicInv, TopicTyped, T!TypeOK

LEMMA SplitKeeps ==
    ASSUME T!TopicAssumption, TopicInv, NEW S \in SUBSET mapped, T!Split(S) PROVE TopicInv'
<1> USE DEF T!Split
<1>1. /\ topicStatus' \in T!Statuses \ {"COMPLETED"}
      /\ reasons' \subseteq T!Reasons /\ confirmed' \in BOOLEAN
  BY DEF TopicInv, TopicTyped, T!TypeOK, T!Statuses, T!Reasons
<1>2. /\ topicInput' \in T!Input /\ Since(topicInput, topicInput')
      /\ topicInput'.told = topicInput.told + 1
  BY Tells DEF TopicInv, TopicTyped, T!TypeOK
<1>3. topicInput'.told > topicInput.told BY <1>2, InputFields DEF TopicInv, TopicTyped, T!TypeOK
<1>4. SyncTyped' /\ T!SyncedMapIsCurrent' BY DEF SyncTyped, T!SyncedMapIsCurrent, T!Pending,
    T!Owned
<1>5. shown' \in [map : BOOLEAN, note : BOOLEAN] /\ fresh' \in [TopicWorkers -> BOOLEAN]
  BY DEF T!RowsChange, TopicInv, TopicTyped, T!TypeOK
<1>6. mapped' \subseteq Chapters BY DEF TopicInv, TopicTyped, T!TypeOK
<1> QED BY <1>1, <1>2, <1>3, <1>4, <1>5, <1>6, RequestKeeps DEF TopicInv, TopicTyped, T!TypeOK

LEMMA ConfirmCourseKeeps == ASSUME T!TopicAssumption, TopicInv, T!ConfirmCourse PROVE TopicInv'
<1> USE DEF T!ConfirmCourse
<1>1. topicStatus' \in T!Statuses \ {"COMPLETED"} BY ReadinessTyped DEF T!Statuses
<1>2. topicInput \in T!Input BY DEF TopicInv, TopicTyped, T!TypeOK
<1>3. topicInput' \in T!Input /\ Since(topicInput, topicInput')
  BY <1>2, Tells, SinceSame
<1>4. SyncTyped' /\ T!SyncedMapIsCurrent' BY DEF SyncTyped, T!SyncedMapIsCurrent, T!Pending,
    T!Owned
<1>5. shown' \in [map : BOOLEAN, note : BOOLEAN] /\ fresh' \in [TopicWorkers -> BOOLEAN]
  BY DEF T!RowsChange, TopicInv, TopicTyped, T!TypeOK
<1> QED BY <1>1, <1>2, <1>3, <1>4, <1>5, RequestKeeps DEF TopicInv, TopicTyped, T!TypeOK

LEMMA EditBlockKeeps == ASSUME T!TopicAssumption, TopicInv, T!EditBlock PROVE TopicInv'
<1> USE DEF T!EditBlock, T!topicVars
<1>1. topicInput' \in T!Input /\ Since(topicInput, topicInput') BY SinceSame DEF TopicInv,
    TopicTyped, T!TypeOK
<1>2. SyncTyped' /\ T!SyncedMapIsCurrent' BY DEF SyncTyped, T!SyncedMapIsCurrent, T!Pending,
    T!Owned
<1>3. shown' \in [map : BOOLEAN, note : BOOLEAN] /\ fresh' \in [TopicWorkers -> BOOLEAN]
  BY DEF T!RowsChange, TopicInv, TopicTyped, T!TypeOK
<1> QED BY <1>1, <1>2, <1>3, RequestKeeps DEF TopicInv, TopicTyped, T!TypeOK

-----------------------------------------------------------------------------
(* Chapters *)

LEMMA ChapterChangesKeeps ==
    ASSUME T!TopicAssumption, TopicInv, NEW c \in Chapters, T!ChapterChanges(c) PROVE TopicInv'
<1> USE DEF T!ChapterChanges
<1>0. topicInput \in T!Input BY DEF TopicInv, TopicTyped, T!TypeOK
<1>1. review' \in [Chapters -> {"none", "done", "stale"}] BY DEF TopicInv, TopicTyped, T!TypeOK
<1>2. fresh' \in [TopicWorkers -> BOOLEAN] BY DEF T!RowsChange
<1>3. SyncTyped' /\ T!SyncedMapIsCurrent' BY DEF TopicInv, TopicTyped, SyncTyped,
    T!SyncedMapIsCurrent
<1>4. CASE c \in mapped
  <2>1. topicStatus' \in T!Statuses \ {"COMPLETED"} /\ reasons' \subseteq T!Reasons
    BY <1>4, InvalidateTells DEF TopicInv, T!Reasons
  <2>2. topicInput' \in T!Input /\ Since(topicInput, topicInput') BY <1>0, <1>4, Tells, SinceSame
  <2>3. \/ topicInput'.told > topicInput.told
        \/ T!ReviewsDone(mapped, review) => T!ReviewsDone(mapped', review')
    <3>1. CASE review[c] = "none" BY <1>4, <3>1 DEF T!ReviewsDone
    <3>2. CASE review[c] # "none" BY <1>0, <1>4, <3>2, Tells, InputFields
    <3> QED BY <3>1, <3>2
  <2> QED BY <1>1, <1>2, <1>3, <2>1, <2>2, <2>3, RequestKeeps DEF TopicInv, TopicTyped, T!TypeOK
<1>5. CASE c \notin mapped
  <2>1. T!ReviewsDone(mapped, review) => T!ReviewsDone(mapped', review')
    BY <1>5 DEF T!ReviewsDone, TopicInv, TopicTyped, T!TypeOK
  <2>2. UNCHANGED <<topicStatus, reasons, topicInput>> BY <1>5
  <2> QED BY <1>0, <1>1, <1>2, <1>3, <2>1, <2>2, SinceSame, RequestKeeps
        DEF TopicInv, TopicTyped, T!TypeOK
<1> QED BY <1>4, <1>5

LEMMA ChapterReviewedKeeps ==
    ASSUME T!TopicAssumption, TopicInv, NEW c \in Chapters, T!ChapterReviewed(c) PROVE TopicInv'
<1> USE DEF T!ChapterReviewed
<1>0. topicInput \in T!Input BY DEF TopicInv, TopicTyped, T!TypeOK
<1>1. review' \in [Chapters -> {"none", "done", "stale"}] BY DEF TopicInv, TopicTyped, T!TypeOK
<1>2. fresh' \in [TopicWorkers -> BOOLEAN] BY DEF T!RowsChange
<1>3. SyncTyped' /\ T!SyncedMapIsCurrent' BY DEF TopicInv, TopicTyped, SyncTyped,
    T!SyncedMapIsCurrent
<1>4. T!ReviewsDone(mapped, review) => T!ReviewsDone(mapped', review')
  BY DEF T!ReviewsDone, TopicInv, TopicTyped, T!TypeOK
<1>5. CASE c \in mapped
  <2>1. ~T!ReviewsDone(mapped, review) BY <1>5 DEF T!ReviewsDone
  <2>2. topicStatus # "COMPLETED" BY <2>1 DEF TopicInv, Result, CompletedStands
  <2>3. topicStatus' \in T!Statuses \ {"COMPLETED"} /\ reasons' \subseteq T!Reasons
    BY <1>5, <2>2, RefreshTells DEF TopicInv
  <2>4. topicInput' \in T!Input /\ Since(topicInput, topicInput') BY <1>0, <1>5, Tells
  <2> QED BY <1>1, <1>2, <1>3, <1>4, <2>3, <2>4, RequestKeeps DEF TopicInv, TopicTyped, T!TypeOK
<1>6. CASE c \notin mapped
  <2>1. UNCHANGED <<topicStatus, reasons, topicInput>> BY <1>6
  <2> QED BY <1>0, <1>1, <1>2, <1>3, <1>4, <2>1, SinceSame, RequestKeeps
        DEF TopicInv, TopicTyped, T!TypeOK
<1> QED BY <1>5, <1>6

LEMMA EditChapterNoteKeeps ==
    ASSUME T!TopicAssumption, TopicInv, NEW c \in Chapters, T!EditChapterNote(c) PROVE TopicInv'
<1> USE DEF T!EditChapterNote, T!topicVars
<1>0. topicInput \in T!Input /\ topicInput.told \in Nat /\ topicInput.quiet \in Nat
  BY InputFields DEF TopicInv, TopicTyped, T!TypeOK
<1>1. /\ topicInput' \in T!Input /\ Since(topicInput, topicInput')
      /\ topicInput'.told = topicInput.told
  <2>1. MaxChanges \in Nat BY DEF T!TopicAssumption
  <2>2. topicInput' = [topicInput EXCEPT !.quiet = topicInput.quiet + 1] OBVIOUS
  <2>3. topicInput.quiet + 1 \in 0..MaxChanges BY <1>0, <2>1
  <2>4. topicInput'.told = topicInput.told /\ topicInput'.quiet = topicInput.quiet + 1
    BY <1>0, <2>2 DEF T!Input
  <2>5. topicInput' \in T!Input BY <1>0, <2>2, <2>3 DEF T!Input
  <2> QED BY <1>0, <2>4, <2>5 DEF Since
<1>2. fresh' \in [TopicWorkers -> BOOLEAN] BY DEF T!RowsChange
<1>3. SyncTyped' /\ T!SyncedMapIsCurrent' BY DEF TopicInv, TopicTyped, SyncTyped,
    T!SyncedMapIsCurrent
<1> QED BY <1>1, <1>2, <1>3, RequestKeeps DEF TopicInv, TopicTyped, T!TypeOK

-----------------------------------------------------------------------------
(* TopicFusionPipeline.run *)

\* A step of a generation that publishes nothing.
LEMMA GenerationKeeps ==
    ASSUME TopicInv, TopicTyped', Jobs',
           UNCHANGED <<mapped, review, topicInput, blocks, sync, shown>>,
           topicStatus' # "COMPLETED" \/ UNCHANGED topicStatus
    PROVE  TopicInv'
<1>1. Result' BY DEF TopicInv, Result, CompletedStands, T!CompletedIsCurrent
<1>2. T!PublishedFromOneInput' BY DEF TopicInv, T!PublishedFromOneInput
<1>3. T!SyncedMapIsCurrent' BY DEF TopicInv, T!SyncedMapIsCurrent
<1> QED BY <1>1, <1>2, <1>3 DEF TopicInv

LEMMA RoundIsTyped ==
    ASSUME T!TopicAssumption
    PROVE  1 \in 1..T!Review /\ \A n \in 1..T!Review : n < T!Review => n + 1 \in 1..T!Review
BY DEF T!TopicAssumption, T!Review

LEMMA StartKeeps ==
    ASSUME T!TopicAssumption, TopicInv, NEW w \in TopicWorkers, T!Start(w) PROVE TopicInv'
<1> USE DEF T!Start, T!Goto
<1>1. TopicTyped'
  <2>1. topicLease' \in T!Owned BY DEF T!Owned
  <2>2. T!TypeOK' BY <2>1 DEF TopicInv, TopicTyped, T!TypeOK, T!RowsChange, T!Statuses
  <2>3. SyncTyped' BY DEF TopicInv, TopicTyped, SyncTyped
  <2> QED BY <2>2, <2>3 DEF TopicTyped
<1>2. topicInput \in T!Input /\ Since(topicInput, topicInput) BY SinceSame DEF TopicInv,
    TopicTyped, T!TypeOK
<1>3. \A x \in TopicWorkers : /\ at'[x] = IF x = w THEN "round" ELSE at[x]
                         /\ taken'[x] = IF x = w THEN topicInput ELSE taken[x]
  BY DEF TopicInv, TopicTyped, T!TypeOK
<1>4. AcceptedStands'
  BY <1>2, <1>3 DEF TopicInv, Jobs, AcceptedStands, T!DependenciesReady
<1>5. ReadSince'
  <2>1. read'[w] = {} BY DEF TopicInv, Jobs, ReadSince
  <2> QED BY <1>3, <2>1 DEF TopicInv, Jobs, ReadSince, Making
<1> QED BY <1>1, <1>4, <1>5, GenerationKeeps DEF Jobs

LEMMA BeginRoundKeeps ==
    ASSUME T!TopicAssumption, TopicInv, NEW w \in TopicWorkers, T!BeginRound(w) PROVE TopicInv'
<1> USE DEF T!BeginRound, T!Goto, T!topicVars
<1>0. topicInput \in T!Input /\ Since(topicInput, topicInput) BY SinceSame DEF TopicInv,
    TopicTyped, T!TypeOK
<1>1. TopicTyped'
  <2>1. T!TypeOK' BY <1>0 DEF TopicInv, TopicTyped, T!TypeOK, T!RowsChange
  <2>2. SyncTyped' BY DEF TopicInv, TopicTyped, SyncTyped
  <2> QED BY <2>1, <2>2 DEF TopicTyped
<1>2. \A x \in TopicWorkers : /\ at'[x] = IF x = w THEN "execute" ELSE at[x]
                         /\ read'[x] = IF x = w THEN read[x] \cup {topicInput} ELSE read[x]
  BY DEF TopicInv, TopicTyped, T!TypeOK
<1>3. at[w] \in Making BY DEF Making
<1>4. AcceptedStands' BY <1>2, <1>3 DEF TopicInv, Jobs, AcceptedStands
<1>5. Since(taken[w], topicInput) BY <1>3 DEF TopicInv, Jobs, AcceptedStands
<1>6. ReadSince' BY <1>0, <1>2, <1>3, <1>5 DEF TopicInv, Jobs, ReadSince
<1> QED BY <1>1, <1>4, <1>6, GenerationKeeps DEF Jobs

\* Steps out of the rounds that leave the rows of the topic alone.
LEMMA StopKeeps ==
    ASSUME T!TopicAssumption, TopicInv, NEW w \in TopicWorkers,
           T!NoPackage(w) \/ T!RoundFails(w) \/ T!FailRun(w)
    PROVE  TopicInv'
<1> USE DEF T!NoPackage, T!RoundFails, T!FailRun, T!topicVars, T!genVars
<1>1. PICK l \in {"fail", "failRun"} : T!Goto(w, l) OBVIOUS
<1>2. TopicTyped'
  <2>1. at' \in [TopicWorkers -> {"idle", "round", "execute", "answered", "failRun", "fail",
                             "claim", "sync"}]
    BY <1>1 DEF TopicInv, TopicTyped, T!TypeOK, T!Goto
  <2>2. topicRuns' \subseteq TopicWorkers /\ fresh' \in [TopicWorkers -> BOOLEAN]
    BY DEF TopicInv, TopicTyped, T!TypeOK, T!RowsChange
  <2>3. T!TypeOK' BY <2>1, <2>2 DEF TopicInv, TopicTyped, T!TypeOK
  <2>4. SyncTyped' BY DEF TopicInv, TopicTyped, SyncTyped
  <2> QED BY <2>3, <2>4 DEF TopicTyped
<1>3. UNCHANGED <<mapped, review, topicInput, blocks, sync, shown, topicStatus, taken, read>>
  OBVIOUS
<1>4. Jobs' BY <1>1, <1>3, JobsLeave DEF TopicInv
<1> QED BY <1>2, <1>3, <1>4, GenerationKeeps

LEMMA AnswerKeeps ==
    ASSUME T!TopicAssumption, TopicInv, NEW w \in TopicWorkers, T!Answer(w) PROVE TopicInv'
<1> USE DEF T!Answer, T!Goto, T!topicVars, T!genVars
<1>1. TopicTyped'
  <2>1. T!TypeOK' BY DEF TopicInv, TopicTyped, T!TypeOK
  <2>2. SyncTyped' BY DEF TopicInv, TopicTyped, SyncTyped
  <2> QED BY <2>1, <2>2 DEF TopicTyped
<1>2. \A x \in TopicWorkers : at'[x] = IF x = w THEN "answered" ELSE at[x]
  BY DEF TopicInv, TopicTyped, T!TypeOK
<1>3. at[w] = "execute" /\ UNCHANGED <<taken, read, topicInput, mapped, review>> OBVIOUS
<1>4. AcceptedStands' BY <1>2, <1>3 DEF TopicInv, Jobs, AcceptedStands, Making
<1>5. ReadSince' BY <1>2, <1>3 DEF TopicInv, Jobs, ReadSince, Making
<1> QED BY <1>1, <1>4, <1>5, GenerationKeeps DEF Jobs

LEMMA FinishRoundKeeps ==
    ASSUME T!TopicAssumption, TopicInv, NEW w \in TopicWorkers, T!FinishRound(w) PROVE TopicInv'
<1> USE DEF T!FinishRound, T!Goto, T!topicVars
<1>1. TopicTyped'
  <2>1. topicRound' \in [TopicWorkers -> 1..T!Review] BY RoundIsTyped DEF TopicInv, TopicTyped,
      T!TypeOK
  <2>2. T!TypeOK' BY <2>1 DEF TopicInv, TopicTyped, T!TypeOK, T!RowsChange
  <2>3. SyncTyped' BY DEF TopicInv, TopicTyped, SyncTyped
  <2> QED BY <2>2, <2>3 DEF TopicTyped
<1>2. \A x \in TopicWorkers : at'[x] = IF x = w THEN "round" ELSE at[x]
  BY DEF TopicInv, TopicTyped, T!TypeOK
<1>3. at[w] = "answered" /\ UNCHANGED <<taken, read, topicInput, mapped, review>> OBVIOUS
<1>4. AcceptedStands' BY <1>2, <1>3 DEF TopicInv, Jobs, AcceptedStands, Making
<1>5. ReadSince' BY <1>2, <1>3 DEF TopicInv, Jobs, ReadSince, Making
<1> QED BY <1>1, <1>4, <1>5, GenerationKeeps DEF Jobs

\* The publication: the accepted input is the current one, and so are all that
\* were read.
LEMMA TopicPublishKeeps ==
    ASSUME T!TopicAssumption, TopicInv, NEW w \in TopicWorkers, T!Publish(w) PROVE TopicInv'
<1> USE DEF T!Publish, T!Publishable
<1>1. at[w] \in Making /\ at[w] \in {"execute", "answered"} BY DEF Making
<1>2. topicInput \in T!Input /\ taken[w] = topicInput /\ read[w] \subseteq T!Input
  BY DEF TopicInv, TopicTyped, T!TypeOK
<1>3. \A r \in read[w] : r = topicInput
  <2> SUFFICES ASSUME NEW r \in read[w] PROVE r = topicInput OBVIOUS
  <2>1. Since(topicInput, r) /\ Since(r, topicInput) BY <1>1, <1>2 DEF TopicInv, Jobs, ReadSince
  <2> QED BY <1>2, <2>1, SinceBetween
<1>4. read[w] = {topicInput} BY <1>1, <1>3 DEF TopicInv, Jobs, ReadSince
<1>5. T!ReviewsDone(mapped, review) BY <1>1, <1>2 DEF TopicInv, Jobs, AcceptedStands
<1>6. blocks' = [input |-> topicInput, read |-> {topicInput}] BY <1>4
<1>7. TopicTyped'
  <2>1. blocks' \in [input : T!Input, read : SUBSET T!Input] BY <1>2, <1>6
  <2>2. SyncTyped' BY DEF SyncTyped, T!Pending, T!Owned
  <2>3. topicLease' \in T!Owned BY DEF T!Owned
  <2>4. /\ topicRuns' \subseteq TopicWorkers /\ topicStatus' \in T!Statuses
        /\ reasons' \subseteq T!Reasons
    BY DEF TopicInv, TopicTyped, T!TypeOK, T!Statuses
  <2>5. at' \in [TopicWorkers -> {"idle", "round", "execute", "answered", "failRun", "fail",
                             "claim", "sync"}]
    BY DEF TopicInv, TopicTyped, T!TypeOK, T!Goto
  <2>6. T!TypeOK' BY <2>1, <2>2, <2>3, <2>4, <2>5
          DEF TopicInv, TopicTyped, T!TypeOK, T!RowsChange, T!Pending, T!Owned
  <2> QED BY <2>2, <2>6 DEF TopicTyped
<1>8. Jobs' BY JobsLeave DEF TopicInv
<1>9. Result'
  <2>1. blocks'.input = topicInput /\ blocks'.read = {topicInput} BY <1>6
  <2>2. blocks' # T!NoBlocks BY <2>1 DEF T!NoBlocks
  <2> QED BY <1>5, <2>1, <2>2 DEF Result, CompletedStands, T!CompletedIsCurrent
<1>10. T!PublishedFromOneInput' BY <1>6 DEF T!PublishedFromOneInput
<1>11. T!SyncedMapIsCurrent' BY DEF T!SyncedMapIsCurrent, T!Pending
<1> QED BY <1>7, <1>8, <1>9, <1>10, <1>11 DEF TopicInv

LEMMA ReturnsTyped ==
    ASSUME T!TopicAssumption, TopicTyped, NEW w \in TopicWorkers, T!Returns(w)
    PROVE  /\ at' \in [TopicWorkers -> {"idle", "round", "execute", "answered", "failRun", "fail",
                                   "claim", "sync"}]
           /\ topicRound' \in [TopicWorkers -> 1..T!Review]
           /\ taken' \in [TopicWorkers -> T!Input \cup {None}]
           /\ baseline' \in [TopicWorkers -> SUBSET T!Reasons]
           /\ read' \in [TopicWorkers -> SUBSET T!Input]
           /\ mapOnly' \in [TopicWorkers -> BOOLEAN]
BY RoundIsTyped DEF T!Returns, T!Goto, TopicTyped, T!TypeOK

LEMMA FailTopicKeeps ==
    ASSUME T!TopicAssumption, TopicInv, NEW w \in TopicWorkers, T!FailTopic(w) PROVE TopicInv'
<1> USE DEF T!FailTopic
<1>1. /\ topicStatus' \in T!Statuses /\ topicLease' \in T!Owned
      /\ fresh' \in [TopicWorkers -> BOOLEAN]
      /\ topicStatus' # "COMPLETED" \/ UNCHANGED topicStatus
  BY FailureTyped DEF TopicInv, TopicTyped, T!TypeOK, T!RowsChange, T!Owned
<1>2. T!TypeOK' BY <1>1, ReturnsTyped DEF TopicInv, TopicTyped, T!TypeOK
<1>3. SyncTyped' BY DEF TopicInv, TopicTyped, SyncTyped
<1>4. Jobs' BY JobsLeave DEF TopicInv, T!Returns
<1> QED BY <1>1, <1>2, <1>3, <1>4, GenerationKeeps DEF TopicTyped

LEMMA RecoverKeeps == ASSUME T!TopicAssumption, TopicInv, T!Recover PROVE TopicInv'
<1> USE DEF T!Recover, T!jobVars
<1>1. /\ topicStatus' \in T!Statuses \ {"COMPLETED"}
      /\ topicLease' \in T!Owned /\ fresh' \in [TopicWorkers -> BOOLEAN]
  BY FailureTyped DEF TopicInv, T!RowsChange, T!Owned
<1>2. T!TypeOK' BY <1>1 DEF TopicInv, TopicTyped, T!TypeOK
<1>3. SyncTyped' BY DEF TopicInv, TopicTyped, SyncTyped
<1>4. Jobs' BY DEF TopicInv, Jobs, AcceptedStands, ReadSince
<1> QED BY <1>1, <1>2, <1>3, <1>4, GenerationKeeps DEF TopicTyped

LEMMA ExpiredIsOwned ==
    ASSUME NEW l \in T!Owned, l.live PROVE [l EXCEPT !.live = FALSE] \in T!Owned
<1>1. l # T!NoLease BY DEF T!NoLease
<1>2. l \in [owner : TopicWorkers, live : BOOLEAN] BY <1>1 DEF T!Owned
<1> QED BY <1>2 DEF T!Owned

LEMMA TopicExpireKeeps == ASSUME T!TopicAssumption, TopicInv, T!Expire PROVE TopicInv'
<1> USE DEF T!Expire, T!jobVars, T!topicVars
<1>1. topicLease' \in T!Owned BY ExpiredIsOwned DEF TopicInv, TopicTyped, T!TypeOK
<1>2. T!TypeOK' BY <1>1 DEF TopicInv, TopicTyped, T!TypeOK
<1>3. SyncTyped' BY DEF TopicInv, TopicTyped, SyncTyped
<1>4. Jobs' BY DEF TopicInv, Jobs, AcceptedStands, ReadSince
<1> QED BY <1>1, <1>2, <1>3, <1>4, GenerationKeeps DEF TopicTyped

-----------------------------------------------------------------------------
(* The Markdown of the topic *)

\* A step of a publication changes no row but that of the publication.
LEMMA SyncKeeps ==
    ASSUME TopicInv, TopicTyped', Jobs', T!SyncedMapIsCurrent',
           UNCHANGED <<topicStatus, mapped, review, topicInput, blocks>>
    PROVE  TopicInv'
<1>1. Result' BY DEF TopicInv, Result, CompletedStands, T!CompletedIsCurrent
<1>2. T!PublishedFromOneInput' BY DEF TopicInv, T!PublishedFromOneInput
<1> QED BY <1>1, <1>2 DEF TopicInv

LEMMA RetrySyncKeeps ==
    ASSUME T!TopicAssumption, TopicInv, NEW w \in TopicWorkers, T!RetrySync(w) PROVE TopicInv'
<1> USE DEF T!RetrySync, T!topicVars, T!genVars
<1>1. T!TypeOK' BY DEF TopicInv, TopicTyped, T!TypeOK, T!Goto
<1>2. SyncTyped' /\ T!SyncedMapIsCurrent' BY DEF TopicInv, TopicTyped, SyncTyped,
    T!SyncedMapIsCurrent
<1>3. Jobs' BY JobsLeave DEF TopicInv
<1> QED BY <1>1, <1>2, <1>3, SyncKeeps DEF TopicTyped

LEMMA ClaimSyncKeeps ==
    ASSUME T!TopicAssumption, TopicInv, NEW w \in TopicWorkers, T!ClaimSync(w) PROVE TopicInv'
<1> USE DEF T!ClaimSync, T!topicVars, T!genVars
<1>1. SyncTyped' /\ T!SyncedMapIsCurrent' BY DEF SyncTyped, T!SyncedMapIsCurrent, T!Owned
<1>2. T!TypeOK' BY <1>1 DEF TopicInv, TopicTyped, T!TypeOK, T!Goto, SyncTyped
<1>3. Jobs' BY JobsLeave DEF TopicInv
<1> QED BY <1>1, <1>2, <1>3, SyncKeeps DEF TopicTyped

LEMMA ClaimRefusedKeeps ==
    ASSUME T!TopicAssumption, TopicInv, NEW w \in TopicWorkers, T!ClaimRefused(w) PROVE TopicInv'
<1> USE DEF T!ClaimRefused, T!topicVars, T!genVars
<1>1. SyncTyped' /\ T!SyncedMapIsCurrent' BY DEF TopicInv, TopicTyped, SyncTyped,
    T!SyncedMapIsCurrent
<1>2. T!TypeOK'
  <2>1. CASE T!Returns(w) BY <2>1, ReturnsTyped DEF TopicInv, TopicTyped, T!TypeOK
  <2>2. CASE T!Goto(w, "fail") /\ UNCHANGED <<topicRound, taken, baseline, read, mapOnly>>
    BY <2>2 DEF TopicInv, TopicTyped, T!TypeOK, T!Goto
  <2> QED BY <2>1, <2>2
<1>3. Jobs' BY JobsLeave DEF TopicInv, T!Returns
<1> QED BY <1>1, <1>2, <1>3, SyncKeeps DEF TopicTyped

\* The files are committed only from a snapshot that no row has outdated.
LEMMA CommitSyncKeeps ==
    ASSUME T!TopicAssumption, TopicInv, NEW w \in TopicWorkers, T!CommitSync(w) PROVE TopicInv'
<1> USE DEF T!CommitSync, T!Written, T!Fenced, T!topicVars, T!genVars
<1>1. shown' \in [map : BOOLEAN, note : BOOLEAN] /\ shown'.map = TRUE
  BY DEF TopicInv, TopicTyped, T!TypeOK
<1>2. SyncTyped' /\ T!SyncedMapIsCurrent' BY <1>1 DEF SyncTyped, T!SyncedMapIsCurrent, T!Owned
<1>3. T!TypeOK' BY <1>1, <1>2, ReturnsTyped DEF TopicInv, TopicTyped, T!TypeOK, SyncTyped
<1>4. Jobs' BY JobsLeave DEF TopicInv, T!Returns
<1> QED BY <1>2, <1>3, <1>4, SyncKeeps DEF TopicTyped

LEMMA FailSyncKeeps ==
    ASSUME T!TopicAssumption, TopicInv, NEW w \in TopicWorkers, T!FailSync(w) PROVE TopicInv'
<1> USE DEF T!FailSync, T!topicVars, T!genVars
<1>1. SyncTyped' /\ T!SyncedMapIsCurrent'
  BY DEF TopicInv, TopicTyped, SyncTyped, T!SyncedMapIsCurrent, T!Owned
<1>2. T!TypeOK'
  <2>1. sync'.status \in {"PENDING", "SYNCING", "SYNCED", "FAILED"} /\ sync'.by \in T!Owned
    BY <1>1 DEF SyncTyped
  <2>2. CASE T!Returns(w) BY <2>1, <2>2, ReturnsTyped DEF TopicInv, TopicTyped, T!TypeOK
  <2>3. CASE T!Goto(w, "fail") /\ UNCHANGED <<topicRound, taken, baseline, read, mapOnly>>
    BY <2>1, <2>3 DEF TopicInv, TopicTyped, T!TypeOK, T!Goto
  <2> QED BY <2>2, <2>3
<1>3. Jobs' BY JobsLeave DEF TopicInv, T!Returns
<1> QED BY <1>1, <1>2, <1>3, SyncKeeps DEF TopicTyped

LEMMA ExpireSyncKeeps == ASSUME T!TopicAssumption, TopicInv, T!ExpireSync PROVE TopicInv'
<1> USE DEF T!ExpireSync, T!topicVars, T!genVars, T!jobVars
<1>1. sync.by.live /\ sync.by \in T!Owned /\ sync \in [status : {"PENDING", "SYNCING", "SYNCED",
                                                               "FAILED"}, by : T!Owned]
  BY DEF TopicInv, TopicTyped, T!TypeOK, SyncTyped
<1>2. [sync.by EXCEPT !.live = FALSE] \in T!Owned BY <1>1, ExpiredIsOwned
<1>3. SyncTyped' /\ T!SyncedMapIsCurrent'
  BY <1>1, <1>2 DEF TopicInv, SyncTyped, T!SyncedMapIsCurrent
<1>4. T!TypeOK' BY <1>3 DEF TopicInv, TopicTyped, T!TypeOK, SyncTyped
<1>5. Jobs' BY DEF TopicInv, Jobs, AcceptedStands, ReadSince
<1> QED BY <1>3, <1>4, <1>5, SyncKeeps DEF TopicTyped

LEMMA CrashKeeps == ASSUME T!TopicAssumption, TopicInv, T!Crash PROVE TopicInv'
<1> USE DEF T!Crash, T!topicVars, T!genVars
<1>1. T!TypeOK' BY RoundIsTyped DEF TopicInv, TopicTyped, T!TypeOK
<1>2. SyncTyped' /\ T!SyncedMapIsCurrent' BY DEF TopicInv, TopicTyped, SyncTyped,
    T!SyncedMapIsCurrent
<1>3. Jobs' BY DEF Jobs, AcceptedStands, ReadSince, Making
<1> QED BY <1>1, <1>2, <1>3, SyncKeeps DEF TopicTyped

-----------------------------------------------------------------------------
(* The invariant *)

LEMMA InitIsSound == ASSUME T!TopicAssumption, T!Init PROVE TopicInv
<1> USE DEF T!Init
<1>1. topicStatus \in {"DRAFT", "READY", "NOT_READY"} BY ReadinessTyped
<1>2. topicInput \in T!Input BY DEF T!Input, T!TopicAssumption
<1>3. T!TypeOK BY <1>1, <1>2, RoundIsTyped DEF T!TypeOK, T!Statuses, T!Owned, T!Pending
<1>4. SyncTyped BY DEF SyncTyped, T!Pending, T!Owned
<1>5. Jobs BY DEF Jobs, AcceptedStands, ReadSince, Making
<1>6. Result BY <1>1 DEF Result, CompletedStands, T!CompletedIsCurrent
<1>7. T!PublishedFromOneInput /\ T!SyncedMapIsCurrent
  BY DEF T!PublishedFromOneInput, T!SyncedMapIsCurrent, T!Pending
<1> QED BY <1>3, <1>4, <1>5, <1>6, <1>7 DEF TopicInv, TopicTyped

LEMMA StutterKeeps == ASSUME TopicInv, UNCHANGED T!vars PROVE TopicInv'
<1> USE DEF T!vars, T!topicVars, T!genVars, T!jobVars
<1>1. TopicTyped' BY DEF TopicInv, TopicTyped, T!TypeOK, SyncTyped
<1>2. Jobs' BY DEF TopicInv, Jobs, AcceptedStands, ReadSince
<1>3. T!SyncedMapIsCurrent' BY DEF TopicInv, T!SyncedMapIsCurrent
<1> QED BY <1>1, <1>2, <1>3, SyncKeeps

LEMMA TopicStepKeeps == ASSUME T!TopicAssumption, TopicInv, [T!Next]_(T!vars) PROVE TopicInv'
<1>1. CASE T!EditContent \/ T!ConfirmCourse \/ T!EditBlock
  BY <1>1, EditContentKeeps, ConfirmCourseKeeps, EditBlockKeeps
<1>2. CASE \E S \in SUBSET Chapters \ {{}} : T!Remap(S) BY <1>2, RemapKeeps
<1>3. CASE \E S \in SUBSET mapped : T!Split(S) BY <1>3, SplitKeeps
<1>4. CASE \E c \in Chapters : T!ChapterChanges(c) \/ T!ChapterReviewed(c) \/ T!EditChapterNote(c)
  BY <1>4, ChapterChangesKeeps, ChapterReviewedKeeps, EditChapterNoteKeeps
<1>5. CASE \E w \in TopicWorkers :
              \/ T!Start(w) \/ T!BeginRound(w) \/ T!NoPackage(w) \/ T!Answer(w) \/ T!RoundFails(w)
              \/ T!FinishRound(w) \/ T!Publish(w) \/ T!FailRun(w) \/ T!FailTopic(w)
              \/ T!RetrySync(w) \/ T!ClaimSync(w) \/ T!ClaimRefused(w)
              \/ T!CommitSync(w) \/ T!FailSync(w)
  <2>1. PICK w \in TopicWorkers :
            \/ T!Start(w) \/ T!BeginRound(w) \/ T!NoPackage(w) \/ T!Answer(w) \/ T!RoundFails(w)
            \/ T!FinishRound(w) \/ T!Publish(w) \/ T!FailRun(w) \/ T!FailTopic(w)
            \/ T!RetrySync(w) \/ T!ClaimSync(w) \/ T!ClaimRefused(w)
            \/ T!CommitSync(w) \/ T!FailSync(w)
    BY <1>5
  <2>2. CASE T!Start(w) \/ T!BeginRound(w) \/ T!NoPackage(w) \/ T!Answer(w) \/ T!RoundFails(w)
    BY <2>2, StartKeeps, BeginRoundKeeps, StopKeeps, AnswerKeeps
  <2>3. CASE T!FinishRound(w) \/ T!Publish(w) \/ T!FailRun(w) \/ T!FailTopic(w)
    BY <2>3, FinishRoundKeeps, TopicPublishKeeps, StopKeeps, FailTopicKeeps
  <2>4. CASE T!RetrySync(w) \/ T!ClaimSync(w) \/ T!ClaimRefused(w)
          \/ T!CommitSync(w) \/ T!FailSync(w)
    BY <2>4, RetrySyncKeeps, ClaimSyncKeeps, ClaimRefusedKeeps, CommitSyncKeeps, FailSyncKeeps
  <2> QED BY <2>1, <2>2, <2>3, <2>4
<1>6. CASE T!Recover \/ T!Expire \/ T!ExpireSync \/ T!Crash
  BY <1>6, RecoverKeeps, TopicExpireKeeps, ExpireSyncKeeps, CrashKeeps
<1>7. CASE UNCHANGED T!vars BY <1>7, StutterKeeps
<1> QED BY <1>1, <1>2, <1>3, <1>4, <1>5, <1>6, <1>7 DEF T!Next

LEMMA TopicInductive == ASSUME T!TopicAssumption PROVE T!Spec => []TopicInv
<1>1. T!Init => TopicInv BY InitIsSound
<1>2. TopicInv /\ [T!Next]_(T!vars) => TopicInv' BY TopicStepKeeps
<1> QED BY <1>1, <1>2, PTL DEF T!Spec

\* The rows of a topic, the jobs of its workers and its publication keep their
\* types through every request, round, expiry and crash (repository.py,
\* topic_pipeline.py).
THEOREM TopicTypeCorrect == T!Spec => []T!TypeOK
<1>1. TopicInv => T!TypeOK BY DEF TopicInv, TopicTyped
<1> QED BY <1>1, TopicInductive, TopicsAssumption, PTL

\* Every round of a published result was made from the input the generation was
\* started with (publish_topic_generation compares only the first and the last).
THEOREM OneInput == T!Spec => []PublishedFromOneInput
<1>1. TopicInv => PublishedFromOneInput
  BY DEF TopicInv, T!PublishedFromOneInput, PublishedFromOneInput, T!NoBlocks, NoBlocks
<1> QED BY <1>1, TopicInductive, TopicsAssumption, PTL

\* A COMPLETED topic has the result of its current input, as far as topics are
\* told of changes (_invalidate_topic).
THEOREM CompletedCurrent == T!Spec => []CompletedIsCurrent
<1>1. TopicInv => CompletedIsCurrent
  BY DEF TopicInv, Result, T!CompletedIsCurrent, CompletedIsCurrent
<1> QED BY <1>1, TopicInductive, TopicsAssumption, PTL

\* A topic that says SYNCED has its title and its chapters in topic-map.md
\* (fence_topic_markdown_publication).
THEOREM SyncedCurrent == T!Spec => []SyncedMapIsCurrent
<1>1. TopicInv => SyncedMapIsCurrent
  BY DEF TopicInv, T!SyncedMapIsCurrent, SyncedMapIsCurrent
<1> QED BY <1>1, TopicInductive, TopicsAssumption, PTL
=============================================================================
