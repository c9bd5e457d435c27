----------------------------- MODULE EventStream -----------------------------
(***************************************************************************)
(* The event stream of a batch: Scheduler._emit numbers the events, keeps  *)
(* the last ones in a ring buffer (serving/ring_buffer.py) and puts each   *)
(* into the bounded queue of every subscriber; a sender coroutine per web  *)
(* socket first sends the replayed events and then its queue.  A client    *)
(* that was cut off connects again with the last sequence number it saw.   *)
(* _purge_terminal_batches forgets batches that ended.                     *)
(*                                                                         *)
(* How a batch comes to its events and to its end is the business of       *)
(* BatchScheduler.tla.  The web socket delivers in order; what it loses    *)
(* when it breaks is a suffix.                                             *)
(***************************************************************************)
EXTENDS Integers, SequencesExt, FiniteSetsExt

CONSTANTS
    Batches, Clients,
    Follows,        \* Follows[c]: the batch that client c subscribes to
    RingMax,        \* RING_BUFFER_MAX
    QueueMax,       \* subscriber_queue_max
    MaxSubscribers, \* max_subscribers_per_batch
    MaxHistory,     \* max_history_batches
    MaxSeq,         \* bound of the model: events of a batch before BATCH_DONE
    MaxDrops        \* bound of the model: connections that break

ASSUME StreamAssumption ==
    /\ Follows \in [Clients -> Batches] /\ MaxHistory \in Nat /\ MaxDrops \in Nat
    /\ {RingMax, QueueMax, MaxSubscribers, MaxSeq} \subseteq Nat \ {0}

VARIABLES
    known,      \* the batches in self._batches, with their buffer and counter
    finished,   \* the finalized ones of them, in the order of finished_at
    expired,    \* those whose buffer is older than its TTL
    busy,       \* the batches with a coroutine that is not done
    nextSeq,    \* nextSeq[b]: _seq_counters[b]; kept as history after a purge
    ring,       \* ring[b]: the EventRingBuffer of b
    conn,       \* conn[c]: "off", "open" (registered), or "lost": the client is
                \* gone and the server has not noticed
    replay,     \* replay[c]: replayed events the sender has not sent yet
    queue,      \* queue[c]: _subscriber_queues[b][ws]
    received,   \* received[c]: every event the client got, over all connections
    gone,       \* the clients that were told 4410 batch_gone
    drops       \* connections that broke so far

streamVars == <<known, finished, expired, busy, nextSeq, ring>>
clientVars == <<conn, replay, queue, received, gone, drops>>
vars == <<streamVars, clientVars>>

Event == [seq : Nat, event : {"STATE", "BATCH_DONE"}]
Subscribers(b, conns) == {c \in Clients : Follows[c] = b /\ conns[c] # "off"}
Finalized == Range(finished)

TypeOK ==
    /\ known \subseteq Batches /\ busy \subseteq known /\ Finalized \subseteq known
    /\ IsInjective(finished) /\ expired \subseteq Finalized
    /\ nextSeq \in [Batches -> Nat]
    /\ \A b \in Batches : ring[b] \in Seq(Event) /\ Len(ring[b]) <= RingMax
    /\ conn \in [Clients -> {"off", "open", "lost"}]
    /\ \A c \in Clients :
        /\ replay[c] \in Seq(Event) /\ received[c] \in Seq(Event)
        /\ queue[c] \in Seq(Event) /\ Len(queue[c]) <= QueueMax
    /\ \A b \in Batches : Cardinality(Subscribers(b, conn)) <= MaxSubscribers
    /\ gone \subseteq Clients /\ drops \in 0..MaxDrops

Init ==
    /\ known = {} /\ finished = <<>> /\ expired = {} /\ busy = {}
    /\ nextSeq = [b \in Batches |-> 0] /\ ring = [b \in Batches |-> <<>>]
    /\ conn = [c \in Clients |-> "off"]
    /\ replay = [c \in Clients |-> <<>>] /\ queue = [c \in Clients |-> <<>>]
    /\ received = [c \in Clients |-> <<>>] /\ gone = {} /\ drops = 0

-----------------------------------------------------------------------------
(* _purge_terminal_batches *)

\* Of the finalized batches fin, those without subscriber and coroutine (work):
\* the expired ones, and the oldest of the others while there are too many.
ToPurge(fin, work, conns) ==
    LET idle(b) == b \notin work /\ Subscribers(b, conns) = {}
        old == {b \in Range(fin) : idle(b) /\ b \in expired}
        rest == SelectSeq(fin, LAMBDA b : idle(b) /\ b \notin old)
        excess == Len(fin) - Cardinality(old) - MaxHistory
    IN old \cup {rest[i] : i \in {j \in DOMAIN rest : j <= excess}}

\* The batches bs, buffers rs, finalized fin, coroutines work and connections
\* conns as the caller left them, purged.
Purge(bs, rs, fin, work, conns) ==
    LET gonners == ToPurge(fin, work, conns)
    IN /\ known' = bs \ gonners /\ busy' = work
       /\ finished' = SelectSeq(fin, LAMBDA b : b \notin gonners)
       /\ expired' = expired \ gonners
       /\ ring' = [b \in Batches |-> IF b \in gonners THEN <<>> ELSE rs[b]]

-----------------------------------------------------------------------------
(* _emit *)

\* deque(maxlen=...): the oldest event falls out.
Push(r, e) == IF Len(r) < RingMax THEN Append(r, e) ELSE Append(Tail(r), e)

\* Mutant: an event that does not fit is dropped, the subscriber stays.
BroadcastLossy(b, e) ==
    /\ queue' = [c \in Clients |-> IF c \in Subscribers(b, conn) /\ Len(queue[c]) < QueueMax
                                   THEN Append(queue[c], e) ELSE queue[c]]
    /\ UNCHANGED <<conn, replay>>

\* A subscriber whose queue is full is discarded and its sender cancelled.
Broadcast(b, e) ==
    LET full == {c \in Subscribers(b, conn) : Len(queue[c]) >= QueueMax}
    IN /\ queue' = [c \in Clients |-> IF c \in full THEN <<>>
                                      ELSE IF c \in Subscribers(b, conn) THEN Append(queue[c], e)
                                      ELSE queue[c]]
       /\ replay' = [c \in Clients |-> IF c \in full THEN <<>> ELSE replay[c]]
       /\ conn' = [c \in Clients |-> IF c \in full THEN "off" ELSE conn[c]]

NextEvent(b, kind) == [seq |-> nextSeq[b], event |-> kind]

\* submit_batch purges, registers the batch and emits BATCH_STATE; a batch
\* without files has no coroutine.
Submit(b) ==
    /\ nextSeq[b] = 0 /\ nextSeq' = [nextSeq EXCEPT ![b] = 1]
    /\ \E work \in {busy, busy \cup {b}} :
        Purge(known \cup {b}, [ring EXCEPT ![b] = <<NextEvent(b, "STATE")>>], finished, work, conn)
    /\ UNCHANGED clientVars

\* Any event but BATCH_DONE; a finalized batch drops it.
Emit(b) ==
    /\ b \in known \ Finalized /\ nextSeq[b] < MaxSeq
    /\ ring' = [ring EXCEPT ![b] = Push(@, NextEvent(b, "STATE"))]
    /\ nextSeq' = [nextSeq EXCEPT ![b] = @ + 1]
    /\ Broadcast(b, NextEvent(b, "STATE"))
    /\ UNCHANGED <<known, finished, expired, busy, received, gone, drops>>

\* _finalize_batch_locked emits BATCH_DONE, and purges.
Finalize(b) ==
    /\ b \in known \ Finalized
    /\ nextSeq' = [nextSeq EXCEPT ![b] = @ + 1]
    /\ Broadcast(b, NextEvent(b, "BATCH_DONE"))
    /\ LET r == [ring EXCEPT ![b] = Push(@, NextEvent(b, "BATCH_DONE"))]
       IN Purge(known, r, Append(finished, b), busy, conn')
    /\ UNCHANGED <<received, gone, drops>>

\* The last coroutine of b ends: _on_batch_task_done purges.
TasksEnd(b) ==
    /\ b \in busy
    /\ Purge(known, ring, finished, busy \ {b}, conn)
    /\ UNCHANGED <<nextSeq, clientVars>>

\* The TTL of a buffer passes; before the batch ends nobody asks for it.
Expire(b) ==
    /\ b \in Finalized /\ expired' = expired \cup {b}
    /\ UNCHANGED <<known, finished, busy, nextSeq, ring, clientVars>>

-----------------------------------------------------------------------------
(* Connections *)

LastSeen(c) == IF received[c] = <<>> THEN -1 ELSE Last(received[c]).seq

\* EventRingBuffer.replay: the events of the buffer, in order, that are newer.
Replay(r, since) ==
    LET newer[i \in 0..Len(r)] ==
            IF i = 0 THEN <<>>
            ELSE IF r[i].seq > since THEN Append(newer[i - 1], r[i])
            ELSE newer[i - 1]
    IN newer[Len(r)]

\* The first half of replay_and_subscribe: a purge, and 4410 for a batch that
\* is not known.
ConnectGone(c) ==
    /\ conn[c] = "off" /\ c \notin gone /\ nextSeq[Follows[c]] > 0
    /\ Purge(known, ring, finished, busy, conn)
    /\ Follows[c] \notin known' /\ gone' = gone \cup {c}
    /\ UNCHANGED <<nextSeq, conn, replay, queue, received, drops>>

\* At the limit the client is sent away (4429).
ConnectRefused(c) ==
    /\ conn[c] = "off" /\ c \notin gone
    /\ Purge(known, ring, finished, busy, conn)
    /\ Follows[c] \in known'
    /\ Cardinality(Subscribers(Follows[c], conn)) >= MaxSubscribers
    /\ UNCHANGED <<nextSeq, clientVars>>

\* The second half: the replay is read and the subscriber registered without a
\* suspension in between.
Connect(c) ==
    /\ conn[c] = "off" /\ c \notin gone
    /\ Purge(known, ring, finished, busy, conn)
    /\ Follows[c] \in known'
    /\ Cardinality(Subscribers(Follows[c], conn)) < MaxSubscribers
    /\ conn' = [conn EXCEPT ![c] = "open"]
    /\ replay' = [replay EXCEPT ![c] = Replay(ring[Follows[c]], LastSeen(c))]
    /\ UNCHANGED <<nextSeq, queue, received, gone, drops>>

\* _send_subscriber: the replayed events first, then the queue.
SendReplayed(c) ==
    /\ conn[c] = "open" /\ replay[c] # <<>>
    /\ received' = [received EXCEPT ![c] = Append(@, Head(replay[c]))]
    /\ replay' = [replay EXCEPT ![c] = Tail(@)]
    /\ UNCHANGED <<streamVars, conn, queue, gone, drops>>

\* Mutant: the queue is drained although the replay is not finished.
SendEagerly(c) ==
    /\ conn[c] = "open" /\ queue[c] # <<>>
    /\ received' = [received EXCEPT ![c] = Append(@, Head(queue[c]))]
    /\ queue' = [queue EXCEPT ![c] = Tail(@)]
    /\ UNCHANGED <<streamVars, conn, replay, gone, drops>>

SendQueued(c) ==
    /\ conn[c] = "open" /\ replay[c] = <<>> /\ queue[c] # <<>>
    /\ received' = [received EXCEPT ![c] = Append(@, Head(queue[c]))]
    /\ queue' = [queue EXCEPT ![c] = Tail(@)]
    /\ UNCHANGED <<streamVars, conn, replay, gone, drops>>

\* The connection breaks.
Break(c) ==
    /\ conn[c] = "open" /\ drops < MaxDrops /\ drops' = drops + 1
    /\ conn' = [conn EXCEPT ![c] = "lost"]
    /\ UNCHANGED <<streamVars, replay, queue, received, gone>>

\* A send or the receive loop of ws_batch fails, and the subscriber is removed.
Notice(c) ==
    /\ conn[c] = "lost" /\ conn' = [conn EXCEPT ![c] = "off"]
    /\ replay' = [replay EXCEPT ![c] = <<>>] /\ queue' = [queue EXCEPT ![c] = <<>>]
    /\ UNCHANGED <<streamVars, received, gone, drops>>

-----------------------------------------------------------------------------
Next ==
    \/ \E b \in Batches :
        Submit(b) \/ Emit(b) \/ Finalize(b) \/ TasksEnd(b) \/ Expire(b)
    \/ \E c \in Clients :
        \/ ConnectGone(c) \/ ConnectRefused(c) \/ Connect(c)
        \/ SendReplayed(c) \/ SendQueued(c)
        \/ Break(c) \/ Notice(c)

Spec == Init /\ [][Next]_vars

-----------------------------------------------------------------------------
(* Safety *)

Oldest(b) == IF ring[b] = <<>> THEN nextSeq[b] ELSE Head(ring[b]).seq

\* Over any number of connections a client gets the events of its batch in
\* order and none twice, and misses only what the ring buffer has dropped.
NoGapNoDuplicate ==
    \A c \in Clients :
        /\ \A i \in 2..Len(received[c]) : received[c][i - 1].seq < received[c][i].seq
        /\ \A s \in 0..LastSeen(c) :
            s \in {received[c][i].seq : i \in DOMAIN received[c]} \/ s < Oldest(Follows[c])

\* What is under way to an open connection is everything from its first event
\* to the latest one: no event falls between the replay and the registration,
\* and one that does not fit costs the connection, never the event alone.
BacklogReachesTheEnd ==
    \A c \in Clients :
        LET todo == replay[c] \o queue[c]
            end == nextSeq[Follows[c]] - 1
        IN conn[c] = "open" =>
            /\ \A i \in DOMAIN todo : todo[i].seq = end - Len(todo) + i
            /\ todo = <<>> => LastSeen(c) = end
=============================================================================
