---------------------------- MODULE ServingProofs ----------------------------
(***************************************************************************)
(* What TLAPS proves of module Serving: of the event streams, for any      *)
(* number of batches, clients, events and connections that break, and any  *)
(* sizes of the buffers; of the choice of a request, for any batches,      *)
(* priorities, slots and burst.                                            *)
(***************************************************************************)
EXTENDS Serving, SequenceTheorems, FiniteSetTheorems, WellFoundedInduction, TLAPS

\* The events of s are the last ones before number end.
UpTo(s, end) == s \in Seq(Event) /\ \A i \in 1..Len(s) : s[i].seq = end - Len(s) + i - 1

\* The number of the last event of a history, and those of all of them.
LastOf(h) == IF h = <<>> THEN -1 ELSE h[Len(h)].seq
SeqsOf(h) == {h[i].seq : i \in DOMAIN h}

\* What is under way to a client that saw number last: everything up to end but
\* what is older than the buffer.
Complete(todo, last, end, oldest) ==
    /\ UpTo(todo, end)
    /\ todo = <<>> => last = end - 1
    /\ todo # <<>> => /\ last < todo[1].seq
                      /\ \A s \in (last + 1)..(todo[1].seq - 1) : s < oldest

\* What a client has got: in order, none twice, without a gap but by the buffer.
Orderly(h, end, oldest) ==
    /\ h \in Seq(Event) /\ LastOf(h) < end
    /\ \A i \in 2..Len(h) : h[i - 1].seq < h[i].seq
    /\ \A s \in 0..LastOf(h) : s \in SeqsOf(h) \/ s < oldest

Typed ==
    /\ known \subseteq Batches
    /\ nextSeq \in [Batches -> Nat] /\ ring \in [Batches -> Seq(Event)]
    /\ conn \in [Clients -> {"off", "open", "lost"}]
    /\ {replay, queue, received} \subseteq [Clients -> Seq(Event)]

\* The buffer of a batch reaches to its last event, and a known batch has one.
Rings ==
    \A b \in Batches :
        /\ UpTo(ring[b], nextSeq[b])
        /\ b \in known => ring[b] # <<>>

\* The number below which the buffer of b has dropped everything.
Floor(b) == nextSeq[b] - Len(ring[b])

\* A client is only connected to a batch that has begun; nothing is under way
\* to one that is not connected.
Client(c) ==
    LET b == Follows[c]
    IN /\ conn[c] = "off" => replay[c] = <<>> /\ queue[c] = <<>>
       /\ conn[c] # "off" =>
             /\ nextSeq[b] > 0
             /\ Complete(replay[c] \o queue[c], LastOf(received[c]), nextSeq[b], Floor(b))
       /\ Orderly(received[c], nextSeq[b], Floor(b))

IInv == Typed /\ Rings /\ \A c \in Clients : Client(c)

-----------------------------------------------------------------------------
(* Sequences of events *)

LEMMA EventSeq ==
    ASSUME NEW s \in Seq(Event)
    PROVE  /\ Len(s) \in Nat /\ DOMAIN s = 1..Len(s) /\ (s = <<>> <=> Len(s) = 0)
           /\ \A i \in 1..Len(s) : s[i] \in Event /\ s[i].seq \in Nat
<1>1. Len(s) \in Nat /\ DOMAIN s = 1..Len(s) /\ (s = <<>> <=> Len(s) = 0)
  BY LenProperties, EmptySeq
<1>2. \A i \in 1..Len(s) : s[i] \in Event
  BY ElementOfSeq
<1> QED
  BY <1>1, <1>2 DEF Event

LEMMA Appended ==
    ASSUME NEW s \in Seq(Event), NEW e \in Event
    PROVE  /\ Append(s, e) \in Seq(Event) /\ Append(s, e) # <<>>
           /\ Len(Append(s, e)) = Len(s) + 1
           /\ \A i \in 1..Len(s) : Append(s, e)[i] = s[i]
           /\ Append(s, e)[Len(s) + 1] = e
  BY AppendProperties

LEMMA Tailed ==
    ASSUME NEW s \in Seq(Event), s # <<>>
    PROVE  /\ Tail(s) \in Seq(Event) /\ Len(Tail(s)) = Len(s) - 1
           /\ \A i \in 1..Len(Tail(s)) : Tail(s)[i] = s[i + 1]
           /\ Head(s) = s[1] /\ Head(s) \in Event
  BY HeadTailProperties, EventSeq

LEMMA Joined ==
    ASSUME NEW s \in Seq(Event), NEW t \in Seq(Event)
    PROVE  /\ s \o t \in Seq(Event) /\ Len(s \o t) = Len(s) + Len(t)
           /\ \A i \in 1..Len(s) + Len(t) : (s \o t)[i] =
                  IF i <= Len(s) THEN s[i] ELSE t[i - Len(s)]
  BY ConcatProperties

LEMMA JoinAppend ==
    ASSUME NEW s \in Seq(Event), NEW t \in Seq(Event), NEW e \in Event
    PROVE  s \o Append(t, e) = Append(s \o t, e)
<1> DEFINE x == s \o Append(t, e)
           y == Append(s \o t, e)
<1>1. Len(s) \in Nat /\ Len(t) \in Nat
  BY EventSeq
<1>2. s \o t \in Seq(Event) /\ Append(t, e) \in Seq(Event)
  BY Joined, Appended
<1>3. x \in Seq(Event) /\ y \in Seq(Event)
  BY <1>2, Joined, Appended
<1>4. Len(x) = Len(s) + Len(t) + 1 /\ Len(y) = Len(s) + Len(t) + 1
  BY <1>1, <1>2, Joined, Appended
<1>5. ASSUME NEW i \in 1..Len(x) PROVE x[i] = y[i]
  <2>1. x[i] = IF i <= Len(s) THEN s[i] ELSE Append(t, e)[i - Len(s)]
    BY <1>1, <1>2, <1>4, Joined, Appended
  <2>2. CASE i <= Len(s) + Len(t)
    <3>1. y[i] = (s \o t)[i] /\ i \in 1..Len(s) + Len(t)
      BY <1>1, <1>2, <1>4, <2>2, Joined, Appended
    <3>2. (s \o t)[i] = IF i <= Len(s) THEN s[i] ELSE t[i - Len(s)]
      BY <3>1, Joined
    <3>3. ~(i <= Len(s)) => Append(t, e)[i - Len(s)] = t[i - Len(s)]
      <4>1. ~(i <= Len(s)) => i - Len(s) \in 1..Len(t)
        BY <1>1, <3>1
      <4> QED
        BY <4>1, Appended
    <3> QED
      BY <2>1, <3>1, <3>2, <3>3
  <2>3. CASE i = Len(s) + Len(t) + 1
    <3>1. y[i] = e
      BY <1>1, <1>2, <2>3, Joined, Appended
    <3>2. ~(i <= Len(s)) /\ i - Len(s) = Len(t) + 1
      BY <1>1, <2>3
    <3>3. Append(t, e)[Len(t) + 1] = e
      BY Appended
    <3> QED
      BY <2>1, <3>1, <3>2, <3>3
  <2> QED
    BY <1>1, <1>4, <2>2, <2>3
<1> QED
  BY <1>3, <1>4, <1>5, SeqEqual

LEMMA JoinTail ==
    ASSUME NEW s \in Seq(Event), NEW t \in Seq(Event), s # <<>>
    PROVE  /\ s \o t # <<>> /\ Head(s \o t) = Head(s)
           /\ Tail(s \o t) = Tail(s) \o t
<1> DEFINE x == Tail(s \o t)
           y == Tail(s) \o t
<1>1. Len(s) \in Nat /\ Len(t) \in Nat /\ Len(s) > 0
  BY EventSeq
<1>2. s \o t \in Seq(Event) /\ s \o t # <<>> /\ Tail(s) \in Seq(Event)
  BY <1>1, Joined, Tailed, EventSeq
<1>3. x \in Seq(Event) /\ y \in Seq(Event)
  BY <1>2, Joined, Tailed
<1>4. Len(x) = Len(s) + Len(t) - 1 /\ Len(y) = Len(s) + Len(t) - 1
  BY <1>1, <1>2, Joined, Tailed
<1>5. ASSUME NEW i \in 1..Len(x) PROVE x[i] = y[i]
  <2>1. x[i] = (s \o t)[i + 1] /\ i + 1 \in 1..Len(s) + Len(t)
    BY <1>1, <1>2, <1>4, Tailed
  <2>2. x[i] = IF i + 1 <= Len(s) THEN s[i + 1] ELSE t[i + 1 - Len(s)]
    BY <2>1, Joined
  <2>3. y[i] = IF i <= Len(Tail(s)) THEN Tail(s)[i] ELSE t[i - Len(Tail(s))]
    BY <1>1, <1>2, <1>4, Joined, Tailed
  <2>4. Len(Tail(s)) = Len(s) - 1
    BY Tailed
  <2>5. CASE i + 1 <= Len(s)
    <3>1. i \in 1..Len(Tail(s))
      BY <1>1, <2>4, <2>5
    <3>2. Tail(s)[i] = s[i + 1]
      BY <3>1, Tailed
    <3> QED
      BY <2>2, <2>3, <2>5, <3>1, <3>2
  <2>6. CASE ~(i + 1 <= Len(s))
    <3>1. ~(i <= Len(Tail(s))) /\ i + 1 - Len(s) = i - Len(Tail(s))
      BY <1>1, <2>4, <2>6
    <3> QED
      BY <2>2, <2>3, <2>6, <3>1
  <2> QED
    BY <2>5, <2>6
<1>6. Head(s \o t) = Head(s)
  <2>1. Head(s \o t) = (s \o t)[1] /\ Head(s) = s[1]
    BY <1>2, Tailed
  <2>2. (s \o t)[1] = s[1]
    BY <1>1, Joined
  <2> QED
    BY <2>1, <2>2
<1> QED
  BY <1>2, <1>3, <1>4, <1>5, <1>6, SeqEqual

-----------------------------------------------------------------------------
(* Buffers and backlogs *)

\* The next event follows.
LEMMA AppendUpTo ==
    ASSUME NEW end \in Nat, NEW s, UpTo(s, end), NEW e \in Event, e.seq = end
    PROVE  UpTo(Append(s, e), end + 1)
<1>1. s \in Seq(Event) /\ Len(s) \in Nat
  BY EventSeq DEF UpTo
<1>2. Append(s, e) \in Seq(Event) /\ Len(Append(s, e)) = Len(s) + 1
  BY <1>1, Appended
<1>3. ASSUME NEW i \in 1..Len(s) + 1
      PROVE  Append(s, e)[i].seq = end + 1 - (Len(s) + 1) + i - 1
  <2>1. CASE i \in 1..Len(s)
    <3>1. Append(s, e)[i].seq = end - Len(s) + i - 1
      BY <1>1, <2>1, Appended DEF UpTo
    <3> QED
      BY <1>1, <3>1
  <2>2. CASE i = Len(s) + 1
    BY <1>1, <2>2, Appended
  <2> QED
    BY <1>1, <2>1, <2>2
<1> QED
  BY <1>2, <1>3 DEF UpTo

LEMMA TailUpTo ==
    ASSUME NEW end \in Nat, NEW s, UpTo(s, end), s # <<>>
    PROVE  /\ UpTo(Tail(s), end) /\ Head(s).seq = end - Len(s)
           /\ Tail(s) # <<>> => Tail(s)[1].seq = Head(s).seq + 1
           /\ Tail(s) = <<>> => Head(s).seq = end - 1
<1>1. s \in Seq(Event) /\ Len(s) \in Nat /\ Len(s) > 0
  BY EventSeq DEF UpTo
<1>2. Tail(s) \in Seq(Event) /\ Len(Tail(s)) = Len(s) - 1 /\ Head(s) = s[1]
  BY <1>1, Tailed
<1>3. Tail(s) = <<>> <=> Len(Tail(s)) = 0
  BY <1>2, EventSeq
<1>4. s[1].seq = end - Len(s)
  BY <1>1 DEF UpTo
<1>5. ASSUME NEW i \in 1..Len(Tail(s))
      PROVE  Tail(s)[i].seq = end - Len(Tail(s)) + i - 1
  <2>1. Tail(s)[i] = s[i + 1] /\ i + 1 \in 1..Len(s)
    BY <1>1, <1>2, Tailed
  <2>2. s[i + 1].seq = end - Len(s) + (i + 1) - 1
    BY <2>1 DEF UpTo
  <2> QED
    BY <1>1, <1>2, <2>1, <2>2
<1>6. UpTo(Tail(s), end)
  BY <1>2, <1>5 DEF UpTo
<1>7. Tail(s) # <<>> => Tail(s)[1].seq = end - Len(s) + 1
  <2> SUFFICES ASSUME Tail(s) # <<>> PROVE Tail(s)[1].seq = end - Len(s) + 1
    OBVIOUS
  <2>1. 1 \in 1..Len(Tail(s))
    BY <1>1, <1>2, <1>3
  <2> QED
    BY <1>1, <1>2, <1>5, <2>1
<1> QED
  BY <1>1, <1>2, <1>3, <1>4, <1>6, <1>7

\* A full buffer loses its oldest event.
LEMMA PushUpTo ==
    ASSUME NEW end \in Nat, NEW r, UpTo(r, end), NEW e \in Event, e.seq = end
    PROVE  /\ UpTo(Push(r, e), end + 1) /\ Push(r, e) # <<>>
           /\ Len(Push(r, e)) <= Len(r) + 1
<1>1. r \in Seq(Event) /\ Len(r) \in Nat
  BY EventSeq DEF UpTo
<1>2. CASE Len(r) < RingMax
  BY <1>1, <1>2, AppendUpTo, Appended DEF Push
<1>3. CASE ~(Len(r) < RingMax)
  <2>1. r # <<>>
    BY <1>1, <1>3, EventSeq, StreamAssumption
  <2>2. UpTo(Tail(r), end) /\ Tail(r) \in Seq(Event) /\ Len(Tail(r)) = Len(r) - 1
    BY <1>1, <2>1, TailUpTo, Tailed
  <2>3. Push(r, e) = Append(Tail(r), e)
    BY <1>3 DEF Push
  <2>4. UpTo(Append(Tail(r), e), end + 1)
    BY <2>2, AppendUpTo
  <2>5. Append(Tail(r), e) # <<>> /\ Len(Append(Tail(r), e)) = Len(Tail(r)) + 1
    BY <2>2, Appended
  <2> QED
    BY <1>1, <2>2, <2>3, <2>4, <2>5
<1> QED
  BY <1>2, <1>3

-----------------------------------------------------------------------------
(* The replay: the newer events of the buffer *)

\* The least number principle.
Below == {ns \in Nat \X Nat : ns[1] < ns[2]}
LEMMA Least ==
    ASSUME NEW T \in SUBSET Nat, T # {}
    PROVE  \E n \in T : \A m \in T : n <= m
<1>1. IsWellFoundedOn(Below, Nat)
  BY NatLessThanWellFounded DEF OpToRel, Below
<1>2. PICK n \in T : \A m \in T : ~(<<m, n>> \in Below)
  BY <1>1, WFMin
<1>3. \A m \in T : ~(m < n)
  BY <1>2 DEF Below
<1> QED
  BY <1>3

\* How many events of the buffer r the client has seen or missed.
Seen(r, end, since) ==
    IF since < end - Len(r) THEN 0
    ELSE IF since >= end - 1 THEN Len(r)
    ELSE since - (end - Len(r)) + 1

\* What the recursion comes to: nothing of the events seen, all of the others.
LEMMA ReplayIsSuffix ==
    ASSUME NEW end \in Nat, NEW r, UpTo(r, end), NEW since \in Int
    PROVE  Replay(r, since) = SubSeq(r, Seen(r, end, since) + 1, Len(r))
<1> DEFINE n == Len(r)
           k == Seen(r, end, since)
           step(F, i) == IF i = 0 THEN <<>>
                         ELSE IF r[i].seq > since THEN Append(F[i - 1], r[i])
                         ELSE F[i - 1]
           G == [i \in 0..n |-> SubSeq(r, k + 1, i)]
           newer == CHOOSE F : F = [i \in 0..n |-> step(F, i)]
<1>1. r \in Seq(Event) /\ n \in Nat
  BY EventSeq DEF UpTo
<1>2. k \in 0..n /\ \A i \in 1..n : r[i].seq > since <=> i > k
  <2>1. \A i \in 1..n : r[i].seq = end - n + i - 1
    BY DEF UpTo
  <2> QED
    BY <1>1, <2>1 DEF Seen
<1> HIDE DEF k
<1>3. \A i \in 0..n : i <= k => SubSeq(r, k + 1, i) = <<>>
  BY <1>1, <1>2, SubSeqEmpty
<1>4. \A i \in 1..n : i > k =>
        SubSeq(r, k + 1, i) = Append(SubSeq(r, k + 1, i - 1), r[i])
  <2> SUFFICES ASSUME NEW i \in 1..n, i > k
               PROVE  SubSeq(r, k + 1, i) = Append(SubSeq(r, k + 1, i - 1), r[i])
    OBVIOUS
  <2>1. k + 1 \in 1..Len(r) /\ i \in (k + 1)..Len(r)
    BY <1>1, <1>2
  <2>2. SubSeq(r, k + 1, i) = SubSeq(r, k + 1, i - 1) \o <<r[i]>>
    BY <1>1, <2>1, SubSeqRecursiveSecond
  <2>3. SubSeq(r, k + 1, i - 1) \in Seq(Event)
    <3>1. \A j \in (k + 1)..(i - 1) : r[j] \in Event
      BY <1>1, <1>2, EventSeq
    <3>2. k + 1 \in Int /\ i - 1 \in Int
      BY <1>1, <1>2
    <3> QED
      BY <3>1, <3>2, SubSeqProperties
  <2>4. r[i] \in Event
    BY <1>1, EventSeq
  <2> QED
    BY <2>2, <2>3, <2>4, AppendIsConcat
<1>5. \A i \in 0..n : SubSeq(r, k + 1, i) = step(G, i)
  <2> SUFFICES ASSUME NEW i \in 0..n PROVE SubSeq(r, k + 1, i) = step(G, i)
    OBVIOUS
  <2>1. CASE i = 0
    BY <1>2, <1>3, <2>1
  <2>2. CASE i # 0 /\ i > k
    <3>1. i \in 1..n /\ i - 1 \in 0..n
      BY <1>1, <2>2
    <3>2. G[i - 1] = SubSeq(r, k + 1, i - 1)
      BY <3>1
    <3> QED
      BY <1>2, <1>4, <2>2, <3>1, <3>2
  <2>3. CASE i # 0 /\ ~(i > k)
    <3>1. i \in 1..n /\ i - 1 \in 0..n /\ i <= k /\ i - 1 <= k
      BY <1>1, <1>2, <2>3
    <3>2. G[i - 1] = SubSeq(r, k + 1, i - 1)
      BY <3>1
    <3> QED
      BY <1>2, <1>3, <2>3, <3>1, <3>2
  <2> QED
    BY <2>1, <2>2, <2>3
<1>6. newer = [i \in 0..n |-> step(newer, i)]
  <2>1. G = [i \in 0..n |-> step(G, i)]
    BY <1>5
  <2> HIDE DEF G, step
  <2> QED
    BY <2>1
<1>7. \A i \in 0..n : newer[i] = SubSeq(r, k + 1, i)
  <2> DEFINE Wrong == {i \in 0..n : newer[i] # SubSeq(r, k + 1, i)}
  <2>1. ASSUME Wrong # {} PROVE FALSE
    <3>1. Wrong \in SUBSET Nat
      BY <1>1
    <3> HIDE DEF Wrong
    <3>2. PICK m \in Wrong : \A j \in Wrong : m <= j
      BY <2>1, <3>1, Least
    <3> USE DEF Wrong
    <3>3. m \in 0..n /\ newer[m] # SubSeq(r, k + 1, m) /\ newer[m] = step(newer, m)
      BY <1>6, <3>2
    <3>4. m # 0 => m - 1 \in 0..n /\ m - 1 \notin Wrong
      <4>1. m \in Nat /\ (m # 0 => m - 1 \in 0..n /\ ~(m <= m - 1))
        <5>1. m \in 0..n /\ Len(r) \in Nat
          BY <1>1, <3>3
        <5> HIDE DEF Wrong, newer
        <5> QED
          BY <5>1
      <4> HIDE DEF Wrong
      <4> QED
        BY <3>2, <4>1
    <3>5. m # 0 => newer[m - 1] = SubSeq(r, k + 1, m - 1) /\ G[m - 1] = newer[m - 1]
      BY <3>4
    <3>6. step(newer, m) = step(G, m)
      <4> HIDE DEF newer, G, Wrong
      <4>1. m # 0 => newer[m - 1] = G[m - 1]
        BY <3>5
      <4> QED
        BY <4>1
    <3> QED
      BY <1>5, <3>3, <3>6
  <2> QED
    BY <2>1
<1>8. Replay(r, since) = newer[n]
  BY DEF Replay
<1> HIDE DEF newer
<1>9. newer[n] = SubSeq(r, k + 1, n)
  BY <1>1, <1>7
<1> QED
  BY <1>8, <1>9 DEF k

\* A replay reaches the end, and starts after the last number the client saw,
\* or with the oldest event of the buffer.
LEMMA ReplayCompletes ==
    ASSUME NEW end \in Nat, NEW r, UpTo(r, end), r # <<>>,
           NEW since \in Int, since < end
    PROVE  Complete(Replay(r, since), since, end, end - Len(r))
<1> DEFINE n == Len(r)
           k == Seen(r, end, since)
           q == Replay(r, since)
<1>1. r \in Seq(Event) /\ n \in Nat /\ n > 0
  BY EventSeq DEF UpTo
<1>2. /\ k \in 0..n /\ (k = n => since = end - 1)
      /\ k < n => (since < end - n /\ k = 0) \/ since = end - n + k - 1
      /\ k < n => since < end - n + k
  BY <1>1 DEF Seen
<1>3. q = SubSeq(r, k + 1, n)
  BY ReplayIsSuffix
<1> HIDE DEF k, q
<1>4. q \in Seq(Event) /\ Len(q) = n - k /\ \A i \in 1..n - k : q[i] = r[k + i]
  <2>1. \A j \in (k + 1)..n : r[j] \in Event
    BY <1>1, <1>2, EventSeq
  <2>2. k + 1 \in Int /\ n \in Int
    BY <1>1, <1>2
  <2> HIDE DEF n
  <2>3. /\ SubSeq(r, k + 1, n) \in Seq(Event)
        /\ Len(SubSeq(r, k + 1, n)) = IF k + 1 <= n THEN n - (k + 1) + 1 ELSE 0
        /\ \A i \in 1..n - (k + 1) + 1 : SubSeq(r, k + 1, n)[i] = r[(k + 1) + i - 1]
    BY <2>1, <2>2, SubSeqProperties
  <2>4. \A i \in 1..n - k : i \in 1..n - (k + 1) + 1 /\ (k + 1) + i - 1 = k + i
    BY <1>1, <1>2, <2>2
  <2>5. (IF k + 1 <= n THEN n - (k + 1) + 1 ELSE 0) = n - k
    BY <1>2, <2>2 DEF n
  <2> QED
    BY <1>3, <2>3, <2>4, <2>5
<1>5. ASSUME NEW i \in 1..Len(q) PROVE q[i].seq = end - Len(q) + i - 1
  <2>1. q[i] = r[k + i] /\ k + i \in 1..n
    BY <1>1, <1>2, <1>4
  <2>2. r[k + i].seq = end - n + (k + i) - 1
    BY <2>1 DEF UpTo
  <2> QED
    BY <1>1, <1>2, <1>4, <2>1, <2>2
<1>6. UpTo(q, end)
  BY <1>4, <1>5 DEF UpTo
<1>7. q = <<>> <=> k = n
  BY <1>1, <1>2, <1>4, EventSeq
<1>8. q # <<>> => q[1].seq = end - n + k
  <2> SUFFICES ASSUME q # <<>> PROVE q[1].seq = end - n + k
    OBVIOUS
  <2>1. 1 \in 1..Len(q) /\ Len(q) = n - k
    BY <1>1, <1>2, <1>4, <1>7
  <2> QED
    BY <1>1, <1>2, <1>5, <2>1
<1>9. q # <<>> => since < q[1].seq /\ \A s \in (since + 1)..(q[1].seq - 1) : s < end - n
  BY <1>1, <1>2, <1>7, <1>8
<1> QED
  BY <1>2, <1>6, <1>7, <1>9 DEF Complete, q

-----------------------------------------------------------------------------
(* What a client has and what is under way to it *)

\* The buffer may lose more of what was seen.
LEMMA OlderComplete ==
    ASSUME NEW oldest \in Int, NEW later \in Int, later >= oldest, NEW end \in Nat,
           NEW todo, NEW last \in Int, Complete(todo, last, end, oldest)
    PROVE  Complete(todo, last, end, later)
<1>1. todo # <<>> => todo[1].seq \in Nat
  <2>1. todo \in Seq(Event)
    BY DEF Complete, UpTo
  <2> QED
    BY <2>1, EventSeq
<1> QED
  BY <1>1 DEF Complete

LEMMA OlderOrderly ==
    ASSUME NEW oldest \in Int, NEW later \in Int, later >= oldest, NEW end \in Nat,
           NEW then \in Nat, then >= end, NEW h, Orderly(h, end, oldest)
    PROVE  Orderly(h, then, later)
<1>1. LastOf(h) \in Int
  <2>1. h \in Seq(Event)
    BY DEF Orderly
  <2>2. h # <<>> => h[Len(h)].seq \in Nat
    BY <2>1, EventSeq
  <2> QED
    BY <2>2 DEF LastOf
<1> QED
  BY <1>1 DEF Orderly

\* The next event is under way too.
LEMMA AppendCompletes ==
    ASSUME NEW end \in Nat, NEW oldest \in Int, NEW last \in Int, NEW todo,
           Complete(todo, last, end, oldest), NEW e \in Event, e.seq = end
    PROVE  Complete(Append(todo, e), last, end + 1, oldest)
<1>1. todo \in Seq(Event) /\ Len(todo) \in Nat /\ (todo = <<>> <=> Len(todo) = 0)
  BY EventSeq DEF Complete, UpTo
<1>2. UpTo(Append(todo, e), end + 1) /\ Append(todo, e) # <<>>
  BY <1>1, AppendUpTo, Appended DEF Complete
<1>3. CASE todo = <<>>
  <2>1. Append(todo, e)[1] = e
    BY <1>1, <1>3, Appended
  <2> QED
    BY <1>2, <1>3, <2>1 DEF Complete
<1>4. CASE todo # <<>>
  <2>1. Append(todo, e)[1] = todo[1]
    BY <1>1, <1>4, Appended
  <2> QED
    BY <1>2, <1>4, <2>1 DEF Complete
<1> QED
  BY <1>3, <1>4

\* The first of what is under way arrives.
LEMMA Arrives ==
    ASSUME NEW end \in Nat, NEW oldest \in Int, NEW todo, NEW h,
           Complete(todo, LastOf(h), end, oldest), Orderly(h, end, oldest), todo # <<>>
    PROVE  /\ LastOf(Append(h, Head(todo))) = Head(todo).seq
           /\ Complete(Tail(todo), Head(todo).seq, end, oldest)
           /\ Orderly(Append(h, Head(todo)), end, oldest)
<1> DEFINE e == Head(todo)
           g == Append(h, e)
<1>1. h \in Seq(Event) /\ Len(h) \in Nat /\ (h = <<>> <=> Len(h) = 0)
  BY EventSeq DEF Orderly
<1>2. todo \in Seq(Event) /\ UpTo(todo, end) /\ Len(todo) \in Nat /\ Len(todo) > 0
  BY EventSeq DEF Complete, UpTo
<1>3. e = todo[1] /\ e \in Event /\ e.seq \in Nat
  BY <1>2, Tailed, EventSeq
<1>4. /\ UpTo(Tail(todo), end) /\ e.seq = end - Len(todo)
      /\ Tail(todo) # <<>> => Tail(todo)[1].seq = e.seq + 1
      /\ Tail(todo) = <<>> => e.seq = end - 1
  BY <1>2, TailUpTo
<1>5. LastOf(h) < e.seq /\ \A s \in (LastOf(h) + 1)..(e.seq - 1) : s < oldest
  BY <1>3 DEF Complete
<1> HIDE DEF e
<1>6. /\ g \in Seq(Event) /\ g # <<>> /\ Len(g) = Len(h) + 1
      /\ \A i \in 1..Len(h) : g[i] = h[i]
      /\ g[Len(h) + 1] = e
  BY <1>1, <1>3, Appended
<1> HIDE DEF g
<1>7. LastOf(g) = e.seq
  BY <1>6 DEF LastOf
<1>8. Complete(Tail(todo), e.seq, end, oldest)
  BY <1>3, <1>4 DEF Complete
<1>9. \A i \in 2..Len(g) : g[i - 1].seq < g[i].seq
  <2> SUFFICES ASSUME NEW i \in 2..Len(g) PROVE g[i - 1].seq < g[i].seq
    OBVIOUS
  <2>1. CASE i \in 2..Len(h)
    <3>1. g[i] = h[i] /\ g[i - 1] = h[i - 1]
      BY <1>1, <1>6, <2>1
    <3> QED
      BY <2>1, <3>1 DEF Orderly
  <2>2. CASE i = Len(h) + 1
    <3>1. g[i] = e /\ i - 1 = Len(h) /\ Len(h) \in 1..Len(h) /\ h # <<>>
      BY <1>1, <1>6, <2>2
    <3>2. g[i - 1] = h[Len(h)] /\ LastOf(h) = h[Len(h)].seq
      BY <1>6, <3>1 DEF LastOf
    <3> QED
      BY <1>5, <3>1, <3>2
  <2> QED
    BY <1>1, <1>6, <2>1, <2>2
<1>10. \A s \in 0..LastOf(g) : s \in SeqsOf(g) \/ s < oldest
  <2> SUFFICES ASSUME NEW s \in 0..LastOf(g) PROVE s \in SeqsOf(g) \/ s < oldest
    OBVIOUS
  <2>1. LastOf(h) \in Int
    BY <1>1, EventSeq DEF LastOf
  <2>2. DOMAIN g = 1..Len(g) /\ DOMAIN h = 1..Len(h)
    BY <1>1, <1>6, EventSeq
  <2>3. CASE s \in 0..LastOf(h)
    <3>1. SeqsOf(h) \subseteq SeqsOf(g)
      BY <1>1, <1>6, <2>2 DEF SeqsOf
    <3> QED
      BY <2>3, <3>1 DEF Orderly
  <2>4. CASE s = e.seq
    <3>1. Len(h) + 1 \in DOMAIN g /\ g[Len(h) + 1].seq = s
      BY <1>1, <1>6, <2>2, <2>4
    <3> QED
      BY <3>1 DEF SeqsOf
  <2>5. CASE s \in (LastOf(h) + 1)..(e.seq - 1)
    BY <1>5, <2>5
  <2> QED
    BY <1>3, <1>7, <2>1, <2>3, <2>4, <2>5
<1>11. LastOf(g) < end
  BY <1>2, <1>3, <1>4, <1>7
<1> QED
  BY <1>6, <1>7, <1>8, <1>9, <1>10, <1>11 DEF Orderly, e, g

-----------------------------------------------------------------------------
(* Steps *)

\* What the parts of the state are, before and after a step.
LEMMA Parts ==
    ASSUME IInv
    PROVE  /\ \A b \in Batches : /\ nextSeq[b] \in Nat /\ ring[b] \in Seq(Event)
                                 /\ Len(ring[b]) \in Nat /\ Floor(b) \in Int
           /\ \A c \in Clients : /\ Follows[c] \in Batches /\ LastOf(received[c]) \in Int
                                 /\ replay[c] \in Seq(Event) /\ queue[c] \in Seq(Event)
                                 /\ received[c] \in Seq(Event)
<1>1. \A b \in Batches : nextSeq[b] \in Nat /\ ring[b] \in Seq(Event)
  BY DEF IInv, Typed
<1>2. \A b \in Batches : Len(ring[b]) \in Nat
  BY <1>1, EventSeq
<1>3. \A b \in Batches : Floor(b) \in Int
  BY <1>1, <1>2 DEF Floor
<1>4. \A c \in Clients : Follows[c] \in Batches
  BY StreamAssumption
<1>5. \A c \in Clients : {replay[c], queue[c], received[c]} \subseteq Seq(Event)
  BY DEF IInv, Typed
<1>6. \A h \in Seq(Event) : LastOf(h) \in Int
  BY EventSeq DEF LastOf
<1> QED
  BY <1>1, <1>2, <1>3, <1>4, <1>5, <1>6

\* What a purge leaves: batches that were there, each with its buffer.
LEMMA Purged ==
    ASSUME NEW bs, NEW rs, NEW fin, NEW work, NEW conns, Purge(bs, rs, fin, work, conns)
    PROVE  /\ known' \subseteq bs
           /\ \E gonners : ring' = [b \in Batches |-> IF b \in gonners THEN <<>> ELSE rs[b]]
           /\ \A b \in Batches : b \in known' => ring'[b] = rs[b]
<1> DEFINE gonners == ToPurge(fin, work, conns)
<1>1. /\ known' = bs \ gonners
      /\ ring' = [b \in Batches |-> IF b \in gonners THEN <<>> ELSE rs[b]]
  BY DEF Purge
<1> HIDE DEF gonners
<1> QED
  BY <1>1

\* A client that the step leaves alone, while its batch may lose its buffer.
LEMMA ClientKept ==
    ASSUME IInv, Typed', NEW c \in Clients,
           nextSeq'[Follows[c]] = nextSeq[Follows[c]],
           Floor(Follows[c])' >= Floor(Follows[c]),
           conn'[c] = conn[c] \/ (conn[c] = "open" /\ conn'[c] = "lost"),
           replay'[c] = replay[c], queue'[c] = queue[c],
           received'[c] = received[c]
    PROVE  Client(c)'
<1> DEFINE b == Follows[c]
<1>1. b \in Batches /\ nextSeq[b] \in Nat /\ Floor(b) \in Int /\ LastOf(received[c]) \in Int
  BY Parts
<1>2. Floor(b)' \in Int
  <2>1. nextSeq'[b] \in Nat /\ ring'[b] \in Seq(Event)
    BY <1>1 DEF Typed
  <2>2. Len(ring'[b]) \in Nat
    BY <2>1, EventSeq
  <2> QED
    BY <2>1, <2>2 DEF Floor
<1>3. Client(c)
  BY DEF IInv
<1> DEFINE m == Floor(b)'
<1>4. m \in Int /\ m >= Floor(b) /\ nextSeq[b] >= nextSeq[b]
  BY <1>1, <1>2
<1> HIDE DEF m
<1>5. Orderly(received[c], nextSeq[b], m)
  BY <1>1, <1>3, <1>4, OlderOrderly DEF Client
<1>6. conn[c] # "off" =>
        Complete(replay[c] \o queue[c], LastOf(received[c]), nextSeq[b], m)
  BY <1>1, <1>3, <1>4, OlderComplete DEF Client
<1> QED
  BY <1>3, <1>5, <1>6 DEF Client, m

\* A client that is not connected after the step.
LEMMA ClientOff ==
    ASSUME IInv, Typed', NEW c \in Clients,
           nextSeq'[Follows[c]] >= nextSeq[Follows[c]],
           Floor(Follows[c])' >= Floor(Follows[c]),
           conn'[c] = "off", replay'[c] = <<>>, queue'[c] = <<>>,
           received'[c] = received[c]
    PROVE  Client(c)'
<1> DEFINE b == Follows[c]
<1>1. b \in Batches /\ nextSeq[b] \in Nat /\ Floor(b) \in Int /\ LastOf(received[c]) \in Int
  BY Parts
<1>2. Floor(b)' \in Int /\ nextSeq'[b] \in Nat
  <2>1. nextSeq'[b] \in Nat /\ ring'[b] \in Seq(Event)
    BY <1>1 DEF Typed
  <2>2. Len(ring'[b]) \in Nat
    BY <2>1, EventSeq
  <2> QED
    BY <2>1, <2>2 DEF Floor
<1>3. Orderly(received[c], nextSeq'[b], Floor(b)')
  <2> DEFINE m == Floor(b)'
             n == nextSeq'[b]
  <2>1. m \in Int /\ n \in Nat /\ m >= Floor(b) /\ n >= nextSeq[b]
    BY <1>2
  <2> HIDE DEF m, n
  <2>2. Orderly(received[c], n, m)
    BY <1>1, <2>1, OlderOrderly DEF IInv, Client
  <2> QED
    BY <2>2 DEF m, n
<1> QED
  BY <1>3 DEF Client

\* The buffers of known batches after a step that only purges.
LEMMA PurgeKeepsRings ==
    ASSUME IInv, nextSeq' = nextSeq, known' \subseteq known,
           \E gonners : ring' = [b \in Batches |-> IF b \in gonners THEN <<>> ELSE ring[b]],
           \A b \in Batches : b \in known' => ring'[b] = ring[b]
    PROVE  /\ ring' \in [Batches -> Seq(Event)] /\ Rings'
           /\ \A b \in Batches : Floor(b)' >= Floor(b)
<1>1. <<>> \in Seq(Event) /\ Len(<<>>) = 0
  BY EmptySeq
<1>2. ring' \in [Batches -> Seq(Event)] /\ \A b \in Batches : ring'[b] \in {ring[b], <<>>}
  BY <1>1, Parts
<1>3. \A b \in Batches : UpTo(<<>>, nextSeq[b])
  BY <1>1, Parts DEF UpTo
<1>4. Rings'
  BY <1>2, <1>3 DEF IInv, Rings
<1>5. \A b \in Batches : Floor(b)' >= Floor(b)
  BY <1>1, <1>2, Parts DEF Floor
<1> QED
  BY <1>2, <1>4, <1>5

LEMMA QuietKeeps ==
    ASSUME IInv, nextSeq' = nextSeq, known' \subseteq known,
           \E gonners : ring' = [b \in Batches |-> IF b \in gonners THEN <<>> ELSE ring[b]],
           \A b \in Batches : b \in known' => ring'[b] = ring[b],
           UNCHANGED <<conn, replay, queue, received>>
    PROVE  IInv'
<1>1. Typed'
  BY PurgeKeepsRings DEF IInv, Typed
<1>2. \A c \in Clients : Client(c)'
  BY <1>1, PurgeKeepsRings, Parts, ClientKept
<1> QED
  BY <1>1, <1>2, PurgeKeepsRings DEF IInv

LEMMA PurgeStepsKeep ==
    ASSUME IInv, NEW c \in Clients, ConnectGone(c) \/ ConnectRefused(c)
    PROVE  IInv'
<1>1. nextSeq' = nextSeq /\ UNCHANGED <<conn, replay, queue, received>>
  BY DEF ConnectGone, ConnectRefused, clientVars
<1>2. PICK work : Purge(known, ring, finished, work, conn)
  BY DEF ConnectGone, ConnectRefused
<1>3. /\ known' \subseteq known
      /\ \E gonners : ring' = [d \in Batches |-> IF d \in gonners THEN <<>> ELSE ring[d]]
      /\ \A d \in Batches : d \in known' => ring'[d] = ring[d]
  BY <1>2, Purged
<1> QED
  BY <1>1, <1>3, QuietKeeps

LEMMA Still ==
    ASSUME IInv, UNCHANGED <<known, nextSeq, ring, conn, replay, queue, received>>
    PROVE  IInv'
  BY DEF IInv, Typed, Rings, Client, Floor

\* A batch that is submitted has no events yet and nobody is connected to it.
LEMMA SubmitKeeps ==
    ASSUME IInv, NEW b \in Batches, Submit(b)
    PROVE  IInv'
<1> DEFINE e == NextEvent(b, "STATE")
           rs == [ring EXCEPT ![b] = <<e>>]
<1>1. /\ nextSeq[b] = 0 /\ nextSeq' = [nextSeq EXCEPT ![b] = 1]
      /\ UNCHANGED <<conn, replay, queue, received>>
  BY DEF Submit, clientVars
<1>2. e \in Event /\ e.seq = 0
  BY <1>1 DEF NextEvent, Event
<1>3. PICK work : Purge(known \cup {b}, rs, finished, work, conn)
  BY DEF Submit
<1> HIDE DEF e
<1>4. /\ known' \subseteq known \cup {b}
      /\ \E gonners : ring' = [d \in Batches |-> IF d \in gonners THEN <<>> ELSE rs[d]]
      /\ \A d \in Batches : d \in known' => ring'[d] = rs[d]
  BY <1>3, Purged
<1>5. <<e>> \in Seq(Event) /\ Len(<<e>>) = 1 /\ <<e>>[1] = e /\ <<>> \in Seq(Event) /\ Len(<<>>) = 0
  BY <1>2, EmptySeq
<1>6. /\ rs \in [Batches -> Seq(Event)] /\ rs[b] = <<e>>
      /\ \A d \in Batches : d # b => rs[d] = ring[d] /\ nextSeq'[d] = nextSeq[d]
      /\ nextSeq'[b] = 1
  BY <1>1, <1>5 DEF IInv, Typed
<1> HIDE DEF rs
<1>7. ring' \in [Batches -> Seq(Event)] /\ \A d \in Batches : ring'[d] \in {rs[d], <<>>}
  BY <1>4, <1>5, <1>6
<1>8. Typed'
  BY <1>1, <1>4, <1>7 DEF IInv, Typed
<1>9. UpTo(<<e>>, 1) /\ \A k \in Nat : UpTo(<<>>, k)
  BY <1>2, <1>5 DEF UpTo
<1>10. Rings'
  <2>1. \A d \in Batches : d # b => UpTo(ring[d], nextSeq[d]) /\ nextSeq[d] \in Nat
    BY Parts DEF IInv, Rings
  <2>2. <<e>> # <<>>
    BY <1>5
  <2> QED
    <3>1. \A d \in Batches : UpTo(rs[d], nextSeq'[d]) /\ nextSeq'[d] \in Nat
      BY <1>6, <1>9, <2>1
    <3>2. \A d \in Batches : UpTo(ring'[d], nextSeq'[d])
      BY <1>7, <1>9, <3>1
    <3>3. \A d \in Batches : d \in known' => ring'[d] # <<>>
      BY <1>4, <1>6, <2>2 DEF IInv, Rings
    <3> QED
      BY <3>2, <3>3 DEF Rings
<1>11. Floor(b) = 0
  <2>1. ring[b] = <<>>
    <3>1. UpTo(ring[b], 0)
      BY <1>1 DEF IInv, Rings
    <3>2. ring[b] # <<>> => ring[b][1].seq \in Nat /\ ring[b][1].seq = 0 - Len(ring[b]) + 1 - 1
                           /\ Len(ring[b]) \in Nat /\ Len(ring[b]) > 0
      <4>1. ring[b] \in Seq(Event)
        BY Parts
      <4>2. ring[b] # <<>> => Len(ring[b]) \in Nat /\ 1 \in 1..Len(ring[b])
        BY <4>1, EventSeq
      <4> QED
        BY <3>1, <4>1, <4>2, EventSeq DEF UpTo
    <3> QED
      BY <3>2
  <2> QED
    <3>1. Len(ring[b]) = 0
      BY <1>5, <2>1
    <3> QED
      BY <1>1, <3>1 DEF Floor
<1>12. \A d \in Batches : Floor(d)' >= Floor(d)
  <2>1. Floor(b)' >= 0
    <3>1. Len(ring'[b]) = 0 \/ Len(ring'[b]) = 1
      BY <1>5, <1>6, <1>7
    <3>2. nextSeq'[b] = 1
      BY <1>6
    <3>3. \A k, n : k = 1 /\ (n = 0 \/ n = 1) => k - n >= 0
      OBVIOUS
    <3>4. nextSeq'[b] - Len(ring'[b]) >= 0
      BY <3>1, <3>2, <3>3
    <3> QED
      BY <3>4 DEF Floor
  <2>2. \A d \in Batches : d # b => Floor(d)' >= Floor(d)
    BY <1>5, <1>6, <1>7, Parts DEF Floor
  <2> QED
    BY <1>11, <2>1, <2>2
<1>13. ASSUME NEW c \in Clients PROVE Client(c)'
  <2>1. CASE Follows[c] = b
    <3>1. conn[c] = "off" /\ replay[c] = <<>> /\ queue[c] = <<>>
      BY <1>1, <2>1 DEF IInv, Client
    <3> QED
      BY <1>1, <1>6, <1>8, <1>12, <2>1, <3>1, ClientOff
  <2>2. CASE Follows[c] # b
    BY <1>1, <1>6, <1>8, <1>12, <2>2, Parts, ClientKept
  <2> QED
    BY <2>1, <2>2
<1> QED
  BY <1>8, <1>10, <1>13 DEF IInv

\* The next event of b goes into the buffer and to every subscriber, or costs a
\* subscriber the connection; a purge may follow.
LEMMA EventKeeps ==
    ASSUME IInv, NEW b \in known, NEW kind \in {"STATE", "BATCH_DONE"}, NEW rs,
           rs = [ring EXCEPT ![b] = Push(@, NextEvent(b, kind))],
           nextSeq' = [nextSeq EXCEPT ![b] = @ + 1],
           Broadcast(b, NextEvent(b, kind)), received' = received, known' \subseteq known,
           ring' = [d \in Batches |-> ring'[d]],
           \A d \in Batches : ring'[d] \in {rs[d], <<>>},
           \A d \in Batches : d \in known' => ring'[d] = rs[d]
    PROVE  IInv'
<1> DEFINE e == NextEvent(b, kind)
           end == nextSeq[b]
           full == {c \in Subscribers(b, conn) : Len(queue[c]) >= QueueMax}
<1>1. b \in Batches /\ end \in Nat
  BY DEF IInv, Typed
<1>2. e \in Event /\ e.seq = end
  BY <1>1 DEF NextEvent, Event
<1>3. /\ queue' = [c \in Clients |-> IF c \in full THEN <<>>
                                     ELSE IF c \in Subscribers(b, conn) THEN Append(queue[c], e)
                                     ELSE queue[c]]
      /\ replay' = [c \in Clients |-> IF c \in full THEN <<>> ELSE replay[c]]
      /\ conn' = [c \in Clients |-> IF c \in full THEN "off" ELSE conn[c]]
  BY DEF Broadcast
<1>4. full \subseteq Subscribers(b, conn)
  OBVIOUS
<1> HIDE DEF full
<1> DEFINE r == Push(ring[b], e)
<1>5. UpTo(r, end + 1) /\ r # <<>> /\ Len(r) <= Len(ring[b]) + 1
  BY <1>1, <1>2, PushUpTo DEF IInv, Rings
<1>6. r \in Seq(Event) /\ Len(r) \in Nat
  BY <1>5, EventSeq DEF UpTo
<1>7. rs = [ring EXCEPT ![b] = r]
  OBVIOUS
<1> HIDE DEF r, e
<1>8. /\ rs \in [Batches -> Seq(Event)] /\ rs[b] = r
      /\ \A d \in Batches : d # b => rs[d] = ring[d] /\ nextSeq'[d] = nextSeq[d]
      /\ nextSeq'[b] = end + 1 /\ nextSeq' \in [Batches -> Nat]
  BY <1>1, <1>6, <1>7 DEF IInv, Typed
<1>9. <<>> \in Seq(Event) /\ Len(<<>>) = 0
  BY EmptySeq
<1>10. ring' \in [Batches -> Seq(Event)] /\ \A d \in Batches : ring'[d] \in {rs[d], <<>>}
  BY <1>8, <1>9
<1>11. Typed'
  <2>1. known' \subseteq Batches
    BY DEF IInv, Typed
  <2>2. conn' \in [Clients -> {"off", "open", "lost"}]
    BY <1>3 DEF IInv, Typed
  <2>3. replay' \in [Clients -> Seq(Event)]
    BY <1>3, <1>9, Parts
  <2>4. \A c \in Clients : Append(queue[c], e) \in Seq(Event)
    BY <1>2, Parts, Appended
  <2>5. queue' \in [Clients -> Seq(Event)]
    BY <1>3, <1>9, <2>4, Parts
  <2> QED
    BY <1>8, <1>10, <2>1, <2>2, <2>3, <2>5 DEF IInv, Typed
<1>12. Rings'
  <2>1. \A d \in Batches : UpTo(rs[d], nextSeq'[d])
    BY <1>5, <1>8 DEF IInv, Rings
  <2>2. \A k \in Nat : UpTo(<<>>, k)
    BY <1>9 DEF UpTo
  <2>3. \A d \in Batches : nextSeq'[d] \in Nat
    BY <1>8
  <2>4. \A d \in Batches : UpTo(ring'[d], nextSeq'[d])
    BY <1>10, <2>1, <2>2, <2>3
  <2>5. \A d \in Batches : d \in known' => ring'[d] # <<>>
    BY <1>5, <1>8 DEF IInv, Rings
  <2> QED
    BY <2>4, <2>5 DEF Rings
<1>13. \A d \in Batches : Floor(d)' >= Floor(d)
  <2>1. Floor(b)' >= Floor(b)
    <3>1. Len(ring'[b]) \in {Len(r), 0} /\ Len(ring[b]) \in Nat
      BY <1>1, <1>8, <1>9, <1>10, Parts
    <3>2. nextSeq'[b] - Len(ring'[b]) >= end - Len(ring[b])
      BY <1>1, <1>5, <1>6, <1>8, <3>1
    <3> QED
      BY <3>2 DEF Floor
  <2>2. ASSUME NEW d \in Batches, d # b PROVE Floor(d)' >= Floor(d)
    <3>1. Len(ring'[d]) \in {Len(ring[d]), 0} /\ Len(ring[d]) \in Nat
      BY <1>8, <1>9, <1>10, <2>2, Parts
    <3>2. nextSeq'[d] = nextSeq[d] /\ nextSeq[d] \in Nat
      BY <1>8, <2>2, Parts
    <3>3. nextSeq'[d] - Len(ring'[d]) >= nextSeq[d] - Len(ring[d])
      BY <3>1, <3>2
    <3> QED
      BY <3>3 DEF Floor
  <2> QED
    BY <2>1, <2>2
<1>14. \A d \in Batches : nextSeq'[d] >= nextSeq[d]
  BY <1>1, <1>8, Parts
<1>15. ASSUME NEW c \in Clients PROVE Client(c)'
  <2>1. Follows[c] \in Batches
    BY Parts
  <2>2. CASE c \in full
    BY <1>3, <1>11, <1>13, <1>14, <2>1, <2>2, ClientOff
  <2>3. CASE c \notin full /\ c \in Subscribers(b, conn)
    <3> DEFINE todo == replay[c] \o queue[c]
               m == Floor(b)'
    <3>1. Follows[c] = b /\ conn[c] # "off"
      BY <2>3 DEF Subscribers
    <3>2. /\ conn'[c] = conn[c] /\ replay'[c] = replay[c]
          /\ queue'[c] = Append(queue[c], e) /\ received'[c] = received[c]
      BY <1>3, <2>3
    <3>3. replay'[c] \o queue'[c] = Append(todo, e)
      <4>1. replay[c] \in Seq(Event) /\ queue[c] \in Seq(Event)
        BY Parts
      <4>2. replay[c] \o Append(queue[c], e) = Append(replay[c] \o queue[c], e)
        BY <1>2, <4>1, JoinAppend
      <4> QED
        BY <3>2, <4>2
    <3>4. /\ Complete(todo, LastOf(received[c]), end, Floor(b))
          /\ Orderly(received[c], end, Floor(b))
      BY <3>1 DEF IInv, Client
    <3>5. m \in Int /\ m >= Floor(b) /\ Floor(b) \in Int /\ LastOf(received[c]) \in Int
      <4>1. ring'[b] \in Seq(Event) /\ nextSeq'[b] \in Nat
        BY <1>1, <1>8, <1>10
      <4>2. Len(ring'[b]) \in Nat
        BY <4>1, EventSeq
      <4>3. m \in Int
        BY <4>1, <4>2 DEF Floor
      <4> QED
        BY <1>1, <1>13, <4>3, Parts
    <3> HIDE DEF m, todo
    <3>6. Complete(Append(todo, e), LastOf(received[c]), end + 1, Floor(b))
      BY <1>1, <1>2, <3>4, <3>5, AppendCompletes
    <3>7. end + 1 \in Nat /\ end + 1 >= end /\ end + 1 > 0
      BY <1>1
    <3> DEFINE then == end + 1
               old == Floor(b)
               last == LastOf(received[c])
               more == Append(todo, e)
    <3>8. /\ then \in Nat /\ then >= end /\ m >= old /\ old \in Int /\ last \in Int
          /\ Complete(more, last, then, old) /\ Orderly(received[c], end, old)
      BY <3>4, <3>5, <3>6, <3>7
    <3> HIDE DEF then, old, last, more
    <3>9. Complete(more, last, then, m) /\ Orderly(received[c], then, m)
      BY <1>1, <3>5, <3>8, OlderComplete, OlderOrderly
    <3> QED
      BY <1>8, <3>1, <3>2, <3>3, <3>7, <3>9 DEF Client, m, then, old, last, more
  <2>4. CASE c \notin Subscribers(b, conn)
    <3>1. conn'[c] = conn[c] /\ replay'[c] = replay[c] /\ queue'[c] = queue[c]
      BY <1>3, <1>4, <2>4
    <3>2. received'[c] = received[c]
      OBVIOUS
    <3>3. CASE Follows[c] = b
      <4>1. conn[c] = "off"
        BY <2>4, <3>3 DEF Subscribers
      <4>2. replay[c] = <<>> /\ queue[c] = <<>>
        BY <4>1 DEF IInv, Client
      <4> QED
        BY <1>11, <1>13, <1>14, <2>1, <3>1, <3>2, <4>1, <4>2, ClientOff
    <3>4. CASE Follows[c] # b
      BY <1>8, <1>11, <1>13, <2>1, <3>1, <3>2, <3>4, ClientKept
    <3> QED
      BY <3>3, <3>4
  <2> QED
    BY <2>2, <2>3, <2>4
<1> QED
  BY <1>11, <1>12, <1>15 DEF IInv

LEMMA EmitKeeps ==
    ASSUME IInv, NEW b \in Batches, Emit(b)
    PROVE  IInv'
<1> DEFINE rs == [ring EXCEPT ![b] = Push(@, NextEvent(b, "STATE"))]
<1>1. /\ b \in known /\ ring' = rs /\ known' = known /\ received' = received
      /\ nextSeq' = [nextSeq EXCEPT ![b] = @ + 1]
      /\ Broadcast(b, NextEvent(b, "STATE"))
  BY DEF Emit
<1>2. DOMAIN rs = Batches
  BY DEF IInv, Typed
<1>3. ring' = [d \in Batches |-> ring'[d]]
  BY <1>1, <1>2
<1>4. \A d \in Batches : ring'[d] \in {rs[d], <<>>}
  BY <1>1
<1>5. known' \subseteq known /\ \A d \in Batches : d \in known' => ring'[d] = rs[d]
  BY <1>1
<1>6. rs = [ring EXCEPT ![b] = Push(@, NextEvent(b, "STATE"))]
  OBVIOUS
<1> HIDE DEF rs
<1> QED
  BY <1>1, <1>3, <1>4, <1>5, <1>6, EventKeeps

LEMMA FinalizeKeeps ==
    ASSUME IInv, NEW b \in Batches, Finalize(b)
    PROVE  IInv'
<1> DEFINE rs == [ring EXCEPT ![b] = Push(@, NextEvent(b, "BATCH_DONE"))]
<1>1. /\ b \in known /\ received' = received
      /\ nextSeq' = [nextSeq EXCEPT ![b] = @ + 1]
      /\ Broadcast(b, NextEvent(b, "BATCH_DONE"))
      /\ Purge(known, rs, Append(finished, b), busy, conn')
  BY DEF Finalize
<1>2. /\ known' \subseteq known
      /\ \E gonners : ring' = [d \in Batches |-> IF d \in gonners THEN <<>> ELSE rs[d]]
      /\ \A d \in Batches : d \in known' => ring'[d] = rs[d]
  BY <1>1, Purged
<1>3. ring' = [d \in Batches |-> ring'[d]] /\ \A d \in Batches : ring'[d] \in {rs[d], <<>>}
  BY <1>2
<1>4. rs = [ring EXCEPT ![b] = Push(@, NextEvent(b, "BATCH_DONE"))]
  OBVIOUS
<1> HIDE DEF rs
<1> QED
  BY <1>1, <1>2, <1>3, <1>4, EventKeeps

\* The rest of a step that only concerns one client.
LEMMA OneClient ==
    ASSUME IInv, NEW c \in Clients, Client(c)', Typed',
           UNCHANGED <<known, nextSeq, ring>>,
           \A d \in Clients : d # c => /\ conn'[d] = conn[d] /\ replay'[d] = replay[d]
                                       /\ queue'[d] = queue[d] /\ received'[d] = received[d]
    PROVE  IInv'
<1>1. Rings'
  BY DEF IInv, Rings
<1>2. \A b \in Batches : Floor(b)' = Floor(b) /\ Floor(b) \in Int
  BY Parts DEF Floor
<1>3. ASSUME NEW d \in Clients, d # c PROVE Client(d)'
  <2>1. Follows[d] \in Batches
    BY Parts
  <2>2. Floor(Follows[d])' >= Floor(Follows[d])
    BY <1>2, <2>1
  <2> QED
    BY <1>3, <2>1, <2>2, ClientKept
<1> QED
  BY <1>1, <1>3 DEF IInv

\* A client that connects gets what the buffer has of the events it did not see.
LEMMA ConnectKeeps ==
    ASSUME IInv, NEW c \in Clients, Connect(c)
    PROVE  IInv'
<1> DEFINE b == Follows[c]
           q == Replay(ring[b], LastSeen(c))
           last == LastOf(received[c])
           end == nextSeq[b]
<1>1. /\ conn[c] = "off" /\ b \in known' /\ Purge(known, ring, finished, busy, conn)
      /\ conn' = [conn EXCEPT ![c] = "open"] /\ replay' = [replay EXCEPT ![c] = q]
      /\ UNCHANGED <<nextSeq, queue, received>>
  BY DEF Connect
<1>2. /\ known' \subseteq known
      /\ \E gonners : ring' = [d \in Batches |-> IF d \in gonners THEN <<>> ELSE ring[d]]
      /\ \A d \in Batches : d \in known' => ring'[d] = ring[d]
  BY <1>1, Purged
<1>3. /\ ring' \in [Batches -> Seq(Event)] /\ Rings'
      /\ \A d \in Batches : Floor(d)' >= Floor(d)
  BY <1>1, <1>2, PurgeKeepsRings
<1>4. /\ b \in Batches /\ end \in Nat /\ ring[b] \in Seq(Event) /\ ring[b] # <<>>
      /\ UpTo(ring[b], end) /\ ring'[b] = ring[b] /\ last \in Int
  BY <1>1, <1>2, Parts DEF IInv, Rings
<1>5. end > 0
  <2>1. Len(ring[b]) \in Nat /\ 1 \in 1..Len(ring[b]) /\ ring[b][1].seq \in Nat
    BY <1>4, EventSeq
  <2>2. ring[b][1].seq = end - Len(ring[b]) + 1 - 1
    BY <1>4, <2>1 DEF UpTo
  <2> QED
    BY <1>4, <2>1, <2>2
<1>6. /\ queue[c] = <<>> /\ Orderly(received[c], end, Floor(b))
  BY <1>1 DEF IInv, Client
<1>7. LastSeen(c) = last /\ last < end
  <2>1. LastSeen(c) = last
    BY Parts DEF LastSeen, Last, LastOf
  <2> QED
    BY <1>6, <2>1 DEF Orderly
<1>8. Complete(q, last, end, Floor(b))
  <2>1. Complete(Replay(ring[b], last), last, end, end - Len(ring[b]))
    BY <1>4, <1>7, ReplayCompletes
  <2> QED
    BY <1>7, <2>1 DEF Floor
<1>9. q \in Seq(Event)
  BY <1>8 DEF Complete, UpTo
<1> HIDE DEF q
<1>10. Typed'
  BY <1>1, <1>2, <1>3, <1>9 DEF IInv, Typed
<1>11. Floor(b)' = Floor(b)
  BY <1>1, <1>4 DEF Floor
<1>12. Client(c)'
  <2>1. conn'[c] = "open" /\ replay'[c] = q /\ queue'[c] = <<>> /\ received'[c] = received[c]
    BY <1>1, <1>6 DEF IInv, Typed
  <2>2. replay'[c] \o queue'[c] = q
    BY <1>9, <2>1, ConcatEmptySeq
  <2> QED
    BY <1>1, <1>5, <1>6, <1>8, <1>11, <2>1, <2>2 DEF Client
<1>13. ASSUME NEW d \in Clients, d # c PROVE Client(d)'
  <2>1. /\ conn'[d] = conn[d] /\ replay'[d] = replay[d]
        /\ queue'[d] = queue[d] /\ received'[d] = received[d]
    BY <1>1, <1>13
  <2> QED
    BY <1>1, <1>3, <1>10, <2>1, Parts, ClientKept
<1> QED
  BY <1>3, <1>10, <1>12, <1>13 DEF IInv

\* The sender delivers the oldest event of what is under way.
LEMMA SendKeeps ==
    ASSUME IInv, NEW c \in Clients, SendReplayed(c) \/ SendQueued(c)
    PROVE  IInv'
<1> DEFINE b == Follows[c]
           todo == replay[c] \o queue[c]
           h == received[c]
<1>1. /\ conn[c] = "open" /\ conn' = conn /\ UNCHANGED <<known, nextSeq, ring>>
  BY DEF SendReplayed, SendQueued, streamVars
<1>2. /\ replay[c] \in Seq(Event) /\ queue[c] \in Seq(Event) /\ h \in Seq(Event)
      /\ b \in Batches /\ nextSeq[b] \in Nat /\ Floor(b) \in Int
  BY Parts
<1>3. /\ Complete(todo, LastOf(h), nextSeq[b], Floor(b)) /\ Orderly(h, nextSeq[b], Floor(b))
      /\ nextSeq[b] > 0
  BY <1>1 DEF IInv, Client
<1>4. /\ todo # <<>> /\ Head(todo) \in Event
      /\ received' = [received EXCEPT ![c] = Append(h, Head(todo))]
      /\ replay'[c] \o queue'[c] = Tail(todo)
      /\ replay' \in [Clients -> Seq(Event)] /\ queue' \in [Clients -> Seq(Event)]
      /\ \A d \in Clients : d # c => replay'[d] = replay[d] /\ queue'[d] = queue[d]
  <2>1. CASE SendReplayed(c)
    <3>1. /\ replay[c] # <<>> /\ received' = [received EXCEPT ![c] = Append(h, Head(replay[c]))]
          /\ replay' = [replay EXCEPT ![c] = Tail(replay[c])] /\ queue' = queue
      BY <2>1 DEF SendReplayed
    <3>2. todo # <<>> /\ Head(todo) = Head(replay[c]) /\ Tail(todo) = Tail(replay[c]) \o queue[c]
      BY <1>2, <3>1, JoinTail
    <3>3. Tail(replay[c]) \in Seq(Event) /\ Head(replay[c]) \in Event
      BY <1>2, <3>1, Tailed
    <3>4. replay \in [Clients -> Seq(Event)] /\ queue \in [Clients -> Seq(Event)]
      BY DEF IInv, Typed
    <3>5. replay'[c] = Tail(replay[c]) /\ replay' \in [Clients -> Seq(Event)]
      BY <3>1, <3>3, <3>4
    <3> QED
      BY <3>1, <3>2, <3>3, <3>4, <3>5
  <2>2. CASE SendQueued(c)
    <3>1. /\ queue[c] # <<>> /\ received' = [received EXCEPT ![c] = Append(h, Head(queue[c]))]
          /\ queue' = [queue EXCEPT ![c] = Tail(queue[c])] /\ replay' = replay
          /\ replay[c] = <<>>
      BY <2>2 DEF SendQueued
    <3>2. todo = queue[c]
      BY <1>2, <3>1, ConcatEmptySeq
    <3>3. Tail(queue[c]) \in Seq(Event) /\ Head(queue[c]) \in Event
      BY <1>2, <3>1, Tailed
    <3>4. replay \in [Clients -> Seq(Event)] /\ queue \in [Clients -> Seq(Event)]
      BY DEF IInv, Typed
    <3>5. queue'[c] = Tail(queue[c]) /\ queue' \in [Clients -> Seq(Event)]
      BY <3>1, <3>3, <3>4
    <3>6. replay'[c] \o queue'[c] = Tail(queue[c])
      BY <3>1, <3>3, <3>5, ConcatEmptySeq
    <3> QED
      BY <3>1, <3>2, <3>3, <3>4, <3>5, <3>6
  <2> QED
    BY <2>1, <2>2
<1> HIDE DEF todo
<1>5. /\ LastOf(Append(h, Head(todo))) = Head(todo).seq
      /\ Complete(Tail(todo), Head(todo).seq, nextSeq[b], Floor(b))
      /\ Orderly(Append(h, Head(todo)), nextSeq[b], Floor(b))
  BY <1>2, <1>3, <1>4, Arrives
<1>6. Append(h, Head(todo)) \in Seq(Event)
  BY <1>2, <1>4, Appended
<1>7. received \in [Clients -> Seq(Event)] /\ known \subseteq Batches
  BY DEF IInv, Typed
<1>8. /\ received'[c] = Append(h, Head(todo)) /\ received' \in [Clients -> Seq(Event)]
      /\ \A d \in Clients : d # c => received'[d] = received[d]
  BY <1>4, <1>6, <1>7
<1>9. Typed'
  BY <1>1, <1>4, <1>8 DEF IInv, Typed
<1>10. Floor(b)' = Floor(b)
  BY <1>1 DEF Floor
<1>11. Client(c)'
  BY <1>1, <1>3, <1>4, <1>5, <1>8, <1>10 DEF Client
<1> QED
  BY <1>1, <1>4, <1>8, <1>9, <1>11, OneClient

\* A connection breaks, and the server notices.
LEMMA EndsKeep ==
    ASSUME IInv, NEW c \in Clients, Break(c) \/ Notice(c)
    PROVE  IInv'
<1>1. UNCHANGED <<known, nextSeq, ring, received>>
  BY DEF Break, Notice, streamVars
<1>2. /\ <<>> \in Seq(Event) /\ {replay, queue, received} \subseteq [Clients -> Seq(Event)]
      /\ conn \in [Clients -> {"off", "open", "lost"}]
  BY EmptySeq DEF IInv, Typed
<1>3. /\ conn' = [conn EXCEPT ![c] = "lost"] \/ conn' = [conn EXCEPT ![c] = "off"]
      /\ replay' = replay \/ replay' = [replay EXCEPT ![c] = <<>>]
      /\ queue' = queue \/ queue' = [queue EXCEPT ![c] = <<>>]
  BY DEF Break, Notice
<1>4. Typed'
  <2>1. conn' \in [Clients -> {"off", "open", "lost"}]
    BY <1>2, <1>3
  <2>2. replay' \in [Clients -> Seq(Event)] /\ queue' \in [Clients -> Seq(Event)]
    BY <1>2, <1>3
  <2> QED
    BY <1>1, <2>1, <2>2 DEF IInv, Typed
<1>5. \A d \in Clients : d # c => /\ conn'[d] = conn[d] /\ replay'[d] = replay[d]
                                  /\ queue'[d] = queue[d] /\ received'[d] = received[d]
  BY <1>1, <1>2, <1>3
<1>6. /\ nextSeq'[Follows[c]] = nextSeq[Follows[c]] /\ nextSeq'[Follows[c]] >= nextSeq[Follows[c]]
      /\ Floor(Follows[c])' >= Floor(Follows[c]) /\ received'[c] = received[c]
  BY <1>1, Parts DEF Floor
<1>7. Client(c)'
  <2>1. CASE Break(c)
    <3>1. conn[c] = "open" /\ conn'[c] = "lost" /\ replay'[c] = replay[c] /\ queue'[c] = queue[c]
      BY <2>1 DEF Break, IInv, Typed
    <3> QED
      BY <1>4, <1>6, <3>1, ClientKept
  <2>2. CASE Notice(c)
    <3>1. conn'[c] = "off" /\ replay'[c] = <<>> /\ queue'[c] = <<>>
      BY <2>2 DEF Notice, IInv, Typed
    <3> QED
      BY <1>4, <1>6, <3>1, ClientOff
  <2> QED
    BY <2>1, <2>2
<1> QED
  BY <1>1, <1>4, <1>5, <1>7, OneClient

-----------------------------------------------------------------------------
(* The invariant *)

LEMMA InitIInv == Init => IInv
<1> SUFFICES ASSUME Init PROVE IInv
  OBVIOUS
<1>1. <<>> \in Seq(Event) /\ Len(<<>>) = 0 /\ <<>> \o <<>> = <<>>
  BY EmptySeq, ConcatEmptySeq
<1>2. Typed
  BY <1>1 DEF Init, Typed
<1>3. \A b \in Batches : UpTo(ring[b], nextSeq[b]) /\ nextSeq[b] = 0 /\ Floor(b) = 0
  BY <1>1 DEF Init, UpTo, Floor
<1>4. Orderly(<<>>, 0, 0)
  BY <1>1 DEF Orderly, LastOf
<1>5. \A c \in Clients : Client(c)
  BY <1>3, <1>4, StreamAssumption DEF Init, Client
<1> QED
  BY <1>2, <1>3, <1>5 DEF Init, IInv, Rings

LEMMA NextIInv == IInv /\ [Next]_vars => IInv'
<1> SUFFICES ASSUME IInv, [Next]_vars PROVE IInv'
  OBVIOUS
<1>1. CASE UNCHANGED vars
  BY <1>1, Still DEF vars, streamVars, clientVars
<1>2. ASSUME NEW b \in Batches, Submit(b) PROVE IInv'
  BY <1>2, SubmitKeeps
<1>3. ASSUME NEW b \in Batches, Emit(b) PROVE IInv'
  BY <1>3, EmitKeeps
<1>4. ASSUME NEW b \in Batches, Finalize(b) PROVE IInv'
  BY <1>4, FinalizeKeeps
<1>5. ASSUME NEW b \in Batches, TasksEnd(b) PROVE IInv'
  <2>1. /\ nextSeq' = nextSeq /\ UNCHANGED <<conn, replay, queue, received>>
        /\ Purge(known, ring, finished, busy \ {b}, conn)
    BY <1>5 DEF TasksEnd, clientVars
  <2> QED
    BY <2>1, Purged, QuietKeeps
<1>6. ASSUME NEW b \in Batches, Expire(b) PROVE IInv'
  BY <1>6, Still DEF Expire, clientVars
<1>7. ASSUME NEW c \in Clients, ConnectGone(c) \/ ConnectRefused(c) PROVE IInv'
  BY <1>7, PurgeStepsKeep
<1>8. ASSUME NEW c \in Clients, Connect(c) PROVE IInv'
  BY <1>8, ConnectKeeps
<1>9. ASSUME NEW c \in Clients, SendReplayed(c) \/ SendQueued(c) PROVE IInv'
  BY <1>9, SendKeeps
<1>10. ASSUME NEW c \in Clients, Break(c) \/ Notice(c) PROVE IInv'
  BY <1>10, EndsKeep
<1> QED
  BY <1>1, <1>2, <1>3, <1>4, <1>5, <1>6, <1>7, <1>8, <1>9, <1>10 DEF Next

LEMMA Invariance == Spec => []IInv
  BY InitIInv, NextIInv, PTL DEF Spec

\* Over any number of connections a client gets the events of its batch in
\* order, none twice, and misses only what the ring buffer has dropped
\* (ring_buffer.py; Scheduler.replay_and_subscribe).
THEOREM StreamHasNoGap == Spec => []NoGapNoDuplicate
<1>1. IInv => NoGapNoDuplicate
  <2> SUFFICES ASSUME IInv, NEW c \in Clients
      PROVE  /\ \A i \in 2..Len(received[c]) : received[c][i - 1].seq < received[c][i].seq
             /\ \A s \in 0..LastSeen(c) :
                 s \in {received[c][i].seq : i \in DOMAIN received[c]} \/ s < Oldest(Follows[c])
    BY DEF NoGapNoDuplicate
  <2> DEFINE b == Follows[c]
  <2>1. b \in Batches /\ nextSeq[b] \in Nat /\ UpTo(ring[b], nextSeq[b])
    BY Parts DEF IInv, Rings
  <2>2. Oldest(b) = Floor(b)
    <3>1. CASE ring[b] = <<>>
      <4>1. Len(ring[b]) = 0
        BY <3>1, EmptySeq
      <4> QED
        BY <2>1, <3>1, <4>1 DEF Oldest, Floor
    <3>2. CASE ring[b] # <<>>
      BY <2>1, <3>2, TailUpTo DEF Oldest, Floor
    <3> QED
      BY <3>1, <3>2
  <2>3. LastSeen(c) = LastOf(received[c])
    BY DEF LastSeen, Last, LastOf
  <2>4. Orderly(received[c], nextSeq[b], Floor(b))
    BY DEF IInv, Client
  <2> QED
    BY <2>2, <2>3, <2>4 DEF Orderly, SeqsOf
<1> QED
  BY <1>1, Invariance, PTL

\* What is under way to an open connection is everything from its first event
\* to the latest one: no event falls between the replay and the registration
\* (replay_and_subscribe), and one that does not fit costs the connection.
THEOREM BacklogIsComplete == Spec => []BacklogReachesTheEnd
<1>1. IInv => BacklogReachesTheEnd
  <2> SUFFICES ASSUME IInv, NEW c \in Clients, conn[c] = "open"
      PROVE  LET todo == replay[c] \o queue[c]
                 end == nextSeq[Follows[c]] - 1
             IN /\ \A i \in DOMAIN todo : todo[i].seq = end - Len(todo) + i
                /\ todo = <<>> => LastSeen(c) = end
    BY DEF BacklogReachesTheEnd
  <2> DEFINE todo == replay[c] \o queue[c]
             n == nextSeq[Follows[c]]
  <2>1. n \in Nat /\ replay[c] \in Seq(Event) /\ queue[c] \in Seq(Event)
    BY Parts
  <2>2. Complete(todo, LastOf(received[c]), n, Floor(Follows[c]))
    BY DEF IInv, Client
  <2>3. todo \in Seq(Event)
    BY <2>1, Joined
  <2>4. Len(todo) \in Nat /\ DOMAIN todo = 1..Len(todo)
    BY <2>3, EventSeq
  <2>5. LastSeen(c) = LastOf(received[c])
    BY DEF LastSeen, Last, LastOf
  <2> HIDE DEF todo, n
  <2>6. \A i \in DOMAIN todo : todo[i].seq = n - 1 - Len(todo) + i
    BY <2>1, <2>2, <2>4 DEF Complete, UpTo
  <2>7. todo = <<>> => LastSeen(c) = n - 1
    BY <2>2, <2>5 DEF Complete
  <2> QED
    BY <2>6, <2>7 DEF todo, n
<1> QED
  BY <1>1, Invariance, PTL

-----------------------------------------------------------------------------
(* Which request a free slot goes to *)

\* What a level of the last selection has waited for, while the same ones compete.
Waited(p) == IF skipped[p] < steady THEN skipped[p] ELSE steady

\* The levels of D that were deferred to since p was, if the cursor is at last.
Since(D, last, p) ==
    IF last <= p THEN {x \in D : last <= x /\ x < p}
    ELSE {x \in D : x < p \/ last <= x}

LowerLevels == levels \ {Q!Max(levels)}

\* The highest level waits for one deferral; a lower one for the selections
\* since the last deferral and a round of selections for each deferral since its own.
TopPatient == levels # {} => LET w == Waited(Q!Max(levels)) IN w <= 1 /\ (w = 1 => streak = 0)
LowerPatient ==
    \A p \in LowerLevels :
        /\ Waited(p) <= streak + (Burst + 1) * Cardinality(Since(LowerLevels, lastDeferred, p))
        /\ lastDeferred \notin LowerLevels => Waited(p) <= streak

QueueTyped ==
    /\ unasked \in [Queued -> Nat] /\ waiting \in Seq(Queued)
    /\ running \in [Queued -> Nat] /\ \A b \in Queued : running[b] <= Concurrency[b]
    /\ lastBatch \in [Q!Levels -> Queued \cup {NoBatch}]
    /\ \A p \in Q!Levels : lastBatch[p] # NoBatch => Priority[lastBatch[p]] = p
    /\ lastDeferred \in Q!Levels \cup {-1} /\ streak \in 0..Burst
    /\ bypassed \in [Queued -> Nat] /\ skipped \in [Q!Levels -> Nat]
    /\ levels \in SUBSET Q!Levels /\ steady \in Nat

QueueInv == QueueTyped /\ TopPatient /\ LowerPatient

-----------------------------------------------------------------------------
(* Sets of levels *)

\* The operators of FiniteSets are the same in the instance.
LEMMA SameCounts ==
    ASSUME NEW S
    PROVE  /\ Q!Cardinality(S) = Cardinality(S)
           /\ Q!IsFiniteSet(S) <=> IsFiniteSet(S)
<1>1. Q!Cardinality(S) = Cardinality(S)
  BY DEF Q!Cardinality, Cardinality
<1>2. Q!IsFiniteSet(S) <=> IsFiniteSet(S)
  BY DEF Q!IsFiniteSet, IsFiniteSet
<1> QED
  BY <1>1, <1>2

LEMMA MinIsLeast ==
    ASSUME NEW S \in SUBSET Nat, S # {}
    PROVE  Q!Min(S) \in S /\ \A y \in S : Q!Min(S) <= y
<1>1. \E x \in S : \A y \in S : x <= y
  BY Least
<1> QED
  BY <1>1 DEF Q!Min

\* Of a finite set the largest element is the one with the fewest above it.
LEMMA MaxIsLargest ==
    ASSUME NEW S \in SUBSET Nat, S # {}, IsFiniteSet(S)
    PROVE  Q!Max(S) \in S /\ \A y \in S : Q!Max(S) >= y
<1> DEFINE Above(x) == {y \in S : y > x}
           Counts == {Cardinality(Above(x)) : x \in S}
<1>1. \A x \in S : IsFiniteSet(Above(x)) /\ Cardinality(Above(x)) \in Nat
  <2> TAKE x \in S
  <2>1. Above(x) \in SUBSET S
    OBVIOUS
  <2> HIDE DEF Above
  <2> QED
    BY <2>1, FS_Subset, FS_CardinalityType
<1>2. PICK n \in Counts : \A m \in Counts : n <= m
  <2>1. Counts \in SUBSET Nat /\ Counts # {}
    BY <1>1
  <2> HIDE DEF Counts
  <2> QED
    BY <2>1, Least
<1>3. PICK x \in S : n = Cardinality(Above(x))
  BY <1>2
<1>4. ASSUME NEW y \in S, y > x PROVE FALSE
  <2>1. Above(y) \in SUBSET Above(x) /\ y \in Above(x) /\ y \notin Above(y)
    <3>1. S \subseteq Nat /\ x \in Nat /\ y \in Nat /\ y > x
      BY <1>4
    <3>2. \A z \in S : z > y => z > x
      BY <3>1
    <3>3. ~(y > y)
      BY <3>1
    <3> QED
      BY <1>4, <3>2, <3>3
  <2>2. Cardinality(Above(x)) <= Cardinality(Above(y))
    <3>1. Cardinality(Above(y)) \in Counts
      BY <1>4
    <3> QED
      BY <1>2, <1>3, <3>1
  <2>3. Cardinality(Above(y)) <= Cardinality(Above(x))
        /\ (Cardinality(Above(x)) = Cardinality(Above(y)) => Above(x) = Above(y))
    <3> HIDE DEF Above
    <3> QED
      BY <1>1, <2>1, FS_Subset
  <2>4. Cardinality(Above(x)) \in Nat /\ Cardinality(Above(y)) \in Nat
    BY <1>1
  <2> HIDE DEF Above
  <2> QED
    BY <2>1, <2>2, <2>3, <2>4
<1>5. \A y \in S : x >= y
  BY <1>4
<1> QED
  BY <1>5 DEF Q!Max

LEMMA FiniteLevels ==
    ASSUME Q!PolicyAssumption
    PROVE  Q!Levels \in SUBSET Nat /\ IsFiniteSet(Q!Levels)
<1>1. IsFiniteSet(Queued) /\ Priority \in [Queued -> Nat]
  BY SameCounts DEF Q!PolicyAssumption
<1>2. Priority \in Surjection(Queued, Q!Levels)
  BY <1>1 DEF Q!Levels, Surjection
<1> QED
  BY <1>1, <1>2, FS_Surjection DEF Q!Levels

LEMMA SomeLevels ==
    ASSUME Q!PolicyAssumption, NEW S \in SUBSET Q!Levels
    PROVE  /\ S \in SUBSET Nat /\ IsFiniteSet(S) /\ Cardinality(S) \in Nat
           /\ S # {} => Q!Max(S) \in S /\ \A y \in S : Q!Max(S) >= y
           /\ \A x : IsFiniteSet(S \ {x}) /\ Cardinality(S \ {x}) =
                        IF x \in S THEN Cardinality(S) - 1 ELSE Cardinality(S)
<1>1. S \in SUBSET Nat /\ IsFiniteSet(S)
  BY FiniteLevels, FS_Subset
<1> QED
  BY <1>1, FS_CardinalityType, MaxIsLargest, FS_RemoveElement

LEMMA LevelsOfSome ==
    ASSUME Q!PolicyAssumption, NEW E \in SUBSET Queued, E # {}
    PROVE  /\ Q!LevelsOf(E) \in SUBSET Q!Levels /\ Q!LevelsOf(E) # {}
           /\ Q!Max(Q!LevelsOf(E)) \in Q!LevelsOf(E)
           /\ \A y \in Q!LevelsOf(E) : Q!Max(Q!LevelsOf(E)) >= y
<1>1. Q!LevelsOf(E) \in SUBSET Q!Levels /\ Q!LevelsOf(E) # {}
  BY DEF Q!LevelsOf, Q!Levels
<1> QED
  BY <1>1, SomeLevels

\* What the deferral chooses.
LEMMA Deferred ==
    ASSUME Q!PolicyAssumption, NEW D \in SUBSET Q!Levels, D # {},
           lastDeferred \in Q!Levels \cup {-1}
    PROVE  LET next == Q!NextDeferred(D)
           IN /\ next \in D
              /\ lastDeferred \in D =>
                   \/ next < lastDeferred /\ \A x \in D : x < lastDeferred => x <= next
                   \/ /\ \A x \in D : lastDeferred <= x
                      /\ \A x \in D : x <= next
<1> DEFINE after == {p \in D : p < lastDeferred}
<1>1. D \in SUBSET Nat /\ Q!Max(D) \in D /\ \A y \in D : Q!Max(D) >= y
  BY SomeLevels
<1>2. after # {} => Q!Max(after) \in after /\ \A y \in after : Q!Max(after) >= y
  <2>1. after \in SUBSET Q!Levels
    OBVIOUS
  <2> HIDE DEF after
  <2> QED
    BY <2>1, SomeLevels
<1>3. Q!NextDeferred(D) = IF lastDeferred \in D /\ after # {} THEN Q!Max(after) ELSE Q!Max(D)
  BY DEF Q!NextDeferred
<1>4. CASE lastDeferred \in D /\ after # {}
  BY <1>1, <1>2, <1>3, <1>4
<1>5. CASE lastDeferred \in D /\ after = {}
  BY <1>1, <1>3, <1>5
<1>6. CASE lastDeferred \notin D
  BY <1>1, <1>3, <1>6
<1> QED
  BY <1>4, <1>5, <1>6

\* The level selected is one of those that compete; the deferral is never to the highest.
LEMMA SelectedLevelFact ==
    ASSUME Q!PolicyAssumption, NEW E \in SUBSET Queued, E # {},
           lastDeferred \in Q!Levels \cup {-1}, streak \in 0..Burst
    PROVE  LET S == Q!LevelsOf(E)  D == S \ {Q!Max(S)}
           IN /\ Q!SelectedLevel(E) \in S
              /\ ~Q!Defers(E) => Q!SelectedLevel(E) = Q!Max(S)
              /\ Q!Defers(E) => /\ streak = Burst /\ D # {} /\ Cardinality(S) > 1
                              /\ Q!SelectedLevel(E) = Q!NextDeferred(D) /\ Q!SelectedLevel(E) \in D
<1> DEFINE S == Q!LevelsOf(E)
           D == S \ {Q!Max(S)}
<1>1. S \in SUBSET Q!Levels /\ S # {} /\ Q!Max(S) \in S
  BY LevelsOfSome
<1>2. Cardinality(S) \in Nat /\ IsFiniteSet(D) /\ Cardinality(D) = Cardinality(S) - 1
  <2> HIDE DEF S
  <2> QED
    BY <1>1, SomeLevels
<1>3. Cardinality(S) > 1 => D # {}
  BY <1>2, FS_EmptySet
<1>4. Q!SelectedLevel(E) = IF Q!Defers(E) THEN Q!NextDeferred(D) ELSE Q!Max(S)
  BY DEF Q!SelectedLevel
<1>5. Q!Defers(E) => streak = Burst /\ Cardinality(S) > 1
  BY SameCounts DEF Q!Defers, Q!PolicyAssumption
<1>6. D # {} => Q!NextDeferred(D) \in D
  <2>1. D \in SUBSET Q!Levels
    BY <1>1
  <2> HIDE DEF D
  <2> QED
    BY <2>1, Deferred
<1> HIDE DEF S
<1> QED
  BY <1>1, <1>3, <1>4, <1>5, <1>6 DEF S

\* The batch selected is one of the level selected, and its oldest request is there.
LEMMA SelectedBatchFact ==
    ASSUME Q!PolicyAssumption, NEW q \in Seq(Queued), NEW run \in [Queued -> Nat],
           NEW E, E = Q!Eligible(q, run), E # {},
           lastDeferred \in Q!Levels \cup {-1}, streak \in 0..Burst
    PROVE  /\ Q!SelectedBatch(q, E) \in E
           /\ Priority[Q!SelectedBatch(q, E)] = Q!SelectedLevel(E)
           /\ Q!Min(Q!Positions(q, Q!SelectedBatch(q, E))) \in DOMAIN q
<1> DEFINE p == Q!SelectedLevel(E)
           first(b) == Q!Min(Q!Positions(q, b))
           firsts == {first(b) : b \in {c \in E : Priority[c] = p}}
           after == {i \in firsts : lastBatch[p] \in E /\ i > first(lastBatch[p])}
<1>1. E \in SUBSET Queued /\ \A b \in E : Q!Positions(q, b) # {}
  BY DEF Q!Eligible, Q!Waits
<1>2. \A b \in E : first(b) \in DOMAIN q /\ q[first(b)] = b
  <2> TAKE b \in E
  <2>1. Q!Positions(q, b) \in SUBSET Nat /\ Q!Positions(q, b) # {}
    BY <1>1, LenProperties DEF Q!Positions
  <2>2. first(b) \in Q!Positions(q, b)
    BY <2>1, MinIsLeast
  <2> QED
    BY <2>2 DEF Q!Positions
<1>3. p \in Q!LevelsOf(E)
  BY <1>1, SelectedLevelFact
<1>4. firsts # {} /\ firsts \in SUBSET Nat
  <2>1. \E c \in E : Priority[c] = p
    BY <1>3 DEF Q!LevelsOf
  <2>2. DOMAIN q \in SUBSET Nat
    BY LenProperties
  <2> QED
    BY <1>2, <2>1, <2>2
<1> DEFINE i == IF after # {} THEN Q!Min(after) ELSE Q!Min(firsts)
<1>5. i \in firsts
  <2>1. after \in SUBSET firsts
    OBVIOUS
  <2> HIDE DEF after, firsts
  <2>2. after # {} => Q!Min(after) \in after
    BY <1>4, <2>1, MinIsLeast
  <2>3. Q!Min(firsts) \in firsts
    BY <1>4, MinIsLeast
  <2> QED
    BY <2>1, <2>2, <2>3
<1>6. PICK b \in E : Priority[b] = p /\ i = first(b)
  BY <1>5
<1>7. Q!SelectedBatch(q, E) = q[i]
  BY DEF Q!SelectedBatch
<1>8. Q!SelectedBatch(q, E) = b
  BY <1>2, <1>6, <1>7
<1> QED
  BY <1>2, <1>6, <1>8

-----------------------------------------------------------------------------
\* A deferral is one more of the levels that were deferred to since p was.
LEMMA SinceGrows ==
    ASSUME Q!PolicyAssumption, NEW D \in SUBSET Q!Levels, NEW last \in D, NEW next \in D,
           NEW p \in D, p # next,
           \/ next < last /\ \A x \in D : x < last => x <= next
           \/ (\A x \in D : last <= x) /\ (\A x \in D : x <= next)
    PROVE  Cardinality(Since(D, next, p)) >= Cardinality(Since(D, last, p)) + 1
<1>1. D \in SUBSET Nat /\ IsFiniteSet(D)
  BY SomeLevels
<1>2. next \notin Since(D, last, p)
  BY <1>1 DEF Since
<1>3. Since(D, last, p) \cup {next} \in SUBSET Since(D, next, p)
  <2>1. next \in Since(D, next, p)
    BY <1>1 DEF Since
  <2>2. ASSUME NEW x \in Since(D, last, p) PROVE x \in Since(D, next, p)
    <3>1. x \in D
      BY <2>2 DEF Since
    <3>2. {x, p, last, next} \subseteq Nat
      BY <1>1, <3>1
    <3>3. IF last <= p THEN last <= x /\ x < p ELSE x < p \/ last <= x
      BY <2>2 DEF Since
    <3>4. IF next <= p THEN next <= x /\ x < p ELSE x < p \/ next <= x
      BY <3>1, <3>2, <3>3
    <3> QED
      BY <3>1, <3>4 DEF Since
  <2> QED
    BY <2>1, <2>2
<1>4. IsFiniteSet(Since(D, last, p)) /\ IsFiniteSet(Since(D, next, p))
  <2>1. Since(D, last, p) \in SUBSET D /\ Since(D, next, p) \in SUBSET D
    BY DEF Since
  <2> QED
    BY <1>1, <2>1, FS_Subset
<1>5. Cardinality(Since(D, last, p) \cup {next}) = Cardinality(Since(D, last, p)) + 1
  BY <1>2, <1>4, FS_AddElement
<1>6. Cardinality(Since(D, last, p) \cup {next}) <= Cardinality(Since(D, next, p))
  BY <1>3, <1>4, FS_Subset
<1> QED
  BY <1>5, <1>6

LEMMA SinceBounds ==
    ASSUME Q!PolicyAssumption, NEW D \in SUBSET Q!Levels, NEW last \in Q!Levels \cup {-1},
           NEW p \in D
    PROVE  /\ Cardinality(Since(D, last, p)) \in 0..(Cardinality(D) - 1)
           /\ last \in D /\ last # p => Cardinality(Since(D, last, p)) >= 1
<1>1. D \in SUBSET Nat /\ IsFiniteSet(D) /\ Cardinality(D) \in Nat
  BY SomeLevels
<1>2. Since(D, last, p) \in SUBSET (D \ {p})
  BY <1>1, FiniteLevels DEF Since
<1>3. IsFiniteSet(D \ {p}) /\ Cardinality(D \ {p}) = Cardinality(D) - 1
  BY <1>1, FS_RemoveElement
<1>4. /\ IsFiniteSet(Since(D, last, p)) /\ Cardinality(Since(D, last, p)) \in Nat
      /\ Cardinality(Since(D, last, p)) <= Cardinality(D) - 1
  BY <1>2, <1>3, FS_Subset, FS_CardinalityType
<1>5. last \in D /\ last # p => Since(D, last, p) # {}
  <2>1. last \in D /\ last # p => last \in Since(D, last, p)
    BY <1>1 DEF Since
  <2> QED
    BY <2>1
<1>6. Since(D, last, p) # {} => Cardinality(Since(D, last, p)) # 0
  BY <1>4, FS_EmptySet
<1> QED
  BY <1>1, <1>4, <1>5, <1>6

\* A selection among the batches E, as far as the levels are concerned.
Selects(E, sel) ==
    /\ levels' = Q!LevelsOf(E)
    /\ steady' = IF levels = Q!LevelsOf(E) THEN steady + 1 ELSE 1
    /\ \A p \in Q!LevelsOf(E) : skipped'[p] = IF p = sel THEN 0 ELSE skipped[p] + 1
    /\ lastDeferred' = IF Q!Defers(E) THEN sel ELSE lastDeferred
    /\ streak' = IF Q!Defers(E) \/ Cardinality(Q!LevelsOf(E)) = 1 THEN 0 ELSE streak + 1

\* A selection among the same levels makes the others wait for one more; one
\* among other levels starts the count again.
LEMMA SelectionKeeps ==
    ASSUME Q!PolicyAssumption, QueueInv, NEW E \in SUBSET Queued, E # {},
           Selects(E, Q!SelectedLevel(E))
    PROVE  TopPatient' /\ LowerPatient'
<1> DEFINE S == Q!LevelsOf(E)
           top == Q!Max(S)
           D == S \ {top}
           sel == Q!SelectedLevel(E)
<1>1. /\ lastDeferred \in Q!Levels \cup {-1} /\ streak \in 0..Burst /\ steady \in Nat
      /\ levels \in SUBSET Q!Levels /\ skipped \in [Q!Levels -> Nat] /\ Burst \in Nat \ {0}
  BY DEF QueueInv, QueueTyped, Q!PolicyAssumption
<1>2. /\ S \in SUBSET Q!Levels /\ S # {} /\ top \in S /\ D \in SUBSET Q!Levels /\ sel \in S
      /\ ~Q!Defers(E) => sel = top
      /\ Q!Defers(E) => streak = Burst /\ sel = Q!NextDeferred(D) /\ sel \in D
  BY <1>1, LevelsOfSome, SelectedLevelFact
<1>3. /\ levels' = S /\ LowerLevels' = D
      /\ \A p \in S : skipped'[p] = IF p = sel THEN 0 ELSE skipped[p] + 1
  BY DEF Selects, LowerLevels
<1>4. /\ steady' = IF levels = S THEN steady + 1 ELSE 1
      /\ lastDeferred' = IF Q!Defers(E) THEN sel ELSE lastDeferred
      /\ streak' = IF Q!Defers(E) \/ Cardinality(S) = 1 THEN 0 ELSE streak + 1
  BY DEF Selects
<1>5. \A p \in S : /\ Waited(p)' \in Nat /\ Waited(p) \in Nat
                   /\ p = sel => Waited(p)' = 0
                   /\ Waited(p)' <= IF levels = S THEN Waited(p) + 1 ELSE 1
  BY <1>1, <1>2, <1>3, <1>4 DEF Waited
<1>6. ~Q!Defers(E) => streak' = IF D = {} THEN 0 ELSE streak + 1
  <2>1. D = {} <=> Cardinality(S) = 1
    <3>1. IsFiniteSet(S) /\ IsFiniteSet(D) /\ Cardinality(D) = Cardinality(S) - 1
          /\ Cardinality(S) \in Nat
      <4> HIDE DEF S
      <4> QED
        BY <1>2, SomeLevels
    <3>2. D = {} <=> Cardinality(D) = 0
      BY <3>1, FS_EmptySet
    <3> QED
      BY <3>1, <3>2
  <2> QED
    BY <1>4, <2>1
<1>7. \A p \in D, last \in Q!Levels \cup {-1} :
        /\ Cardinality(Since(D, last, p)) \in Nat
        /\ last \in D /\ last # p => Cardinality(Since(D, last, p)) >= 1
  <2> TAKE p \in D, last \in Q!Levels \cup {-1}
  <2> HIDE DEF D
  <2>1. D \in SUBSET Q!Levels /\ Cardinality(D) \in Nat
    BY <1>2, SomeLevels
  <2>2. /\ Cardinality(Since(D, last, p)) \in 0..(Cardinality(D) - 1)
        /\ last \in D /\ last # p => Cardinality(Since(D, last, p)) >= 1
    BY <2>1, SinceBounds
  <2> QED
    BY <2>1, <2>2
<1>8. lastDeferred' \in Q!Levels \cup {-1}
  BY <1>1, <1>2, <1>4
<1>9. TopPatient'
  <2>1. Waited(top)' <= 1 /\ (Waited(top)' = 1 => streak' = 0)
    <3>1. CASE ~Q!Defers(E)
      BY <1>2, <1>5, <3>1
    <3>2. CASE Q!Defers(E) /\ levels # S
      BY <1>2, <1>4, <1>5, <3>2
    <3>3. CASE Q!Defers(E) /\ levels = S
      <4>1. Waited(top) = 0
        BY <1>1, <1>2, <1>5, <3>3 DEF QueueInv, TopPatient
      <4> QED
        BY <1>2, <1>4, <1>5, <3>3, <4>1
    <3> QED
      BY <3>1, <3>2, <3>3
  <2>2. Q!Max(levels)' = top
    BY <1>3
  <2> QED
    BY <2>1, <2>2 DEF TopPatient
<1>10. ASSUME NEW p \in D
       PROVE  /\ Waited(p)' <= streak' + (Burst + 1) * Cardinality(Since(D, lastDeferred', p))
              /\ lastDeferred' \notin D => Waited(p)' <= streak'
  <2> DEFINE k == Cardinality(Since(D, lastDeferred, p))
             k1 == Cardinality(Since(D, lastDeferred', p))
  <2>1. k \in Nat /\ k1 \in Nat
    BY <1>1, <1>7, <1>8
  <2>2. levels = S => /\ Waited(p) <= streak + (Burst + 1) * k
                      /\ lastDeferred \notin D => Waited(p) <= streak
    BY DEF QueueInv, LowerPatient, LowerLevels
  <2>3. p \in S /\ p # top
    OBVIOUS
  <2>4. CASE ~Q!Defers(E)
    <3>1. streak' = streak + 1 /\ lastDeferred' = lastDeferred /\ k1 = k
      BY <1>4, <1>6, <2>4
    <3>2. CASE levels # S
      <4>1. Waited(p)' <= 1
        BY <1>5, <2>3, <3>2
      <4>2. (Burst + 1) * k \in Nat
        BY <1>1, <2>1
      <4> HIDE DEF k
      <4> QED
        BY <1>1, <1>5, <2>3, <3>1, <4>1, <4>2
    <3>3. CASE levels = S
      <4>1. (Burst + 1) * k \in Nat
        BY <1>1, <2>1
      <4> HIDE DEF k, k1
      <4>2. Waited(p)' <= Waited(p) + 1 /\ Waited(p) \in Nat /\ Waited(p)' \in Nat
        BY <1>5, <2>3, <3>3
      <4> QED
        BY <1>1, <2>2, <3>1, <3>3, <4>1, <4>2 DEF k, k1
    <3> QED
      BY <3>2, <3>3
  <2>5. CASE Q!Defers(E)
    <3>1. streak = Burst /\ streak' = 0 /\ lastDeferred' = sel /\ sel \in D
      BY <1>2, <1>4, <2>5
    <3>2. CASE p = sel
      <4>1. Waited(p)' = 0
        BY <1>5, <2>3, <3>2
      <4>2. (Burst + 1) * k1 \in Nat
        BY <1>1, <2>1
      <4> QED
        BY <3>1, <4>1, <4>2
    <3>3. CASE p # sel
      <4>1. k1 >= 1
        BY <1>7, <1>8, <3>1, <3>3
      <4>2. (Burst + 1) * k1 >= Burst + 1
        <5> HIDE DEF k1
        <5> QED
          BY <1>1, <2>1, <4>1
      <4> DEFINE m == (Burst + 1) * k1
      <4>3. m \in Nat /\ m >= Burst + 1
        BY <1>1, <2>1, <4>2
      <4>4. SUFFICES Waited(p)' <= m
        BY <1>1, <1>5, <2>3, <3>1, <4>3
      <4> HIDE DEF m
      <4>5. CASE levels # S
        BY <1>1, <1>5, <2>3, <3>1, <4>5, <4>3
      <4>6. CASE levels = S /\ lastDeferred \notin D
        <5>1. Waited(p)' <= Burst + 1
          BY <1>1, <1>5, <2>2, <2>3, <3>1, <4>6
        <5> QED
          BY <1>1, <1>5, <2>3, <3>1, <4>6, <4>3, <5>1
      <4>7. CASE levels = S /\ lastDeferred \in D
        <5>1. k1 >= k + 1
          <6>1. \/ sel < lastDeferred /\ \A x \in D : x < lastDeferred => x <= sel
                \/ (\A x \in D : lastDeferred <= x) /\ (\A x \in D : x <= sel)
            <7> HIDE DEF D, sel
            <7> QED
              BY <1>1, <1>2, <2>5, <3>1, <4>7, Deferred
          <6> HIDE DEF D, sel
          <6> QED
            BY <1>2, <3>1, <3>3, <4>7, <6>1, SinceGrows
        <5>2. (Burst + 1) * k1 >= (Burst + 1) * (k + 1)
          <6> HIDE DEF k, k1
          <6> QED
            BY <1>1, <2>1, <5>1
        <5>3. (Burst + 1) * (k + 1) = (Burst + 1) * k + (Burst + 1)
          <6> HIDE DEF k
          <6> QED
            BY <1>1, <2>1
        <5>4. Waited(p)' <= Waited(p) + 1 /\ Waited(p) \in Nat /\ Waited(p)' \in Nat
          BY <1>5, <2>3, <4>7
        <5>5. (Burst + 1) * k \in Nat /\ (Burst + 1) * k1 \in Nat
          BY <1>1, <2>1
        <5>6. Waited(p) <= Burst + (Burst + 1) * k
          BY <2>2, <3>1, <4>7
        <5> QED
          BY <1>1, <3>1, <5>2, <5>3, <5>4, <5>5, <5>6 DEF m
      <4> QED
        BY <4>5, <4>6, <4>7
    <3> QED
      BY <3>2, <3>3
  <2> QED
    BY <2>4, <2>5
<1>11. LowerPatient'
  <2> HIDE DEF D
  <2> QED
    BY <1>3, <1>10 DEF LowerPatient
<1> QED
  BY <1>9, <1>11

LEMMA RemovedAt ==
    ASSUME NEW q \in Seq(Queued), NEW i \in DOMAIN q PROVE Q!RemoveAt(q, i) \in Seq(Queued)
<1>1. Len(q) \in Nat /\ i \in 1..Len(q)
  BY LenProperties
<1>2. SubSeq(q, 1, i - 1) \in Seq(Queued)
  <2>1. i - 1 \in Int /\ \A j \in 1..(i - 1) : q[j] \in Queued
    BY <1>1, ElementOfSeq
  <2> QED
    BY <1>1, <2>1, SubSeqProperties
<1>3. SubSeq(q, i + 1, Len(q)) \in Seq(Queued)
  <2>1. \A j \in (i + 1)..Len(q) : q[j] \in Queued
    BY <1>1, ElementOfSeq
  <2> QED
    BY <1>1, <2>1, SubSeqProperties
<1> QED
  BY <1>2, <1>3, ConcatProperties DEF Q!RemoveAt

LEMMA DispatchKeeps ==
    ASSUME Q!PolicyAssumption, QueueInv, unasked' \in [Queued -> Nat],
           NEW q \in Seq(Queued), NEW run \in [Queued -> Nat],
           \A b \in Queued : run[b] <= Concurrency[b], Q!Dispatch(q, run)
    PROVE  QueueInv'
<1> DEFINE E == Q!Eligible(q, run)
           b == Q!SelectedBatch(q, E)
<1>1. E \in SUBSET Queued
  BY DEF Q!Eligible
<1>2. CASE ~(Q!GlobalRunning(run) < MaxGlobal /\ E # {})
  <2>1. waiting' = q /\ running' = run
        /\ UNCHANGED <<lastBatch, lastDeferred, streak, Q!history>>
    BY <1>2 DEF Q!Dispatch
  <2>2. QueueTyped'
    BY <2>1 DEF QueueInv, QueueTyped, Q!history
  <2> QED
    BY <2>1, <2>2 DEF QueueInv, TopPatient, LowerPatient, LowerLevels, Waited, Q!history
<1>3. CASE Q!GlobalRunning(run) < MaxGlobal /\ E # {}
  <2>1. /\ lastDeferred \in Q!Levels \cup {-1} /\ streak \in 0..Burst /\ Burst \in Nat \ {0}
        /\ skipped \in [Q!Levels -> Nat] /\ bypassed \in [Queued -> Nat] /\ steady \in Nat
        /\ lastBatch \in [Q!Levels -> Queued \cup {NoBatch}]
        /\ \A p \in Q!Levels : lastBatch[p] # NoBatch => Priority[lastBatch[p]] = p
    BY DEF QueueInv, QueueTyped, Q!PolicyAssumption
  <2>2. /\ b \in E /\ Priority[b] = Q!SelectedLevel(E) /\ Q!Min(Q!Positions(q, b)) \in DOMAIN q
    <3> HIDE DEF E
    <3> QED
      BY <1>3, <2>1, SelectedBatchFact DEF E
  <2>3. b \in Queued /\ run[b] < Concurrency[b] /\ Priority[b] \in Q!Levels
    BY <2>2 DEF Q!Eligible, Q!Levels
  <2> HIDE DEF b
  <2>4. /\ waiting' = Q!RemoveAt(q, Q!Min(Q!Positions(q, b)))
        /\ running' = [run EXCEPT ![b] = @ + 1]
        /\ lastBatch' = [lastBatch EXCEPT ![Priority[b]] = b]
        /\ lastDeferred' = IF Q!Defers(E) THEN Priority[b] ELSE lastDeferred
        /\ streak' = IF Q!Defers(E) \/ Cardinality(Q!LevelsOf(E)) = 1 THEN 0 ELSE streak + 1
        /\ bypassed' = [c \in Queued |->
                IF c = b \/ c \notin E THEN 0
                ELSE IF Priority[c] = Priority[b] THEN bypassed[c] + 1 ELSE bypassed[c]]
        /\ skipped' = [p \in Q!Levels |->
                IF p = Priority[b] \/ p \notin Q!LevelsOf(E) THEN 0 ELSE skipped[p] + 1]
        /\ levels' = Q!LevelsOf(E)
        /\ steady' = IF levels = Q!LevelsOf(E) THEN steady + 1 ELSE 1
    BY <1>3, SameCounts DEF Q!Dispatch, b
  <2>5. Q!LevelsOf(E) \in SUBSET Q!Levels /\ Cardinality(Q!LevelsOf(E)) \in Nat \ {0}
    <3>1. Q!LevelsOf(E) \in SUBSET Q!Levels /\ Q!LevelsOf(E) # {}
      BY <1>1, <1>3, LevelsOfSome
    <3> QED
      BY <3>1, SomeLevels, FS_EmptySet
  <2>6. TopPatient' /\ LowerPatient'
    <3>1. Selects(E, Q!SelectedLevel(E))
      <4> HIDE DEF E
      <4> QED
        BY <2>2, <2>4, <2>5 DEF Selects
    <3> QED
      BY <1>1, <1>3, <3>1, SelectionKeeps
  <2>7. QueueTyped'
    <3>1. waiting' \in Seq(Queued)
      BY <2>2, <2>4, RemovedAt
    <3>2. running' \in [Queued -> Nat] /\ \A c \in Queued : running'[c] <= Concurrency[c]
      BY <2>3, <2>4 DEF Q!PolicyAssumption
    <3>3. /\ lastBatch' \in [Q!Levels -> Queued \cup {NoBatch}]
          /\ \A p \in Q!Levels : lastBatch'[p] # NoBatch => Priority[lastBatch'[p]] = p
      BY <2>1, <2>3, <2>4
    <3>4. streak' \in 0..Burst
      <4>1. ~Q!Defers(E) /\ Cardinality(Q!LevelsOf(E)) # 1 => streak < Burst
        <5> HIDE DEF E
        <5> QED
          BY <2>1, <2>5, SameCounts DEF Q!Defers
      <4> QED
        BY <2>1, <2>4, <4>1
    <3>5. bypassed' \in [Queued -> Nat] /\ skipped' \in [Q!Levels -> Nat]
      <4> HIDE DEF E
      <4> QED
        BY <2>1, <2>4
    <3>6. levels' \in SUBSET Q!Levels /\ steady' \in Nat /\ lastDeferred' \in Q!Levels \cup {-1}
      <4> HIDE DEF E
      <4> QED
        BY <2>1, <2>3, <2>4, <2>5
    <3> QED
      BY <3>1, <3>2, <3>3, <3>4, <3>5, <3>6 DEF QueueTyped
  <2> QED
    BY <2>6, <2>7 DEF QueueInv
<1> QED
  BY <1>2, <1>3

LEMMA QueueStepKeeps == ASSUME Q!PolicyAssumption, QueueInv, [Q!Next]_(Q!vars) PROVE QueueInv'
<1>1. /\ unasked \in [Queued -> Nat] /\ waiting \in Seq(Queued)
      /\ running \in [Queued -> Nat] /\ \A b \in Queued : running[b] <= Concurrency[b]
  BY DEF QueueInv, QueueTyped
<1>2. ASSUME NEW b \in Queued, Q!Arrive(b) PROVE QueueInv'
  <2>1. unasked' \in [Queued -> Nat] /\ Append(waiting, b) \in Seq(Queued)
        /\ Q!Dispatch(Append(waiting, b), running)
    BY <1>1, <1>2, AppendProperties DEF Q!Arrive
  <2> QED
    BY <1>1, <2>1, DispatchKeeps
<1>3. ASSUME NEW b \in Queued, Q!Finish(b) PROVE QueueInv'
  <2> DEFINE run == [running EXCEPT ![b] = @ - 1]
  <2>1. running[b] > 0 /\ Q!Dispatch(waiting, run) /\ unasked' = unasked
    BY <1>3 DEF Q!Finish
  <2>2. run \in [Queued -> Nat] /\ \A c \in Queued : run[c] <= Concurrency[c]
    BY <1>1, <2>1 DEF Q!PolicyAssumption
  <2> HIDE DEF run
  <2> QED
    BY <1>1, <2>1, <2>2, DispatchKeeps
<1>4. ASSUME NEW b \in Queued, Q!Purge(b) PROVE QueueInv'
  <2>1. Priority[b] \in Q!Levels
    BY DEF Q!Levels
  <2>2. QueueTyped'
    BY <1>4, <2>1 DEF QueueInv, QueueTyped, Q!Purge, Q!history
  <2> QED
    BY <1>4, <2>2 DEF QueueInv, TopPatient, LowerPatient, LowerLevels, Waited, Q!Purge, Q!history
<1>5. ASSUME NEW i \in DOMAIN waiting, Q!Withdraw(i) PROVE QueueInv'
  <2>1. Q!RemoveAt(waiting, i) \in Seq(Queued) /\ Q!Dispatch(Q!RemoveAt(waiting, i), running)
        /\ unasked' = unasked
    BY <1>1, <1>5, RemovedAt DEF Q!Withdraw
  <2> QED
    BY <1>1, <2>1, DispatchKeeps
<1>6. CASE UNCHANGED Q!vars
  <2>1. QueueTyped'
    BY <1>6 DEF QueueInv, QueueTyped, Q!vars, Q!history
  <2> QED
    BY <1>6, <2>1 DEF QueueInv, TopPatient, LowerPatient, LowerLevels, Waited, Q!vars, Q!history
<1> QED
  BY <1>2, <1>3, <1>4, <1>5, <1>6 DEF Q!Next

LEMMA QueueInductive == Q!Spec => []QueueInv
<1>1. ASSUME Q!PolicyAssumption, Q!Init PROVE QueueInv
  <2>1. Burst \in Nat \ {0} /\ Files \in [Queued -> Nat] /\ Concurrency \in [Queued -> Nat \ {0}]
    BY <1>1 DEF Q!PolicyAssumption
  <2>2. QueueTyped
    BY <1>1, <2>1 DEF Q!Init, QueueTyped
  <2>3. TopPatient /\ LowerPatient
    BY <1>1 DEF Q!Init, TopPatient, LowerPatient, LowerLevels
  <2> QED
    BY <2>2, <2>3 DEF QueueInv
<1> QED
  BY <1>1, QueueStepKeeps, QueuesAssumption, PTL DEF Q!Spec

\* The queue of requests, its counters and its cursors keep their types, and no
\* batch runs more tasks than its concurrency (_dispatch_available_locked).
THEOREM QueueTypeCorrect == Q!Spec => []Q!TypeOK
<1>1. QueueInv => Q!TypeOK
  BY QueuesAssumption DEF QueueInv, QueueTyped, Q!TypeOK, Q!PolicyAssumption
<1> QED
  BY <1>1, QueueInductive, PTL

\* Priorities do not starve one another while the same levels compete for the
\* slots: each is served within Burst selections and a deferral for each of the
\* others (_select_dispatch_request_locked).
THEOREM LevelsTakeTurns == Q!Spec => []LevelsAlternate
<1>1. ASSUME QueueInv PROVE LevelsAlternate
  <2> DEFINE n == Cardinality(levels)
             patience == (Burst + 1) * (n - 1)
  <2>1. /\ levels \in SUBSET Q!Levels /\ streak \in 0..Burst /\ Burst \in Nat \ {0}
        /\ lastDeferred \in Q!Levels \cup {-1} /\ steady \in Nat /\ skipped \in [Q!Levels -> Nat]
    BY <1>1, QueuesAssumption DEF QueueInv, QueueTyped, Q!PolicyAssumption
  <2>2. /\ n \in Nat
        /\ levels # {} => Q!Max(levels) \in levels /\ Cardinality(LowerLevels) = n - 1
    <3>1. n \in Nat /\ (levels # {} => Q!Max(levels) \in levels)
          /\ \A x : Cardinality(levels \ {x}) = IF x \in levels THEN n - 1 ELSE n
      BY <2>1, SomeLevels, QueuesAssumption
    <3> QED
      BY <3>1 DEF LowerLevels
  <2>3. ASSUME n > 1, NEW p \in levels PROVE Waited(p) < patience
    <3>1. patience = (Burst + 1) * (n - 2) + (Burst + 1) /\ (Burst + 1) * (n - 2) \in Nat
      <4> HIDE DEF n
      <4> QED
        BY <2>1, <2>2, <2>3
    <3>2. Waited(p) \in Nat
      BY <2>1 DEF Waited
    <3>3. CASE p = Q!Max(levels)
      <4>1. Waited(p) <= 1
        BY <1>1, <3>3 DEF QueueInv, TopPatient
      <4> HIDE DEF n, patience
      <4> QED
        BY <2>1, <3>1, <3>2, <4>1
    <3>4. CASE p \in LowerLevels
      <4> DEFINE k == Cardinality(Since(LowerLevels, lastDeferred, p))
      <4>1. k \in 0..(n - 2)
        <5>1. LowerLevels \in SUBSET Q!Levels
          BY <2>1 DEF LowerLevels
        <5>2. k \in 0..(Cardinality(LowerLevels) - 1)
          BY <2>1, <3>4, <5>1, SinceBounds, QueuesAssumption
        <5> QED
          BY <2>2, <5>2
      <4>2. Waited(p) <= streak + (Burst + 1) * k
        BY <1>1, <3>4 DEF QueueInv, LowerPatient
      <4>3. (Burst + 1) * k <= (Burst + 1) * (n - 2) /\ (Burst + 1) * k \in Nat
        <5> HIDE DEF k, n
        <5> QED
          BY <2>1, <2>2, <4>1
      <4> HIDE DEF n, k, patience
      <4> QED
        BY <2>1, <3>1, <3>2, <4>2, <4>3
    <3> QED
      BY <3>3, <3>4 DEF LowerLevels
  <2>4. ASSUME n > 1, steady >= patience, NEW p \in levels PROVE skipped[p] < patience
    <3>1. Waited(p) < patience
      BY <2>3, <2>4
    <3>2. patience \in Int /\ skipped[p] \in Nat
      <4> HIDE DEF n
      <4> QED
        BY <2>1, <2>2
    <3> HIDE DEF patience
    <3> QED
      BY <2>1, <2>4, <3>1, <3>2 DEF Waited
  <2> QED
    BY <2>4, SameCounts DEF LevelsAlternate, Q!LevelsAlternate
<1> QED
  BY <1>1, QueueInductive, PTL
==============================================================================
