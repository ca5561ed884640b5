--------------------------- MODULE MusicBotProofs ---------------------------
(***************************************************************************)
(* Proofs about MusicBot, for every number of bots, clients and songs and  *)
(* every set of urls, and about AudioEngine, for every number of streams   *)
(* and every set of tracks.                                                *)
(*                                                                         *)
(* What the commands do to a queue is settled first, by what they do to    *)
(* the entry at each place.  Every step of the specification then has one  *)
(* of four shapes (StepShapes), and the theorems follow from the shapes.   *)
(* The engine comes last, with an invariant of its own.                    *)
(***************************************************************************)
EXTENDS MusicBot, AudioEngine, SequenceTheorems, FiniteSetTheorems, TLAPS

Entry == [id : SongIds, url : Urls]

QIds(q) == {q[i].id : i \in DOMAIN q}

\* No song is queued twice.
Distinct(q) == \A i, j \in 1..Len(q) : q[i].id = q[j].id => i = j

\* A queue of songs whose ids were given out before n.
Queue(q, n) == q \in Seq(Entry) /\ Distinct(q) /\ \A i \in 1..Len(q) : q[i].id < n

Record == [client : 0..MaxClient, queue : Seq(Entry), cur : 0..MaxSong,
           next : 1..(MaxSong + 1), state : States, mode : 0..2]

BotOK(r, n) == r \in Record /\ r.client <= n /\ Queue(r.queue, r.next)

IInv ==
    /\ DOMAIN bots \subseteq BotIds
    /\ clients \in 0..MaxClient
    /\ bots = [b \in DOMAIN bots |-> bots[b]]
    /\ \A b \in DOMAIN bots : BotOK(bots[b], clients)

-----------------------------------------------------------------------------
(* Queues.                                                                 *)

\* The ids of a queue are those at its places.
LEMMA IdsOfQueue ==
    ASSUME NEW q \in Seq(Entry)
    PROVE  /\ DOMAIN q = 1..Len(q) /\ Len(q) \in Nat
           /\ \A i \in 1..Len(q) : q[i] \in Entry /\ q[i].id \in QIds(q) /\ q[i].id \in SongIds
           /\ \A s \in QIds(q) : s \in SongIds /\ \E i \in 1..Len(q) : q[i].id = s
           /\ Len(q) = 0 <=> q = <<>>
           /\ QIds(q) = {} <=> q = <<>>
<1>1. DOMAIN q = 1..Len(q) /\ Len(q) \in Nat
  BY LenProperties
<1>2. \A i \in 1..Len(q) : q[i] \in Entry /\ q[i].id \in QIds(q) /\ q[i].id \in SongIds
  <2>1. \A i \in 1..Len(q) : q[i] \in Entry
    BY ElementOfSeq
  <2>2. \A e \in Entry : e.id \in SongIds
    BY DEF Entry
  <2> QED BY <1>1, <2>1, <2>2 DEF QIds
<1>3. \A s \in QIds(q) : s \in SongIds /\ \E i \in 1..Len(q) : q[i].id = s
  BY <1>1, <1>2 DEF QIds
<1>4. Len(q) = 0 <=> q = <<>>
  BY EmptySeq, LenProperties
<1>5. QIds(q) = {} <=> q = <<>>
  <2>1. Len(q) # 0 => 1 \in 1..Len(q)
    BY <1>1
  <2> QED BY <1>1, <1>2, <1>3, <1>4, <2>1
<1> QED BY <1>1, <1>2, <1>3, <1>4, <1>5

\* RemoveAt takes out one entry and keeps the order of the others.
LEMMA RemoveAtPlaces ==
    ASSUME NEW q \in Seq(Entry), NEW i \in 1..Len(q)
    PROVE  /\ RemoveAt(q, i) \in Seq(Entry)
           /\ Len(RemoveAt(q, i)) = Len(q) - 1
           /\ \A k \in 1..(Len(q) - 1) : RemoveAt(q, i)[k] = IF k < i THEN q[k] ELSE q[k + 1]
<1> DEFINE h == SubSeq(q, 1, i - 1)
           t == SubSeq(q, i + 1, Len(q))
<1>0. Len(q) \in Nat /\ \A k \in 1..Len(q) : q[k] \in Entry
  BY IdsOfQueue
<1>1. h \in Seq(Entry) /\ Len(h) = i - 1 /\ \A k \in 1..(i - 1) : h[k] = q[k]
  BY <1>0, SubSeqProperties
<1>2. t \in Seq(Entry) /\ Len(t) = Len(q) - i /\ \A k \in 1..(Len(q) - i) : t[k] = q[i + k]
  <2>1. \A k \in (i + 1)..Len(q) : q[k] \in Entry
    BY <1>0
  <2>2. /\ t \in Seq(Entry)
        /\ Len(t) = IF i + 1 <= Len(q) THEN Len(q) - (i + 1) + 1 ELSE 0
        /\ \A k \in 1..(Len(q) - (i + 1) + 1) : t[k] = q[(i + 1) + k - 1]
    <3> HIDE DEF t
    <3> QED BY <1>0, <2>1, SubSeqProperties DEF t
  <2> HIDE DEF t
  <2> QED BY <1>0, <2>2
<1>3. RemoveAt(q, i) = h \o t
  BY DEF RemoveAt
<1> HIDE DEF h, t
<1>4. /\ h \o t \in Seq(Entry) /\ Len(h \o t) = Len(h) + Len(t)
      /\ \A k \in 1..(Len(h) + Len(t)) : (h \o t)[k] = IF k <= Len(h) THEN h[k] ELSE t[k - Len(h)]
  BY <1>1, <1>2, ConcatProperties
<1>5. ASSUME NEW k \in 1..(Len(q) - 1) PROVE (h \o t)[k] = IF k < i THEN q[k] ELSE q[k + 1]
  <2>1. CASE k < i
    BY <1>0, <1>1, <1>2, <1>4, <2>1
  <2>2. CASE ~ (k < i)
    <3>1. k - (i - 1) \in 1..(Len(q) - i) /\ i + (k - (i - 1)) = k + 1
      BY <1>0, <2>2
    <3>2. (h \o t)[k] = t[k - (i - 1)]
      BY <1>0, <1>1, <1>2, <1>4, <2>2
    <3>3. t[k - (i - 1)] = q[i + (k - (i - 1))]
      BY <1>2, <3>1
    <3> QED BY <2>2, <3>1, <3>2, <3>3
  <2> QED BY <2>1, <2>2
<1> QED BY <1>0, <1>1, <1>2, <1>3, <1>4, <1>5

\* InsertAt puts one entry in and keeps the order of the others.
LEMMA InsertAtPlaces ==
    ASSUME NEW q \in Seq(Entry), NEW i \in 1..(Len(q) + 1), NEW e \in Entry
    PROVE  /\ InsertAt(q, i, e) \in Seq(Entry)
           /\ Len(InsertAt(q, i, e)) = Len(q) + 1
           /\ \A k \in 1..(Len(q) + 1) :
                 InsertAt(q, i, e)[k] = IF k < i THEN q[k] ELSE IF k = i THEN e ELSE q[k - 1]
<1> DEFINE h == SubSeq(q, 1, i - 1)
           t == SubSeq(q, i, Len(q))
           m == h \o <<e>>
<1>0. Len(q) \in Nat /\ \A k \in 1..Len(q) : q[k] \in Entry
  BY IdsOfQueue
<1>1. h \in Seq(Entry) /\ Len(h) = i - 1 /\ \A k \in 1..(i - 1) : h[k] = q[k]
  BY <1>0, SubSeqProperties
<1>2. t \in Seq(Entry) /\ Len(t) = Len(q) - i + 1 /\ \A k \in 1..(Len(q) - i + 1) : t[k] = q[i + k - 1]
  <2>1. \A k \in i..Len(q) : q[k] \in Entry
    BY <1>0
  <2>2. /\ t \in Seq(Entry)
        /\ Len(t) = IF i <= Len(q) THEN Len(q) - i + 1 ELSE 0
        /\ \A k \in 1..(Len(q) - i + 1) : t[k] = q[i + k - 1]
    <3> HIDE DEF t
    <3> QED BY <1>0, <2>1, SubSeqProperties DEF t
  <2> HIDE DEF t
  <2> QED BY <1>0, <2>2
<1>3. InsertAt(q, i, e) = m \o t
  BY DEF InsertAt
<1>4. m \in Seq(Entry) /\ Len(m) = i /\ m[i] = e /\ \A k \in 1..(i - 1) : m[k] = q[k]
  <2> DEFINE s == <<e>>
  <2>1. s \in Seq(Entry) /\ Len(s) = 1 /\ s[1] = e
    OBVIOUS
  <2> HIDE DEF h, s
  <2>2. /\ h \o s \in Seq(Entry) /\ Len(h \o s) = Len(h) + Len(s)
        /\ \A k \in 1..(Len(h) + Len(s)) : (h \o s)[k] = IF k <= Len(h) THEN h[k] ELSE s[k - Len(h)]
    BY <1>1, <2>1, ConcatProperties
  <2>3. m = h \o s
    BY DEF s
  <2> HIDE DEF m
  <2> QED BY <1>0, <1>1, <2>1, <2>2, <2>3
<1> HIDE DEF h, t, m
<1>5. /\ m \o t \in Seq(Entry) /\ Len(m \o t) = Len(m) + Len(t)
      /\ \A k \in 1..(Len(m) + Len(t)) : (m \o t)[k] = IF k <= Len(m) THEN m[k] ELSE t[k - Len(m)]
  BY <1>4, <1>2, ConcatProperties
<1>6. ASSUME NEW k \in 1..(Len(q) + 1)
      PROVE  (m \o t)[k] = IF k < i THEN q[k] ELSE IF k = i THEN e ELSE q[k - 1]
  <2>1. CASE k <= i
    <3>1. (m \o t)[k] = m[k]
      BY <1>0, <1>2, <1>4, <1>5, <2>1
    <3>2. k < i => k \in 1..(i - 1)
      BY <1>0
    <3> QED BY <1>4, <2>1, <3>1, <3>2
  <2>2. CASE ~ (k <= i)
    <3>1. k - i \in 1..(Len(q) - i + 1) /\ i + (k - i) - 1 = k - 1
      BY <1>0, <2>2
    <3>2. (m \o t)[k] = t[k - i]
      BY <1>0, <1>2, <1>4, <1>5, <2>2
    <3>3. t[k - i] = q[i + (k - i) - 1]
      BY <1>2, <3>1
    <3> QED BY <2>2, <3>1, <3>2, <3>3
  <2> QED BY <2>1, <2>2
<1> QED BY <1>0, <1>2, <1>3, <1>4, <1>5, <1>6

\* A removal keeps a queue a queue, and takes out one id.
LEMMA RemovedQueue ==
    ASSUME NEW n, NEW q, Queue(q, n), NEW i \in 1..Len(q)
    PROVE  /\ Queue(RemoveAt(q, i), n)
           /\ QIds(RemoveAt(q, i)) = QIds(q) \ {q[i].id}
<1> DEFINE r == RemoveAt(q, i)
<1>0. q \in Seq(Entry) /\ Len(q) \in Nat
  BY IdsOfQueue DEF Queue
<1>1. /\ r \in Seq(Entry) /\ Len(r) = Len(q) - 1
      /\ \A k \in 1..(Len(q) - 1) : r[k] = IF k < i THEN q[k] ELSE q[k + 1]
  BY <1>0, RemoveAtPlaces
<1> HIDE DEF r
<1>2. \A k \in 1..Len(r) : \E m \in 1..Len(q) : r[k] = q[m] /\ m # i /\ m = IF k < i THEN k ELSE k + 1
  <2> SUFFICES ASSUME NEW k \in 1..Len(r)
               PROVE  \E m \in 1..Len(q) : r[k] = q[m] /\ m # i /\ m = IF k < i THEN k ELSE k + 1
    OBVIOUS
  <2> DEFINE m == IF k < i THEN k ELSE k + 1
  <2>1. k \in 1..(Len(q) - 1) /\ m \in 1..Len(q) /\ m # i
    BY <1>0, <1>1
  <2>2. r[k] = q[m]
    BY <1>1, <2>1
  <2> QED BY <2>1, <2>2
<1>3. Distinct(r)
  <2> SUFFICES ASSUME NEW k \in 1..Len(r), NEW l \in 1..Len(r), r[k].id = r[l].id
               PROVE  k = l
    BY DEF Distinct
  <2>1. PICK m \in 1..Len(q) : r[k] = q[m] /\ m = IF k < i THEN k ELSE k + 1
    BY <1>2
  <2>2. PICK o \in 1..Len(q) : r[l] = q[o] /\ o = IF l < i THEN l ELSE l + 1
    BY <1>2
  <2>3. m = o
    BY <2>1, <2>2 DEF Queue, Distinct
  <2> QED BY <1>0, <1>1, <2>1, <2>2, <2>3
<1>4. \A k \in 1..Len(r) : r[k].id < n
  BY <1>2 DEF Queue
<1>5. QIds(r) \subseteq QIds(q) \ {q[i].id}
  <2> SUFFICES ASSUME NEW s \in QIds(r) PROVE s \in QIds(q) /\ s # q[i].id
    OBVIOUS
  <2>1. PICK k \in 1..Len(r) : r[k].id = s
    BY <1>1, IdsOfQueue
  <2>2. PICK m \in 1..Len(q) : r[k] = q[m] /\ m # i
    BY <1>2
  <2> QED BY <1>0, <2>1, <2>2, IdsOfQueue DEF Queue, Distinct
<1>6. ASSUME NEW s \in QIds(q), s # q[i].id PROVE s \in QIds(r)
  <2>1. PICK m \in 1..Len(q) : q[m].id = s
    BY <1>0, IdsOfQueue
  <2>2. m # i
    BY <1>6, <2>1
  <2> DEFINE k == IF m < i THEN m ELSE m - 1
  <2>3. k \in 1..Len(r) /\ k \in 1..(Len(q) - 1) /\ (IF k < i THEN k ELSE k + 1) = m
    BY <1>0, <1>1, <2>2
  <2> HIDE DEF k
  <2>4. r[k] = q[m]
    BY <1>1, <2>3
  <2> QED BY <1>1, <2>1, <2>3, <2>4, IdsOfQueue
<1> QED BY <1>1, <1>3, <1>4, <1>5, <1>6 DEF Queue, r

\* A new song keeps a queue a queue, and brings its id.
LEMMA InsertedQueue ==
    ASSUME NEW n, NEW q, Queue(q, n), NEW i \in 1..(Len(q) + 1), NEW e \in Entry,
           e.id < n, e.id \notin QIds(q)
    PROVE  /\ Queue(InsertAt(q, i, e), n)
           /\ QIds(InsertAt(q, i, e)) = QIds(q) \union {e.id}
           /\ InsertAt(q, i, e) # <<>>
<1> DEFINE r == InsertAt(q, i, e)
<1>0. q \in Seq(Entry) /\ Len(q) \in Nat
  BY IdsOfQueue DEF Queue
<1>1. /\ r \in Seq(Entry) /\ Len(r) = Len(q) + 1
      /\ \A k \in 1..(Len(q) + 1) : r[k] = IF k < i THEN q[k] ELSE IF k = i THEN e ELSE q[k - 1]
  BY <1>0, InsertAtPlaces
<1> HIDE DEF r
<1>2. /\ i \in 1..Len(r) /\ r[i] = e
      /\ \A k \in 1..Len(r) : k # i =>
            \E m \in 1..Len(q) : r[k] = q[m] /\ m = IF k < i THEN k ELSE k - 1
  BY <1>0, <1>1
<1>2a. \A k \in 1..Len(r) : k # i => r[k].id \in QIds(q)
  BY <1>0, <1>2, IdsOfQueue
<1>3. Distinct(r)
  <2> SUFFICES ASSUME NEW k \in 1..Len(r), NEW l \in 1..Len(r), r[k].id = r[l].id
               PROVE  k = l
    BY DEF Distinct
  <2>0. CASE k = i \/ l = i
    BY <1>2, <1>2a, <2>0
  <2>1. CASE k # i /\ l # i
    <3>1. PICK m \in 1..Len(q) : r[k] = q[m] /\ m = IF k < i THEN k ELSE k - 1
      BY <1>2, <2>1
    <3>2. PICK o \in 1..Len(q) : r[l] = q[o] /\ o = IF l < i THEN l ELSE l - 1
      BY <1>2, <2>1
    <3>3. m = o
      BY <3>1, <3>2 DEF Queue, Distinct
    <3> QED BY <1>0, <1>1, <2>1, <3>1, <3>2, <3>3
  <2> QED BY <2>0, <2>1
<1>4. \A k \in 1..Len(r) : r[k].id < n
  BY <1>2 DEF Queue
<1>5. QIds(r) \subseteq QIds(q) \union {e.id}
  <2> SUFFICES ASSUME NEW s \in QIds(r) PROVE s \in QIds(q) \/ s = e.id
    OBVIOUS
  <2>1. PICK k \in 1..Len(r) : r[k].id = s
    BY <1>1, IdsOfQueue
  <2> QED BY <1>2, <1>2a, <2>1
<1>6. ASSUME NEW s \in QIds(q) PROVE s \in QIds(r)
  <2>1. PICK m \in 1..Len(q) : q[m].id = s
    BY <1>0, IdsOfQueue
  <2> DEFINE k == IF m < i THEN m ELSE m + 1
  <2>3. k \in 1..Len(r) /\ k \in 1..(Len(q) + 1) /\ k # i /\ (IF k < i THEN k ELSE k - 1) = m
    BY <1>0, <1>1
  <2> HIDE DEF k
  <2>4. r[k] = q[m]
    BY <1>1, <2>3
  <2> QED BY <1>1, <2>1, <2>3, <2>4, IdsOfQueue
<1>7. e.id \in QIds(r)
  BY <1>1, <1>2, IdsOfQueue
<1>8. r # <<>>
  BY <1>1, <1>7, IdsOfQueue
<1> QED BY <1>1, <1>3, <1>4, <1>5, <1>6, <1>7, <1>8 DEF Queue, r

\* The same entries at other places are a queue with the same ids.
LEMMA RearrangedQueue ==
    ASSUME NEW n, NEW q, Queue(q, n), NEW p \in [1..Len(q) -> 1..Len(q)],
           \A i, j \in 1..Len(q) : p[i] = p[j] => i = j,
           NEW r \in Seq(Entry), Len(r) = Len(q), \A i \in 1..Len(q) : r[i] = q[p[i]]
    PROVE  Queue(r, n) /\ QIds(r) = QIds(q) /\ (r = <<>> <=> q = <<>>)
<1>0. q \in Seq(Entry) /\ Len(q) \in Nat
  BY IdsOfQueue DEF Queue
<1>1. Queue(r, n)
  <2>1. Distinct(r)
    <3> SUFFICES ASSUME NEW i \in 1..Len(q), NEW j \in 1..Len(q), r[i].id = r[j].id
                 PROVE  i = j
      BY DEF Distinct
    <3>1. p[i] \in 1..Len(q) /\ p[j] \in 1..Len(q) /\ q[p[i]].id = q[p[j]].id
      OBVIOUS
    <3>2. p[i] = p[j]
      BY <3>1 DEF Queue, Distinct
    <3> QED BY <3>2
  <2>2. \A i \in 1..Len(r) : r[i].id < n
    BY DEF Queue
  <2> QED BY <2>1, <2>2 DEF Queue
<1>2. \A m \in 1..Len(q) : \E i \in 1..Len(q) : p[i] = m
  <2>1. p \in Injection(1..Len(q), 1..Len(q))
    BY DEF Injection, IsInjective
  <2>2. IsFiniteSet(1..Len(q))
    BY <1>0, FS_Interval
  <2>3. p \in Surjection(1..Len(q), 1..Len(q))
    BY <2>1, <2>2, FS_Injection
  <2> QED BY <2>3 DEF Surjection
<1>3. QIds(r) \subseteq QIds(q)
  <2> SUFFICES ASSUME NEW s \in QIds(r) PROVE s \in QIds(q)
    OBVIOUS
  <2>1. PICK k \in 1..Len(r) : r[k].id = s
    BY IdsOfQueue
  <2>2. p[k] \in 1..Len(q) /\ q[p[k]].id = s
    BY <2>1
  <2> QED BY <1>0, <2>2, IdsOfQueue
<1>4. QIds(q) \subseteq QIds(r)
  <2> SUFFICES ASSUME NEW s \in QIds(q) PROVE s \in QIds(r)
    OBVIOUS
  <2>1. PICK m \in 1..Len(q) : q[m].id = s
    BY <1>0, IdsOfQueue
  <2>2. PICK i \in 1..Len(q) : p[i] = m
    BY <1>2
  <2>3. r[i].id = s
    BY <2>1, <2>2
  <2> QED BY <2>3, IdsOfQueue
<1>5. r = <<>> <=> q = <<>>
  BY <1>0, IdsOfQueue
<1> QED BY <1>1, <1>3, <1>4, <1>5

\* Two entries that change places.
LEMMA SwappedQueue ==
    ASSUME NEW n, NEW q, Queue(q, n), NEW i \in 1..Len(q), NEW j \in 1..Len(q)
    PROVE  Queue(Swap(q, i, j), n) /\ QIds(Swap(q, i, j)) = QIds(q) /\ Swap(q, i, j) # <<>>
<1> DEFINE r == Swap(q, i, j)
           p == [k \in 1..Len(q) |-> IF k = j THEN i ELSE IF k = i THEN j ELSE k]
<1>0. q \in Seq(Entry) /\ Len(q) \in Nat /\ q[i] \in Entry /\ q[j] \in Entry
  BY IdsOfQueue DEF Queue
<1>1. /\ r \in Seq(Entry) /\ Len(r) = Len(q)
      /\ \A k \in 1..Len(q) : r[k] = IF k = j THEN q[i] ELSE IF k = i THEN q[j] ELSE q[k]
  <2> DEFINE h == [q EXCEPT ![i] = q[j]]
  <2>1. h \in Seq(Entry) /\ Len(h) = Len(q) /\ \A k \in 1..Len(q) : h[k] = IF k = i THEN q[j] ELSE q[k]
    BY <1>0, ExceptSeq
  <2>2. r = [h EXCEPT ![j] = q[i]]
    BY DEF Swap
  <2> HIDE DEF h, r
  <2>3. /\ [h EXCEPT ![j] = q[i]] \in Seq(Entry)
        /\ Len([h EXCEPT ![j] = q[i]]) = Len(h)
        /\ \A k \in 1 .. Len(h) : [h EXCEPT ![j] = q[i]][k] = IF k = j THEN q[i] ELSE h[k]
    BY <1>0, <2>1, ExceptSeq
  <2> QED BY <2>1, <2>2, <2>3
<1> HIDE DEF r
<1>2. p \in [1..Len(q) -> 1..Len(q)] /\ \A k, l \in 1..Len(q) : p[k] = p[l] => k = l
  OBVIOUS
<1>3. \A k \in 1..Len(q) : r[k] = q[p[k]]
  BY <1>1
<1> HIDE DEF p
<1>4. q # <<>>
  BY <1>0, IdsOfQueue
<1>5. Queue(r, n) /\ QIds(r) = QIds(q) /\ (r = <<>> <=> q = <<>>)
  <2>1. r \in Seq(Entry) /\ Len(r) = Len(q)
    BY <1>1
  <2> QED BY <1>2, <1>3, <2>1, RearrangedQueue, SMTT(40)
<1> QED BY <1>4, <1>5 DEF r

\* A shuffled queue.
LEMMA PermutedQueue ==
    ASSUME NEW n, NEW q, Queue(q, n), NEW r \in Permuted(q)
    PROVE  Queue(r, n) /\ QIds(r) = QIds(q) /\ (r = <<>> <=> q = <<>>)
<1>0. q \in Seq(Entry) /\ Len(q) \in Nat /\ DOMAIN q = 1..Len(q) /\ \A i \in 1..Len(q) : q[i] \in Entry
  BY IdsOfQueue DEF Queue
<1>1. PICK p \in [1..Len(q) -> 1..Len(q)] : IsInjective(p) /\ r = [i \in 1..Len(q) |-> q[p[i]]]
  BY <1>0 DEF Permuted
<1>2. r \in Seq(Entry) /\ Len(r) = Len(q) /\ \A i \in 1..Len(q) : r[i] = q[p[i]]
  <2>1. r \in [1..Len(q) -> Entry] /\ \A i \in 1..Len(q) : r[i] = q[p[i]]
    BY <1>0, <1>1
  <2>2. r \in Seq(Entry) /\ Len(r) \in Nat /\ DOMAIN r = 1..Len(r)
    BY <1>0, <2>1, SeqDef, LenProperties, SMTT(40)
  <2>3. Len(r) = Len(q)
    BY <1>0, <2>1, <2>2
  <2> QED BY <2>1, <2>2, <2>3
<1>3. \A i, j \in 1..Len(q) : p[i] = p[j] => i = j
  BY <1>1 DEF IsInjective
<1> QED BY <1>2, <1>3, RearrangedQueue

\* A song in front of a queue it is not in.
LEMMA HeadedQueue ==
    ASSUME NEW n, NEW q, Queue(q, n), NEW e \in Entry, e.id < n, e.id \notin QIds(q)
    PROVE  /\ Queue(<<e>> \o q, n) /\ QIds(<<e>> \o q) = QIds(q) \union {e.id} /\ <<e>> \o q # <<>>
<1>0. q \in Seq(Entry) /\ Len(q) \in Nat /\ 1 \in 1..(Len(q) + 1)
  BY IdsOfQueue DEF Queue
<1>1. /\ InsertAt(q, 1, e) \in Seq(Entry) /\ Len(InsertAt(q, 1, e)) = Len(q) + 1
      /\ \A k \in 1..(Len(q) + 1) :
            InsertAt(q, 1, e)[k] = IF k < 1 THEN q[k] ELSE IF k = 1 THEN e ELSE q[k - 1]
  BY <1>0, InsertAtPlaces
<1> DEFINE h == <<e>>
<1>2. h \in Seq(Entry) /\ Len(h) = 1 /\ h[1] = e
  OBVIOUS
<1> HIDE DEF h
<1>3. /\ h \o q \in Seq(Entry) /\ Len(h \o q) = Len(h) + Len(q)
      /\ \A k \in 1..(Len(h) + Len(q)) : (h \o q)[k] = IF k <= Len(h) THEN h[k] ELSE q[k - Len(h)]
  BY <1>0, <1>2, ConcatProperties
<1>4. h \o q = InsertAt(q, 1, e)
  <2> DEFINE x == h \o q
             y == InsertAt(q, 1, e)
  <2>1. \A k \in 1..(Len(q) + 1) : x[k] = y[k]
    BY <1>0, <1>1, <1>2, <1>3
  <2>2. x \in Seq(Entry) /\ y \in Seq(Entry) /\ Len(x) = Len(q) + 1 /\ Len(y) = Len(q) + 1
    BY <1>0, <1>1, <1>2, <1>3
  <2> HIDE DEF x, y
  <2>3. x = y
    BY <2>1, <2>2, SeqEqual
  <2> QED BY <2>3 DEF x, y
<1>5. /\ Queue(InsertAt(q, 1, e), n) /\ QIds(InsertAt(q, 1, e)) = QIds(q) \union {e.id}
      /\ InsertAt(q, 1, e) # <<>>
  BY <1>0, InsertedQueue
<1> QED BY <1>4, <1>5 DEF h

-----------------------------------------------------------------------------
(* What a command may make of the record r of a bot.                       *)

\* The client stays, the current song is not lost, and a bot that plays has
\* something to play.
Kept(r, x) ==
    /\ x.client = r.client
    /\ Dangling(x) => Dangling(r)
    /\ Silent(x) => Silent(r) \/ Dangling(r)

\* The fields of a record.
LEMMA RecordFields ==
    ASSUME NEW n, NEW r, BotOK(r, n)
    PROVE  /\ r \in Record /\ r.client \in 0..MaxClient /\ r.client <= n
           /\ r.queue \in Seq(Entry) /\ Queue(r.queue, r.next)
           /\ r.cur \in 0..MaxSong /\ r.next \in 1..(MaxSong + 1)
           /\ r.state \in States /\ r.mode \in 0..2
           /\ Ids(r) = QIds(r.queue)
           /\ DOMAIN r.queue = 1..Len(r.queue) /\ Len(r.queue) \in Nat
           /\ 0 \notin Ids(r) /\ Ids(r) \subseteq SongIds
           /\ Ids(r) = {} <=> r.queue = <<>>
<1>1. r \in Record /\ r.client <= n /\ Queue(r.queue, r.next)
  BY DEF BotOK
<1>2. /\ r.client \in 0..MaxClient /\ r.queue \in Seq(Entry) /\ r.cur \in 0..MaxSong
      /\ r.next \in 1..(MaxSong + 1) /\ r.state \in States /\ r.mode \in 0..2
  BY <1>1 DEF Record
<1>3. Ids(r) = QIds(r.queue)
  BY DEF Ids, QIds
<1>4. /\ DOMAIN r.queue = 1..Len(r.queue) /\ Len(r.queue) \in Nat
      /\ QIds(r.queue) \subseteq SongIds
      /\ QIds(r.queue) = {} <=> r.queue = <<>>
  BY <1>2, IdsOfQueue
<1>5. 0 \notin SongIds
  BY DEF SongIds
<1> QED BY <1>1, <1>2, <1>3, <1>4, <1>5

\* A record with other fields of the right kind.
LEMMA RecordMade ==
    ASSUME NEW n, NEW c \in 0..MaxClient, c <= n, NEW q, NEW u \in 0..MaxSong,
           NEW k \in 1..(MaxSong + 1), Queue(q, k), NEW t \in States, NEW m \in 0..2
    PROVE  BotOK([client |-> c, queue |-> q, cur |-> u, next |-> k, state |-> t, mode |-> m], n)
BY DEF BotOK, Record, Queue

WithQueue(r, q)   == [r EXCEPT !.queue = q]
WithState(r, t)   == [r EXCEPT !.state = t]
WithMode(r, m)    == [r EXCEPT !.mode = m]
WithSong(r, u, t) == [r EXCEPT !.cur = u, !.state = t]

\* Another queue.
LEMMA QueueChanged ==
    ASSUME NEW n, NEW r, BotOK(r, n), NEW q, Queue(q, r.next)
    PROVE  LET x == WithQueue(r, q) IN
           /\ BotOK(x, n) /\ x.client = r.client
           /\ x.queue = q /\ x.cur = r.cur /\ x.next = r.next /\ x.state = r.state
<1>1. r \in Record /\ r.client <= n /\ Queue(r.queue, r.next)
  BY DEF BotOK
<1> QED BY <1>1 DEF BotOK, Record, Queue, WithQueue

\* Another state.
LEMMA StateChanged ==
    ASSUME NEW n, NEW r, BotOK(r, n), NEW t \in States
    PROVE  LET x == WithState(r, t) IN
           /\ BotOK(x, n) /\ x.client = r.client
           /\ x.queue = r.queue /\ x.cur = r.cur /\ x.next = r.next /\ x.state = t
<1>1. r \in Record /\ r.client <= n /\ Queue(r.queue, r.next)
  BY DEF BotOK
<1> QED BY <1>1 DEF BotOK, Record, Queue, WithState

\* Another replay mode.
LEMMA ModeChanged ==
    ASSUME NEW n, NEW r, BotOK(r, n), NEW m \in 0..2
    PROVE  LET x == WithMode(r, m) IN
           /\ BotOK(x, n) /\ x.client = r.client
           /\ x.queue = r.queue /\ x.cur = r.cur /\ x.next = r.next /\ x.state = r.state
<1>1. r \in Record /\ r.client <= n /\ Queue(r.queue, r.next)
  BY DEF BotOK
<1> QED BY <1>1 DEF BotOK, Record, Queue, WithMode

\* Another current song and another state.
LEMMA SongChanged ==
    ASSUME NEW n, NEW r, BotOK(r, n), NEW u \in 0..MaxSong, NEW t \in States
    PROVE  LET x == WithSong(r, u, t) IN
           /\ BotOK(x, n) /\ x.client = r.client
           /\ x.queue = r.queue /\ x.cur = u /\ x.next = r.next /\ x.state = t
<1>1. r \in Record /\ r.client <= n /\ Queue(r.queue, r.next)
  BY DEF BotOK
<1> QED BY <1>1 DEF BotOK, Record, Queue, WithSong

\* The place of a song.
LEMMA PosOfSong ==
    ASSUME NEW n, NEW r, BotOK(r, n), NEW s
    PROVE  /\ s \in Ids(r) => /\ Pos(r, s) \in 1..Len(r.queue) /\ r.queue[Pos(r, s)].id = s
                              /\ r.queue[Pos(r, s)] \in Entry
           /\ s \notin Ids(r) => Pos(r, s) = 0
<1>1. ASSUME s \in Ids(r)
      PROVE  /\ Pos(r, s) \in 1..Len(r.queue) /\ r.queue[Pos(r, s)].id = s
             /\ r.queue[Pos(r, s)] \in Entry
  <2>1. \E i \in DOMAIN r.queue : r.queue[i].id = s
    BY <1>1 DEF Ids
  <2>2. Pos(r, s) \in DOMAIN r.queue /\ r.queue[Pos(r, s)].id = s
    BY <1>1, <2>1 DEF Pos
  <2> QED BY <2>2, RecordFields, IdsOfQueue
<1> QED BY <1>1 DEF Pos

\* The song at a place is in the queue, and there is none only where the queue
\* has no such place.
LEMMA IdAtPlace ==
    ASSUME NEW n, NEW r, BotOK(r, n)
    PROVE  /\ \A i : /\ IdAt(r, i) \in {0} \union Ids(r)
                     /\ i \in 1..Len(r.queue) => IdAt(r, i) \in Ids(r)
           /\ First(r) \in {0} \union Ids(r) /\ Last1(r) \in {0} \union Ids(r)
           /\ First(r) = 0 <=> r.queue = <<>>
           /\ Last1(r) = 0 => r.queue = <<>>
<1>1. \A i : /\ IdAt(r, i) \in {0} \union Ids(r)
             /\ i \in 1..Len(r.queue) => IdAt(r, i) \in Ids(r)
  BY RecordFields DEF IdAt, Ids
<1>2. r.queue # <<>> => 1 \in 1..Len(r.queue) /\ Len(r.queue) \in 1..Len(r.queue)
  BY RecordFields, IdsOfQueue
<1>3. r.queue = <<>> => First(r) = 0
  BY <1>1, RecordFields DEF First
<1> QED BY <1>1, <1>2, <1>3, RecordFields DEF First, Last1

\* The numbers 1 to k, k among them, have k as their largest.
LEMMA MaxIs ==
    ASSUME NEW S, NEW k \in Nat, S \subseteq 0..k, k \in S
    PROVE  Max(S) = k
<1>1. \A x \in S : (\A y \in S : x >= y) => x = k
  OBVIOUS
<1>2. \A y \in S : k >= y
  OBVIOUS
<1> QED BY <1>1, <1>2 DEF Max

\* normalize_music_bot_queue keeps everything but a current song that is not
\* in the queue.
LEMMA Normalized ==
    ASSUME NEW n, NEW r, BotOK(r, n)
    PROVE  /\ BotOK(Normalize(r), n)
           /\ Normalize(r).client = r.client /\ Normalize(r).queue = r.queue
           /\ Normalize(r).state = r.state /\ Normalize(r).next = r.next
           /\ ~ Dangling(Normalize(r))
           /\ Normalize(r).cur = 0 <=> r.queue = <<>>
           /\ Ids(Normalize(r)) = Ids(r)
<1> DEFINE c == IF r.cur \in Ids(r) THEN r.cur ELSE First(r)
           S == {r.next, 1} \union {s + 1 : s \in Ids(r)}
<1>1. Max(S) = r.next
  <2>1. \A s \in Ids(r) : s \in Nat /\ s + 1 <= r.next
    <3> SUFFICES ASSUME NEW s \in Ids(r) PROVE s \in Nat /\ s + 1 <= r.next
      OBVIOUS
    <3>1. PICK i \in 1..Len(r.queue) : r.queue[i].id = s
      BY RecordFields, IdsOfQueue
    <3>2. s < r.next /\ s \in SongIds /\ r.next \in Nat
      BY <3>1, RecordFields, BotBoundsAssumption DEF Queue
    <3> QED BY <3>2, BotBoundsAssumption DEF SongIds
  <2>2. r.next \in Nat /\ 1 <= r.next
    BY RecordFields, BotBoundsAssumption
  <2>3. S \subseteq 0..r.next /\ r.next \in S
    BY <2>1, <2>2
  <2> QED BY <2>2, <2>3, MaxIs
<1>2. Normalize(r) = [r EXCEPT !.cur = c, !.next = r.next]
  BY <1>1, RecordFields DEF Normalize, Record
<1>3. c \in {0} \union Ids(r) /\ c \in 0..MaxSong /\ (c = 0 <=> r.queue = <<>>)
  BY IdAtPlace, RecordFields, BotBoundsAssumption DEF SongIds
<1> HIDE DEF c
<1>4. /\ Normalize(r) \in Record /\ Normalize(r).client = r.client /\ Normalize(r).queue = r.queue
      /\ Normalize(r).state = r.state /\ Normalize(r).next = r.next /\ Normalize(r).cur = c
  BY <1>2, <1>3, RecordFields DEF Record
<1>5. BotOK(Normalize(r), n)
  BY <1>4, RecordFields DEF BotOK
<1>6. Ids(Normalize(r)) = Ids(r)
  BY <1>4, <1>5, RecordFields
<1> QED BY <1>3, <1>4, <1>5, <1>6 DEF Dangling

\* The normalisation after a change that keeps a bot in order.
LEMMA NormalizedKept ==
    ASSUME NEW n, NEW r, NEW x, BotOK(x, n), Kept(r, x)
    PROVE  BotOK(Normalize(x), n) /\ Kept(r, Normalize(x))
<1>1. x.state = "playing" /\ x.queue = <<>> => Silent(x) \/ Dangling(x)
  BY RecordFields DEF Silent, Dangling
<1> QED BY <1>1, Normalized DEF Kept, Silent

\* To play a song of the queue, or to stop.
LEMMA PlayOrStopKept ==
    ASSUME NEW n, NEW r, BotOK(r, n), NEW s \in {0} \union Ids(r)
    PROVE  /\ BotOK(PlayOrStop(r, s), n) /\ PlayOrStop(r, s).client = r.client
           /\ PlayOrStop(r, s).queue = r.queue
           /\ PlayOrStop(r, s).state = "playing" => s # 0 /\ r.queue # <<>>
           /\ ~ Dangling(PlayOrStop(r, s)) /\ ~ Silent(PlayOrStop(r, s))
           /\ Kept(r, PlayOrStop(r, s))
<1> DEFINE t == IF s = 0 THEN "stopped" ELSE "playing"
           x == WithSong(r, s, t)
<1>1. s \in 0..MaxSong /\ t \in States
  BY RecordFields, BotBoundsAssumption DEF States, SongIds
<1>2. PlayOrStop(r, s) = x
  BY DEF PlayOrStop, WithSong
<1>3. t = "playing" => s # 0
  OBVIOUS
<1> HIDE DEF t
<1>4. BotOK(x, n) /\ x.queue = r.queue /\ x.client = r.client /\ x.cur = s /\ x.state = t
  BY <1>1, SongChanged
<1> HIDE DEF x
<1>5. Ids(x) = Ids(r)
  BY <1>4, RecordFields
<1>6. ~ Dangling(x) /\ ~ Silent(x)
  BY <1>3, <1>4, <1>5 DEF Dangling, Silent
<1> QED BY <1>2, <1>3, <1>4, <1>6, RecordFields DEF Kept

\* The same ids, the same song and the same state.
LEMMA SameSongKept ==
    ASSUME NEW n, NEW r, BotOK(r, n), NEW x, BotOK(x, n), x.client = r.client,
           x.cur = r.cur, x.state = r.state, r.cur \in Ids(r) => r.cur \in Ids(x)
    PROVE  Kept(r, x)
BY DEF Kept, Dangling, Silent

\* The song that a new entry gets.
Bumped(r)     == [r EXCEPT !.next = r.next + 1]
NewSong(r, u) == [id |-> r.next, url |-> u]

\* next_song_id moves on.
LEMMA BumpedKept ==
    ASSUME NEW n, NEW r, BotOK(r, n), r.next <= MaxSong, NEW u \in Urls
    PROVE  /\ BotOK(Bumped(r), n) /\ Kept(r, Bumped(r))
           /\ Bumped(r).queue = r.queue /\ Bumped(r).next = r.next + 1 /\ Bumped(r).client = r.client
           /\ Ids(Bumped(r)) = Ids(r)
           /\ NewSong(r, u) \in Entry /\ NewSong(r, u).id = r.next /\ r.next < r.next + 1
           /\ r.next \notin Ids(r)
<1>1. /\ r \in Record /\ r.client <= n /\ Queue(r.queue, r.next) /\ r.next \in 1..MaxSong
      /\ r.next + 1 \in 1..(MaxSong + 1) /\ r.next \in Nat
  BY RecordFields, BotBoundsAssumption
<1>2. /\ Bumped(r) \in Record /\ Bumped(r).client = r.client /\ Bumped(r).queue = r.queue
      /\ Bumped(r).next = r.next + 1 /\ Bumped(r).cur = r.cur /\ Bumped(r).state = r.state
  BY <1>1 DEF Record, Bumped
<1>3. \A i \in 1..Len(r.queue) : r.queue[i].id \in Nat /\ r.queue[i].id < r.next
  <2>1. r.queue \in Seq(Entry) /\ Queue(r.queue, r.next)
    BY RecordFields
  <2>2. \A i \in 1..Len(r.queue) : r.queue[i].id \in SongIds
    BY <2>1, IdsOfQueue
  <2> QED BY <2>1, <2>2, BotBoundsAssumption DEF Queue, SongIds
<1>4. Queue(r.queue, r.next + 1)
  <2>1. \A i \in 1..Len(r.queue) : r.queue[i].id < r.next + 1
    BY <1>1, <1>3
  <2> QED BY <1>1, <2>1 DEF Queue
<1>5. BotOK(Bumped(r), n)
  BY <1>1, <1>2, <1>4 DEF BotOK
<1>6. Ids(Bumped(r)) = Ids(r)
  BY <1>2, <1>5, RecordFields
<1>7. NewSong(r, u) \in Entry /\ NewSong(r, u).id = r.next
  BY <1>1 DEF NewSong, Entry, SongIds
<1>8. r.next \notin Ids(r)
  <2> SUFFICES ASSUME r.next \in Ids(r) PROVE FALSE
    OBVIOUS
  <2>1. r.queue \in Seq(Entry) /\ r.next \in QIds(r.queue)
    BY RecordFields
  <2>2. PICK i \in 1..Len(r.queue) : r.queue[i].id = r.next
    BY <2>1, IdsOfQueue
  <2> QED BY <1>1, <1>3, <2>2
<1> QED BY <1>1, <1>2, <1>5, <1>6, <1>7, <1>8, SameSongKept

\* insert_music_queue_entry behind a known song.
LEMMA InsertSongKept ==
    ASSUME NEW n, NEW r, BotOK(r, n), r.next <= MaxSong, NEW u \in Urls, NEW p, KnownPrevious(r, p)
    PROVE  LET x == InsertSong(Bumped(r), NewSong(r, u), p) IN
           /\ BotOK(x, n) /\ x.client = r.client /\ ~ Dangling(x) /\ ~ Silent(x)
           /\ r.next \in Ids(x)
<1> DEFINE b == Bumped(r)
           e == NewSong(r, u)
           i == IF p = 0 THEN Len(b.queue) + 1 ELSE Pos(b, p) + 1
           q == InsertAt(b.queue, i, e)
           y == WithQueue(b, q)
           z == Normalize(y)
           x == InsertSong(b, e, p)
<1>1. /\ BotOK(b, n) /\ b.queue = r.queue /\ b.next = r.next + 1 /\ b.client = r.client
      /\ Ids(b) = Ids(r) /\ e \in Entry /\ e.id = r.next /\ r.next < r.next + 1 /\ r.next \notin Ids(r)
  BY BumpedKept
<1>2. z = Normalize([b EXCEPT !.queue = q])
  BY DEF WithQueue
<1>3. x = IF b.queue # <<>> THEN z ELSE [z EXCEPT !.cur = First(z), !.state = "playing"]
  BY <1>2 DEF InsertSong
<1> HIDE DEF b, e, x
<1>4. i \in 1..(Len(b.queue) + 1)
  BY <1>1, RecordFields, PosOfSong DEF KnownPrevious
<1> HIDE DEF i
<1>5. Queue(q, b.next) /\ QIds(q) = Ids(r) \union {r.next} /\ q # <<>>
  BY <1>1, <1>4, RecordFields, InsertedQueue
<1> HIDE DEF q
<1>6. BotOK(y, n) /\ y.queue = q /\ y.client = r.client
  BY <1>1, <1>5, QueueChanged
<1> HIDE DEF y
<1>7. /\ BotOK(z, n) /\ z.client = r.client /\ ~ Dangling(z) /\ z.cur # 0 /\ z.queue = q
      /\ Ids(z) = QIds(q)
  BY <1>5, <1>6, Normalized, RecordFields
<1>8. ~ Silent(z)
  BY <1>7 DEF Silent
<1> HIDE DEF z
<1>9. CASE b.queue # <<>>
  BY <1>3, <1>5, <1>7, <1>8, <1>9 DEF b, e, x
<1>10. CASE b.queue = <<>>
  <2> DEFINE w == WithSong(z, First(z), "playing")
  <2>1. x = w
    BY <1>3, <1>10 DEF WithSong
  <2>2. First(z) \in Ids(z) /\ First(z) \in 0..MaxSong /\ First(z) # 0
    BY <1>5, <1>7, IdAtPlace, RecordFields, BotBoundsAssumption DEF SongIds
  <2>3. BotOK(w, n) /\ w.client = z.client /\ w.queue = z.queue /\ w.cur = First(z)
    <3>1. "playing" \in States /\ BotOK(z, n)
      BY <1>7 DEF States
    <3> QED BY <2>2, <3>1, SongChanged
  <2> HIDE DEF w
  <2>4. Ids(w) = Ids(z)
    BY <1>7, <2>3, RecordFields
  <2>5. ~ Dangling(w) /\ ~ Silent(w)
    BY <2>2, <2>3, <2>4 DEF Dangling, Silent
  <2> QED BY <1>5, <1>7, <2>1, <2>3, <2>4, <2>5 DEF b, e, x
<1> QED BY <1>9, <1>10

\* musicbotqueueadd, by the query interface: an unknown predecessor only uses
\* up an id.
LEMMA QueueAddKept ==
    ASSUME NEW n, NEW r, BotOK(r, n), r.next <= MaxSong, NEW u \in Urls, NEW p, NEW now,
           NEW x, LET s == r.next
                      bumped == [r EXCEPT !.next = s + 1]
                      q == InsertSong(bumped, [id |-> s, url |-> u], p)
                  IN  x = IF ~ KnownPrevious(r, p) THEN bumped
                          ELSE IF now THEN PlayOrStop(q, s) ELSE q
    PROVE  BotOK(x, n) /\ Kept(r, x)
<1> DEFINE q == InsertSong(Bumped(r), NewSong(r, u), p)
<1>1. x = IF ~ KnownPrevious(r, p) THEN Bumped(r) ELSE IF now THEN PlayOrStop(q, r.next) ELSE q
  BY DEF Bumped, NewSong
<1>2. CASE ~ KnownPrevious(r, p)
  BY <1>1, <1>2, BumpedKept
<1>3. CASE KnownPrevious(r, p)
  <2>1. BotOK(q, n) /\ q.client = r.client /\ ~ Dangling(q) /\ ~ Silent(q) /\ r.next \in Ids(q)
    BY <1>3, InsertSongKept
  <2> HIDE DEF q
  <2>2. BotOK(PlayOrStop(q, r.next), n) /\ Kept(q, PlayOrStop(q, r.next))
    BY <2>1, PlayOrStopKept
  <2> QED BY <1>1, <1>3, <2>1, <2>2 DEF Kept
<1> QED BY <1>2, <1>3

\* /play and /add of a url.
LEMMA ChatEnqueueKept ==
    ASSUME NEW n, NEW r, BotOK(r, n), r.next <= MaxSong, NEW u \in Urls, NEW now
    PROVE  BotOK(ChatEnqueue(r, u, now), n) /\ Kept(r, ChatEnqueue(r, u, now))
<1> DEFINE q == InsertSong(Bumped(r), NewSong(r, u), Last1(r))
           x == ChatEnqueue(r, u, now)
<1>1. x = IF now \/ q.cur = r.next THEN PlayOrStop(q, r.next) ELSE q
  BY DEF Bumped, NewSong, ChatEnqueue
<1>2. KnownPrevious(r, Last1(r))
  BY IdAtPlace DEF KnownPrevious
<1>3. BotOK(q, n) /\ q.client = r.client /\ ~ Dangling(q) /\ ~ Silent(q) /\ r.next \in Ids(q)
  BY <1>2, InsertSongKept
<1> HIDE DEF q, x
<1>4. BotOK(PlayOrStop(q, r.next), n) /\ Kept(q, PlayOrStop(q, r.next))
  BY <1>3, PlayOrStopKept
<1>5. BotOK(x, n) /\ Kept(r, x)
  BY <1>1, <1>3, <1>4 DEF Kept
<1> QED BY <1>5 DEF x

\* Entry i leaves the queue, and song c takes over if it was the current one.
LEMMA TakenOut ==
    ASSUME NEW n, NEW r, BotOK(r, n), NEW i \in 1..Len(r.queue)
    PROVE  LET q == WithQueue(r, RemoveAt(r.queue, i)) IN
           /\ BotOK(q, n) /\ q.client = r.client /\ q.queue = RemoveAt(r.queue, i)
           /\ q.cur = r.cur /\ q.state = r.state
           /\ Ids(q) = Ids(r) \ {r.queue[i].id}
           /\ r.cur # r.queue[i].id => Kept(r, q)
           /\ \A c \in {0} \union Ids(q) :
                 LET x == WithSong(q, c, IF c = 0 THEN "stopped" ELSE q.state)
                 IN  BotOK(x, n) /\ Kept(r, x)
<1> DEFINE q == WithQueue(r, RemoveAt(r.queue, i))
<1>1. Queue(RemoveAt(r.queue, i), r.next) /\ QIds(RemoveAt(r.queue, i)) = Ids(r) \ {r.queue[i].id}
  BY RecordFields, RemovedQueue
<1>2. /\ BotOK(q, n) /\ q.client = r.client /\ q.queue = RemoveAt(r.queue, i)
      /\ q.cur = r.cur /\ q.state = r.state
  BY <1>1, QueueChanged
<1> HIDE DEF q
<1>3. Ids(q) = Ids(r) \ {r.queue[i].id}
  BY <1>1, <1>2, RecordFields
<1>4. r.cur # r.queue[i].id => Kept(r, q)
  BY <1>2, <1>3, SameSongKept
<1>5. ASSUME NEW c \in {0} \union Ids(q)
      PROVE  LET x == WithSong(q, c, IF c = 0 THEN "stopped" ELSE q.state)
             IN  BotOK(x, n) /\ Kept(r, x)
  <2> DEFINE t == IF c = 0 THEN "stopped" ELSE q.state
             x == WithSong(q, c, t)
  <2>1. c \in 0..MaxSong /\ t \in States /\ (c = 0 => t # "playing")
    BY <1>2, RecordFields, BotBoundsAssumption DEF States, SongIds
  <2> HIDE DEF t
  <2>2. BotOK(x, n) /\ x.queue = q.queue /\ x.client = q.client /\ x.cur = c /\ x.state = t
    BY <1>2, <2>1, SongChanged
  <2> HIDE DEF x
  <2>3. Ids(x) = Ids(q)
    BY <1>2, <2>2, RecordFields
  <2>4. ~ Dangling(x) /\ ~ Silent(x)
    BY <2>1, <2>2, <2>3 DEF Dangling, Silent
  <2>5. BotOK(x, n) /\ Kept(r, x)
    BY <1>2, <2>2, <2>4 DEF Kept
  <2> QED BY <2>5 DEF x, t
<1> QED BY <1>2, <1>3, <1>4, <1>5 DEF q

\* remove_music_queue_entry
LEMMA RemoveSongKept ==
    ASSUME NEW n, NEW r, BotOK(r, n), NEW s \in Ids(r)
    PROVE  BotOK(RemoveSong(r, s), n) /\ Kept(r, RemoveSong(r, s))
<1> DEFINE i == Pos(r, s)
           q == WithQueue(r, RemoveAt(r.queue, i))
           c == OrElse(IdAt(q, i), IdAt(q, i - 1))
           x == IF r.cur # s THEN q ELSE WithSong(q, c, IF c = 0 THEN "stopped" ELSE q.state)
<1>1. i \in 1..Len(r.queue) /\ r.queue[i].id = s
  BY PosOfSong
<1>2. RemoveSong(r, s) = Normalize(x)
  BY DEF RemoveSong, WithQueue, WithSong
<1> HIDE DEF i
<1>3. /\ BotOK(q, n) /\ (r.cur # r.queue[i].id => Kept(r, q))
      /\ \A k \in {0} \union Ids(q) :
            LET y == WithSong(q, k, IF k = 0 THEN "stopped" ELSE q.state)
            IN  BotOK(y, n) /\ Kept(r, y)
  BY <1>1, TakenOut
<1> HIDE DEF q
<1>4. c \in {0} \union Ids(q)
  BY <1>3, IdAtPlace DEF OrElse
<1> HIDE DEF c
<1>5. BotOK(x, n) /\ Kept(r, x)
  BY <1>1, <1>3, <1>4
<1> HIDE DEF x
<1> QED BY <1>2, <1>5, NormalizedKept

\* /qremove
LEMMA ChatRemoveKept ==
    ASSUME NEW n, NEW r, BotOK(r, n), NEW i \in 1..Len(r.queue)
    PROVE  BotOK(ChatRemove(r, i), n) /\ Kept(r, ChatRemove(r, i))
<1> DEFINE q == WithQueue(r, RemoveAt(r.queue, i))
           c == OrElse(IdAt(q, i), First(q))
           x == IF r.cur # r.queue[i].id THEN q
                ELSE WithSong(q, c, IF c = 0 THEN "stopped" ELSE q.state)
<1>1. ChatRemove(r, i) = x
  BY DEF ChatRemove, WithQueue, WithSong
<1>2. /\ BotOK(q, n) /\ (r.cur # r.queue[i].id => Kept(r, q))
      /\ \A k \in {0} \union Ids(q) :
            LET y == WithSong(q, k, IF k = 0 THEN "stopped" ELSE q.state)
            IN  BotOK(y, n) /\ Kept(r, y)
  BY TakenOut
<1> HIDE DEF q
<1>3. c \in {0} \union Ids(q)
  BY <1>2, IdAtPlace DEF OrElse
<1> HIDE DEF c
<1> QED BY <1>1, <1>2, <1>3

\* An entry is taken out and put in again at some place.
LEMMA PutBack ==
    ASSUME NEW n, NEW r, BotOK(r, n), NEW i \in 1..Len(r.queue), NEW j \in 1..Len(r.queue)
    PROVE  LET q == InsertAt(RemoveAt(r.queue, i), j, r.queue[i])
               x == WithQueue(r, q)
           IN  BotOK(x, n) /\ Kept(r, x)
<1> DEFINE h == RemoveAt(r.queue, i)
           q == InsertAt(h, j, r.queue[i])
           x == WithQueue(r, q)
<1>1. r.queue \in Seq(Entry) /\ Queue(r.queue, r.next) /\ Ids(r) = QIds(r.queue) /\ Len(r.queue) \in Nat
  BY RecordFields
<1>2. Queue(h, r.next) /\ QIds(h) = QIds(r.queue) \ {r.queue[i].id} /\ Len(h) = Len(r.queue) - 1
  <2>1. Queue(h, r.next) /\ QIds(h) = QIds(r.queue) \ {r.queue[i].id}
    BY <1>1, RemovedQueue
  <2>2. Len(h) = Len(r.queue) - 1
    BY <1>1, RemoveAtPlaces
  <2> QED BY <2>1, <2>2
<1>3. r.queue[i] \in Entry /\ r.queue[i].id < r.next /\ r.queue[i].id \notin QIds(h) /\ r.queue[i].id \in Ids(r)
  BY <1>1, <1>2, IdsOfQueue DEF Queue
<1>4. j \in 1..(Len(h) + 1)
  BY <1>1, <1>2
<1> HIDE DEF h
<1>5. Queue(q, r.next) /\ QIds(q) = QIds(h) \union {r.queue[i].id}
  BY <1>2, <1>3, <1>4, InsertedQueue
<1> HIDE DEF q
<1>6. BotOK(x, n) /\ x.client = r.client /\ x.queue = q /\ x.cur = r.cur /\ x.state = r.state
  BY <1>5, QueueChanged
<1> HIDE DEF x
<1>7. Ids(x) = Ids(r)
  BY <1>1, <1>2, <1>3, <1>5, <1>6, RecordFields
<1>8. Kept(r, x)
  BY <1>6, <1>7, SameSongKept
<1> QED BY <1>6, <1>8 DEF x, q, h

\* /qmove
LEMMA ChatMoveKept ==
    ASSUME NEW n, NEW r, BotOK(r, n), NEW i \in 1..Len(r.queue), NEW j \in 1..Len(r.queue)
    PROVE  BotOK(ChatMove(r, i, j), n) /\ Kept(r, ChatMove(r, i, j))
<1>1. ChatMove(r, i, j) = WithQueue(r, InsertAt(RemoveAt(r.queue, i), j, r.queue[i]))
  BY DEF ChatMove, WithQueue
<1> QED BY <1>1, PutBack

\* reorder_music_queue_entry behind a known song, or behind one that is not
\* there, which takes the song out.
LEMMA ReorderSongDone ==
    ASSUME NEW n, NEW r, BotOK(r, n), NEW s \in Ids(r), NEW p \in 0..MaxSong
    PROVE  LET x == ReorderSong(r, s, p) IN
           /\ BotOK(x, n) /\ x.client = r.client
           /\ Silent(x) => Silent(r) \/ Dangling(r)
           /\ Dangling(x) /\ ~ Dangling(r) => s = r.cur /\ p \in SongIds \ Ids(x)
<1> DEFINE i == Pos(r, s)
           q == WithQueue(r, RemoveAt(r.queue, i))
           j == Pos(q, p) + 1
           y == WithQueue(r, InsertAt(RemoveAt(r.queue, i), j, r.queue[i]))
           x == ReorderSong(r, s, p)
<1>1. i \in 1..Len(r.queue) /\ r.queue[i].id = s
  BY PosOfSong
<1>2. /\ BotOK(q, n) /\ q.client = r.client /\ q.cur = r.cur /\ q.state = r.state
      /\ q.queue = RemoveAt(r.queue, i)
      /\ Ids(q) = Ids(r) \ {s} /\ (r.cur # s => Kept(r, q))
  <2> HIDE DEF i
  <2> QED BY <1>1, TakenOut
<1>3. [q EXCEPT !.queue = InsertAt(q.queue, j, r.queue[i])] = y
  <2>1. ASSUME NEW a, NEW c PROVE [[r EXCEPT !.queue = a] EXCEPT !.queue = c] = [r EXCEPT !.queue = c]
    OBVIOUS
  <2>2. q = [r EXCEPT !.queue = RemoveAt(r.queue, i)]
    BY DEF WithQueue
  <2>3. y = [r EXCEPT !.queue = InsertAt(RemoveAt(r.queue, i), j, r.queue[i])]
    BY DEF WithQueue
  <2> DEFINE a == RemoveAt(r.queue, i)
             c == InsertAt(a, j, r.queue[i])
  <2>4. q = [r EXCEPT !.queue = a] /\ y = [r EXCEPT !.queue = c] /\ q.queue = a
    BY <1>2, <2>2, <2>3
  <2> HIDE DEF a, c, q, y, j
  <2> QED BY <2>1, <2>4 DEF c
<1>4. x = IF KnownPrevious(q, p) THEN Normalize(y) ELSE q
  <2>1. q = [r EXCEPT !.queue = RemoveAt(r.queue, i)]
    BY DEF WithQueue
  <2> QED BY <1>3, <2>1 DEF ReorderSong
<1> HIDE DEF q, x
<1>5. CASE KnownPrevious(q, p)
  <2>1. j \in 1..Len(r.queue)
    <3>1. Len(q.queue) = Len(r.queue) - 1 /\ Len(r.queue) \in Nat
      BY <1>1, <1>2, RecordFields, RemoveAtPlaces
    <3> QED BY <1>2, <1>5, <1>1, <3>1, PosOfSong DEF KnownPrevious
  <2>2. BotOK(y, n) /\ Kept(r, y)
    <3> HIDE DEF i, j
    <3> QED BY <1>1, <2>1, PutBack
  <2> HIDE DEF y
  <2>3. BotOK(Normalize(y), n) /\ Kept(r, Normalize(y))
    BY <2>2, NormalizedKept
  <2> QED BY <1>4, <1>5, <2>3 DEF Kept, x
<1>6. CASE ~ KnownPrevious(q, p)
  <2>1. x = q /\ p \in SongIds \ Ids(x)
    BY <1>4, <1>6, BotBoundsAssumption DEF KnownPrevious, SongIds
  <2>2. Silent(x) => Silent(r)
    BY <1>2, <2>1 DEF Silent
  <2>3. Dangling(x) /\ ~ Dangling(r) => s = r.cur
    BY <1>2, <2>1 DEF Kept
  <2> QED BY <1>2, <2>1, <2>2, <2>3 DEF x
<1> QED BY <1>5, <1>6

\* Another state than "playing".
LEMMA HaltedKept ==
    ASSUME NEW n, NEW r, BotOK(r, n), NEW t \in States, t # "playing"
    PROVE  BotOK([r EXCEPT !.state = t], n) /\ Kept(r, [r EXCEPT !.state = t])
<1> DEFINE x == WithState(r, t)
<1>1. [r EXCEPT !.state = t] = x
  BY DEF WithState
<1>2. BotOK(x, n) /\ x.client = r.client /\ x.queue = r.queue /\ x.cur = r.cur /\ x.state = t
  BY StateChanged
<1> HIDE DEF x
<1>3. Ids(x) = Ids(r)
  BY <1>2, RecordFields
<1>4. Kept(r, x)
  BY <1>2, <1>3 DEF Kept, Dangling, Silent
<1> QED BY <1>1, <1>2, <1>4

\* Another replay mode.
LEMMA ModeKept ==
    ASSUME NEW n, NEW r, BotOK(r, n), NEW m \in 0..2
    PROVE  BotOK([r EXCEPT !.mode = m], n) /\ Kept(r, [r EXCEPT !.mode = m])
<1> DEFINE x == WithMode(r, m)
<1>1. [r EXCEPT !.mode = m] = x
  BY DEF WithMode
<1>2. BotOK(x, n) /\ x.client = r.client /\ x.queue = r.queue /\ x.cur = r.cur /\ x.state = r.state
  BY ModeChanged
<1> HIDE DEF x
<1>3. Ids(x) = Ids(r)
  BY <1>2, RecordFields
<1>4. Kept(r, x)
  BY <1>2, <1>3, SameSongKept
<1> QED BY <1>1, <1>2, <1>4

\* Play and pause.
LEMMA PlayKept ==
    ASSUME NEW n, NEW r, BotOK(r, n)
    PROVE  /\ BotOK(Play(r), n) /\ Kept(r, Play(r))
           /\ BotOK(Pause(r), n) /\ Kept(r, Pause(r))
<1>1. BotOK(Play(r), n) /\ Kept(r, Play(r))
  <2> DEFINE c == OrElse(r.cur, First(r))
             t == IF c # 0 THEN "playing" ELSE r.state
             x == WithSong(r, c, t)
  <2>1. Play(r) = x
    BY DEF Play, WithSong
  <2>2. c \in 0..MaxSong /\ t \in States /\ (c = r.cur \/ c \in Ids(r))
    BY RecordFields, IdAtPlace, BotBoundsAssumption DEF OrElse, SongIds, States
  <2>3. c = 0 => t = r.state /\ r.cur = 0
    BY DEF OrElse
  <2> HIDE DEF c, t
  <2>4. BotOK(x, n) /\ x.client = r.client /\ x.queue = r.queue /\ x.cur = c /\ x.state = t
    BY <2>2, SongChanged
  <2> HIDE DEF x
  <2>5. Ids(x) = Ids(r)
    BY <2>4, RecordFields
  <2>6. Kept(r, x)
    BY <2>2, <2>3, <2>4, <2>5 DEF Kept, Dangling, Silent
  <2> QED BY <2>1, <2>4, <2>6
<1>2. BotOK(Pause(r), n) /\ Kept(r, Pause(r))
  <2> DEFINE t == IF r.cur # 0 THEN "paused" ELSE "stopped"
  <2>1. t \in States /\ t # "playing"
    BY DEF States
  <2>2. Pause(r) = [r EXCEPT !.state = t]
    BY DEF Pause
  <2> HIDE DEF t
  <2> QED BY <2>1, <2>2, HaltedKept
<1> QED BY <1>1, <1>2

\* The next and the previous song, by the player and by the chat, and a song
\* of the list.
LEMMA StepKept ==
    ASSUME NEW n, NEW r, BotOK(r, n)
    PROVE  /\ BotOK(NextSong(r), n) /\ Kept(r, NextSong(r))
           /\ BotOK(PrevSong(r), n) /\ Kept(r, PrevSong(r))
           /\ BotOK(ChatSkip(r), n) /\ Kept(r, ChatSkip(r))
           /\ BotOK(ChatPrev(r), n) /\ Kept(r, ChatPrev(r))
           /\ \A i : BotOK(PlayOrStop(r, IdAt(r, i)), n) /\ Kept(r, PlayOrStop(r, IdAt(r, i)))
<1>1. /\ \A i : IdAt(r, i) \in {0} \union Ids(r)
      /\ First(r) \in {0} \union Ids(r) /\ Last1(r) \in {0} \union Ids(r)
  BY IdAtPlace
<1>2. \A s \in {0} \union Ids(r) : BotOK(PlayOrStop(r, s), n) /\ Kept(r, PlayOrStop(r, s))
  BY PlayOrStopKept
<1>3. BotOK(NextSong(r), n) /\ Kept(r, NextSong(r))
  BY <1>1, <1>2 DEF NextSong, OrElse
<1>4. BotOK(PrevSong(r), n) /\ Kept(r, PrevSong(r))
  BY <1>1, <1>2 DEF PrevSong, OrElse
<1>5. BotOK(ChatSkip(r), n) /\ Kept(r, ChatSkip(r))
  BY <1>1, <1>2 DEF ChatSkip, OrElse
<1>6. BotOK(ChatPrev(r), n) /\ Kept(r, ChatPrev(r))
  BY <1>1, <1>2 DEF ChatPrev, OrElse
<1> QED BY <1>1, <1>2, <1>3, <1>4, <1>5, <1>6

\* advance_bot_queue_on_eof
LEMMA AfterEndKept ==
    ASSUME NEW n, NEW r, BotOK(r, n), r.cur \in SongIds
    PROVE  BotOK(AfterEnd(r, r.cur), n) /\ Kept(r, AfterEnd(r, r.cur))
<1> DEFINE k == IF r.mode = 2 THEN r.cur
                ELSE IF Pos(r, r.cur) = 0 THEN 0
                ELSE IF r.mode = 1 THEN OrElse(IdAt(r, Pos(r, r.cur) + 1), First(r))
                ELSE IdAt(r, Pos(r, r.cur) + 1)
<1>1. AfterEnd(r, r.cur) = IF k = 0 THEN [r EXCEPT !.state = "stopped"] ELSE PlayOrStop(r, k)
  BY DEF AfterEnd
<1>2. k = r.cur \/ k \in {0} \union Ids(r)
  BY IdAtPlace DEF OrElse
<1> HIDE DEF k
<1>3. CASE k \in {0} \union Ids(r)
  <2>1. BotOK(PlayOrStop(r, k), n) /\ Kept(r, PlayOrStop(r, k))
    BY <1>3, PlayOrStopKept
  <2>2. "stopped" \in States
    BY DEF States
  <2>3. BotOK([r EXCEPT !.state = "stopped"], n) /\ Kept(r, [r EXCEPT !.state = "stopped"])
    BY <2>2, HaltedKept
  <2> QED BY <1>1, <2>1, <2>3
<1>4. CASE k = r.cur
  <2>1. r.cur # 0 /\ r.cur \in 0..MaxSong
    BY BotBoundsAssumption DEF SongIds
  <2> DEFINE x == WithSong(r, r.cur, "playing")
  <2>2. AfterEnd(r, r.cur) = x
    BY <1>1, <1>4, <2>1 DEF PlayOrStop, WithSong
  <2>3. BotOK(x, n) /\ x.client = r.client /\ x.queue = r.queue /\ x.cur = r.cur
    BY <2>1, SongChanged DEF States
  <2> HIDE DEF x
  <2>4. Ids(x) = Ids(r)
    BY <2>3, RecordFields
  <2>5. Kept(r, x)
    BY <2>1, <2>3, <2>4 DEF Kept, Dangling, Silent
  <2> QED BY <2>2, <2>3, <2>5
<1> QED BY <1>2, <1>3, <1>4

\* The queue is emptied.
LEMMA ClearKept ==
    ASSUME NEW n, NEW r, BotOK(r, n)
    PROVE  BotOK(Clear(r), n) /\ Kept(r, Clear(r))
<1>1. Queue(<<>>, r.next)
  BY DEF Queue, Distinct
<1>2. r \in Record /\ r.client <= n
  BY RecordFields
<1>3. 0 \in 0..MaxSong /\ "stopped" \in States /\ <<>> \in Seq(Entry)
  BY BotBoundsAssumption DEF States
<1>4. /\ Clear(r) \in Record /\ Clear(r).client = r.client /\ Clear(r).queue = <<>>
      /\ Clear(r).next = r.next /\ Clear(r).cur = 0 /\ Clear(r).state = "stopped"
  BY <1>2, <1>3 DEF Clear, Record
<1> QED BY <1>1, <1>2, <1>4 DEF BotOK, Kept, Dangling, Silent

\* Another order of the queue.
LEMMA SameIdsKept ==
    ASSUME NEW n, NEW r, BotOK(r, n), NEW q, Queue(q, r.next), QIds(q) = Ids(r)
    PROVE  BotOK(WithQueue(r, q), n) /\ Kept(r, WithQueue(r, q))
<1> DEFINE x == WithQueue(r, q)
<1>2. BotOK(x, n) /\ x.client = r.client /\ x.queue = q /\ x.cur = r.cur /\ x.state = r.state
  BY QueueChanged
<1> HIDE DEF x
<1>3. Ids(x) = Ids(r)
  BY <1>2, RecordFields
<1>4. Kept(r, x)
  BY <1>2, <1>3, SameSongKept
<1> QED BY <1>2, <1>4 DEF x

\* A song one place up or down.
LEMMA MoveKept ==
    ASSUME NEW n, NEW r, BotOK(r, n), NEW s
    PROVE  /\ BotOK(MoveUp(r, s), n) /\ Kept(r, MoveUp(r, s))
           /\ BotOK(MoveDown(r, s), n) /\ Kept(r, MoveDown(r, s))
<1> DEFINE i == Pos(r, s)
<1>1. i = 0 \/ i \in 1..Len(r.queue)
  BY PosOfSong
<1>2. Kept(r, r)
  BY DEF Kept
<1>3. Queue(r.queue, r.next) /\ Ids(r) = QIds(r.queue) /\ Len(r.queue) \in Nat
  BY RecordFields
<1>4. ASSUME NEW j \in 1..Len(r.queue), i \in 1..Len(r.queue)
      PROVE  LET x == WithQueue(r, Swap(r.queue, i, j)) IN BotOK(x, n) /\ Kept(r, x)
  <2> DEFINE q == Swap(r.queue, i, j)
  <2>1. Queue(q, r.next) /\ QIds(q) = Ids(r)
    BY <1>3, <1>4, SwappedQueue
  <2> HIDE DEF q
  <2>2. BotOK(WithQueue(r, q), n) /\ Kept(r, WithQueue(r, q))
    BY <2>1, SameIdsKept
  <2> QED BY <2>2 DEF q
<1>5. BotOK(MoveUp(r, s), n) /\ Kept(r, MoveUp(r, s))
  <2>1. MoveUp(r, s) = IF i > 1 THEN WithQueue(r, Swap(r.queue, i, i - 1)) ELSE r
    BY DEF MoveUp, WithQueue
  <2> HIDE DEF i
  <2>2. i > 1 => i - 1 \in 1..Len(r.queue) /\ i \in 1..Len(r.queue)
    BY <1>1, <1>3
  <2> QED BY <1>2, <1>4, <2>1, <2>2
<1>6. BotOK(MoveDown(r, s), n) /\ Kept(r, MoveDown(r, s))
  <2>1. MoveDown(r, s) =
           IF i # 0 /\ i < Len(r.queue) THEN WithQueue(r, Swap(r.queue, i, i + 1)) ELSE r
    BY DEF MoveDown, WithQueue
  <2> HIDE DEF i
  <2>2. i # 0 /\ i < Len(r.queue) => i + 1 \in 1..Len(r.queue) /\ i \in 1..Len(r.queue)
    BY <1>1, <1>3
  <2> QED BY <1>2, <1>4, <2>1, <2>2
<1> QED BY <1>5, <1>6

\* Both shuffles.
LEMMA ShuffleKept ==
    ASSUME NEW n, NEW r, BotOK(r, n)
    PROVE  /\ \A q \in Permuted(r.queue) :
                 BotOK([r EXCEPT !.queue = q], n) /\ Kept(r, [r EXCEPT !.queue = q])
           /\ \A x \in Shuffles(r) : BotOK(x, n) /\ Kept(r, x)
<1>0. Queue(r.queue, r.next) /\ Ids(r) = QIds(r.queue)
  BY RecordFields
<1>1. \A q \in Permuted(r.queue) : BotOK(WithQueue(r, q), n) /\ Kept(r, WithQueue(r, q))
  BY <1>0, PermutedQueue, SameIdsKept
<1>2. ASSUME r.cur \in Ids(r), NEW q \in Permuted(RemoveAt(r.queue, Pos(r, r.cur)))
      PROVE  LET x == WithQueue(r, <<r.queue[Pos(r, r.cur)]>> \o q) IN BotOK(x, n) /\ Kept(r, x)
  <2> DEFINE i == Pos(r, r.cur)
             e == r.queue[i]
             h == RemoveAt(r.queue, i)
             z == <<e>> \o q
  <2>1. i \in 1..Len(r.queue) /\ e \in Entry /\ e.id = r.cur
    BY <1>2, PosOfSong
  <2>2. e.id < r.next
    <3> HIDE DEF i
    <3> QED BY <1>0, <2>1 DEF Queue
  <2>3. Queue(h, r.next) /\ QIds(h) = Ids(r) \ {e.id}
    <3> HIDE DEF i
    <3> QED BY <1>0, <2>1, RemovedQueue
  <2>4. Queue(q, r.next) /\ QIds(q) = QIds(h)
    <3>1. q \in Permuted(h)
      BY <1>2
    <3> HIDE DEF h
    <3> QED BY <2>3, <3>1, PermutedQueue
  <2> HIDE DEF e, h
  <2>5. Queue(z, r.next) /\ QIds(z) = QIds(q) \union {e.id}
    BY <2>1, <2>2, <2>3, <2>4, HeadedQueue
  <2> HIDE DEF z
  <2>6. QIds(z) = Ids(r)
    BY <1>2, <2>1, <2>3, <2>4, <2>5
  <2>7. BotOK(WithQueue(r, z), n) /\ Kept(r, WithQueue(r, z))
    BY <2>5, <2>6, SameIdsKept
  <2> QED BY <2>7 DEF z, e
<1>3. \A x \in Shuffles(r) : BotOK(x, n) /\ Kept(r, x)
  <2> SUFFICES ASSUME NEW x \in Shuffles(r) PROVE BotOK(x, n) /\ Kept(r, x)
    OBVIOUS
  <2>1. CASE Pos(r, r.cur) = 0
    <3>1. PICK q \in Permuted(r.queue) : x = WithQueue(r, q)
      BY <2>1 DEF Shuffles, WithQueue
    <3> QED BY <1>1, <3>1
  <2>2. CASE Pos(r, r.cur) # 0
    <3>1. PICK q \in Permuted(RemoveAt(r.queue, Pos(r, r.cur))) :
             x = WithQueue(r, <<r.queue[Pos(r, r.cur)]>> \o q)
      BY <2>2 DEF Shuffles, WithQueue
    <3>2. r.cur \in Ids(r)
      BY <2>2, PosOfSong
    <3> QED BY <1>2, <3>1, <3>2
  <2> QED BY <2>1, <2>2
<1>4. \A q : [r EXCEPT !.queue = q] = WithQueue(r, q)
  BY DEF WithQueue
<1> QED BY <1>1, <1>3, <1>4

\* musicbotplaylistassign: with an empty playlist only can a bot that plays
\* come to have nothing to play.
LEMMA AssignDone ==
    ASSUME NEW n, NEW r, BotOK(r, n), NEW src, BotOK(src, n)
    PROVE  LET x == Assign(r, src) IN
           /\ BotOK(x, n) /\ x.client = r.client /\ ~ Dangling(x)
           /\ Silent(x) => src.queue = <<>>
<1> DEFINE y == [r EXCEPT !.queue = src.queue, !.cur = src.cur, !.next = src.next, !.mode = src.mode]
<1>1. /\ r \in Record /\ src \in Record /\ r.client <= n /\ Queue(src.queue, src.next)
  BY RecordFields
<1>2. /\ y \in Record /\ y.client = r.client /\ y.queue = src.queue /\ y.next = src.next
  BY <1>1 DEF Record
<1>3. BotOK(y, n)
  BY <1>1, <1>2 DEF BotOK
<1>4. Assign(r, src) = Normalize(y)
  BY DEF Assign
<1> HIDE DEF y
<1>5. /\ BotOK(Normalize(y), n) /\ Normalize(y).client = y.client /\ ~ Dangling(Normalize(y))
      /\ Normalize(y).cur = 0 => y.queue = <<>>
  BY <1>3, Normalized
<1> QED BY <1>2, <1>4, <1>5 DEF Silent

\* A new bot or playlist.
LEMMA NewBotOK ==
    ASSUME NEW n, NEW c \in 0..MaxClient, c <= n
    PROVE  BotOK(NewBot(c), n) /\ NewBot(c).client = c /\ NewBot(c).next = 1
<1>1. Queue(<<>>, 1)
  BY DEF Queue, Distinct
<1>2. 0 \in 0..MaxSong /\ 1 \in 1..(MaxSong + 1) /\ "stopped" \in States /\ 0 \in 0..2
  BY BotBoundsAssumption DEF States
<1>3. BotOK(NewBot(c), n)
  BY <1>1, <1>2, RecordMade DEF NewBot
<1> QED BY <1>3 DEF NewBot

\* A finite set of bot ids has a largest element, and the next one is new.
LEMMA NextBotIsNew ==
    ASSUME DOMAIN bots \subseteq BotIds, NEW b, IsNextBot(b)
    PROVE  b \notin DOMAIN bots
<1> DEFINE S == {0} \union DOMAIN bots
           T == {MaxBot - x : x \in S}
<1>1. S \subseteq 0..MaxBot /\ 0 \in S /\ MaxBot \in Nat
  BY BotBoundsAssumption DEF BotIds
<1>2. b = Max(S) + 1
  BY DEF IsNextBot
<1> HIDE DEF S
<1>3. T \in SUBSET Nat /\ T # {}
  BY <1>1
<1>4. PICK d \in T : \A e \in T : ~ (<<e, d>> \in OpToRel(<, Nat))
  <2> HIDE DEF T
  <2> QED BY <1>3, NatLessThanWellFounded, WFMin
<1>5. \A k, l \in Nat : k < l => <<k, l>> \in OpToRel(<, Nat)
  BY Zenon DEF OpToRel
<1>6. \A e \in T : ~ (e < d)
  <2> HIDE DEF T
  <2> QED BY <1>3, <1>4, <1>5, Zenon
<1>7. PICK m \in S : d = MaxBot - m
  BY <1>4
<1>8. \A y \in S : m >= y
  BY <1>1, <1>6, <1>7
<1>9. Max(S) \in S /\ \A y \in S : Max(S) >= y
  BY <1>7, <1>8 DEF Max
<1>10. b \notin S
  <2> DEFINE k == Max(S)
  <2> HIDE DEF k
  <2>1. k \in Nat /\ b = k + 1 /\ \A y \in S : k >= y
    <3>1. \A x \in S : x \in Nat
      BY <1>1
    <3> QED BY <1>2, <1>9, <3>1 DEF k
  <2>2. ~ (k >= k + 1)
    BY <2>1
  <2> QED BY <2>1, <2>2
<1> QED BY <1>10 DEF S

-----------------------------------------------------------------------------
(* The shapes of the steps.                                                *)

\* What a command may make of a bot: the current song is lost by a reorder
\* behind a song that is not there only.
Altered(r, x) ==
    /\ x.client = r.client
    /\ Silent(x) => Silent(r) \/ Dangling(r)
    /\ Dangling(x) /\ ~ Dangling(r) =>
          \E p \in SongIds \ Ids(x) : x = ReorderSong(r, r.cur, p)

Alters(b) ==
    /\ b \in DOMAIN bots
    /\ \E x : BotOK(x, clients) /\ Altered(bots[b], x) /\ Changed(b, x)

\* A playlist, or a bot with a client of its own.
Makes(b) ==
    /\ b \notin DOMAIN bots
    /\ \E x : /\ bots' = WithBot(b, x)
              /\ \/ BotOK(x, clients) /\ x.client = 0 /\ UNCHANGED clients
                 \/ /\ clients < MaxClient /\ clients' = clients + 1
                    /\ BotOK(x, clients + 1) /\ x.client = clients + 1

Assigns(b) == \E src \in BotIds : MusicBotPlaylistAssign(b, src)

Shaped(b) == Alters(b) \/ Makes(b) \/ MusicBotDelete(b) \/ Assigns(b)

\* What keeps a bot in order alters it.
LEMMA KeptAlters ==
    ASSUME NEW b \in DOMAIN bots, NEW x, BotOK(x, clients), Kept(bots[b], x), Changed(b, x)
    PROVE  Shaped(b)
BY DEF Kept, Altered, Alters, Shaped

\* The commands that make a bot or a playlist.
LEMMA MakesShaped ==
    ASSUME IInv, NEW b \in BotIds,
           \/ MusicBotCreate(b) \/ PlaylistCreate(b) \/ \E u \in Urls : ChatSpawnAndPlay(b, u)
    PROVE  Shaped(b)
<1>0. clients \in 0..MaxClient /\ MaxClient \in Nat /\ DOMAIN bots \subseteq BotIds
  BY BotBoundsAssumption DEF IInv
<1>1. b \notin DOMAIN bots
  BY <1>0, NextBotIsNew DEF MusicBotCreate, PlaylistCreate, ChatSpawnAndPlay
<1>2. clients < MaxClient => /\ BotOK(NewBot(clients + 1), clients + 1)
                             /\ NewBot(clients + 1).client = clients + 1
                             /\ NewBot(clients + 1).next = 1
  <2> SUFFICES ASSUME clients < MaxClient
               PROVE  /\ BotOK(NewBot(clients + 1), clients + 1)
                      /\ NewBot(clients + 1).client = clients + 1
                      /\ NewBot(clients + 1).next = 1
    OBVIOUS
  <2> DEFINE c == clients + 1
  <2>1. c \in 0..MaxClient /\ c <= c
    BY <1>0
  <2> HIDE DEF c
  <2>2. BotOK(NewBot(c), c) /\ NewBot(c).client = c /\ NewBot(c).next = 1
    BY <2>1, NewBotOK
  <2> QED BY <2>2 DEF c
<1>3. CASE MusicBotCreate(b)
  BY <1>1, <1>2, <1>3 DEF MusicBotCreate, Makes, Shaped
<1>4. CASE PlaylistCreate(b)
  <2>1. BotOK(NewBot(0), clients) /\ NewBot(0).client = 0
    BY <1>0, NewBotOK
  <2> QED BY <1>1, <1>4, <2>1 DEF PlaylistCreate, Makes, Shaped
<1>5. ASSUME NEW u \in Urls, ChatSpawnAndPlay(b, u) PROVE Shaped(b)
  <2> DEFINE r == NewBot(clients + 1)
             x == ChatEnqueue(r, u, TRUE)
  <2>1. clients < MaxClient /\ clients' = clients + 1 /\ bots' = WithBot(b, x)
    BY <1>5 DEF ChatSpawnAndPlay
  <2>2. BotOK(r, clients + 1) /\ r.client = clients + 1 /\ r.next = 1
    BY <1>2, <2>1
  <2>3. r.next <= MaxSong
    BY <2>2, BotBoundsAssumption
  <2> HIDE DEF r
  <2>4. BotOK(x, clients + 1) /\ Kept(r, x)
    BY <2>2, <2>3, ChatEnqueueKept
  <2>5. x.client = clients + 1
    BY <2>2, <2>4 DEF Kept
  <2> HIDE DEF x
  <2> QED BY <1>1, <2>1, <2>4, <2>5 DEF Makes, Shaped
<1> QED BY <1>3, <1>4, <1>5

\* The queue commands of the query interface.
LEMMA QueueShaped ==
    ASSUME IInv, NEW b \in BotIds
    PROVE  /\ \A u \in Urls : \A p, now : QueueAdd(b, u, p, now) => Shaped(b)
           /\ \A s : QueueRemove(b, s) => Shaped(b)
           /\ \A s : \A p \in 0..MaxSong : QueueReorder(b, s, p) => Shaped(b)
           /\ \A s : PlaylistSongSetCurrent(b, s) => Shaped(b)
           /\ \A m \in Modes : PlaylistEdit(b, m) => Shaped(b)
<1>0. b \in DOMAIN bots => BotOK(bots[b], clients)
  BY DEF IInv
<1>1. ASSUME NEW u \in Urls, NEW p, NEW now, QueueAdd(b, u, p, now) PROVE Shaped(b)
  <2> DEFINE r == bots[b]
             bumped == [r EXCEPT !.next = r.next + 1]
             q == InsertSong(bumped, [id |-> r.next, url |-> u], p)
             x == IF ~ KnownPrevious(r, p) THEN bumped ELSE IF now THEN PlayOrStop(q, r.next) ELSE q
  <2>1. b \in DOMAIN bots /\ r.next <= MaxSong /\ Changed(b, x)
    BY <1>1 DEF QueueAdd
  <2>2. BotOK(x, clients) /\ Kept(r, x)
    BY <1>0, <2>1, QueueAddKept
  <2> HIDE DEF x
  <2> QED BY <2>1, <2>2, KeptAlters
<1>2. ASSUME NEW s, QueueRemove(b, s) PROVE Shaped(b)
  BY <1>0, <1>2, RemoveSongKept, KeptAlters DEF QueueRemove
<1>3. ASSUME NEW s, NEW p \in 0..MaxSong, QueueReorder(b, s, p) PROVE Shaped(b)
  <2> DEFINE x == ReorderSong(bots[b], s, p)
  <2>1. b \in DOMAIN bots /\ s \in Ids(bots[b]) /\ Changed(b, x)
    BY <1>3 DEF QueueReorder
  <2>2. /\ BotOK(x, clients) /\ x.client = bots[b].client
        /\ Silent(x) => Silent(bots[b]) \/ Dangling(bots[b])
        /\ Dangling(x) /\ ~ Dangling(bots[b]) => s = bots[b].cur /\ p \in SongIds \ Ids(x)
    BY <1>0, <2>1, ReorderSongDone
  <2>3. Altered(bots[b], x)
    BY <2>2 DEF Altered
  <2> HIDE DEF x
  <2> QED BY <2>1, <2>2, <2>3 DEF Alters, Shaped
<1>4. ASSUME NEW s, PlaylistSongSetCurrent(b, s) PROVE Shaped(b)
  BY <1>0, <1>4, PlayOrStopKept, NormalizedKept, KeptAlters DEF PlaylistSongSetCurrent
<1>5. ASSUME NEW m \in Modes, PlaylistEdit(b, m) PROVE Shaped(b)
  <2>1. m \in 0..2
    BY BotBoundsAssumption
  <2> QED BY <1>0, <1>5, <2>1, ModeKept, KeptAlters DEF PlaylistEdit
<1> QED BY <1>1, <1>2, <1>3, <1>4, <1>5

\* A kick drops a bot; playlistdelete drops a playlist and empties a bot's.
LEMMA DropsShaped ==
    ASSUME IInv, NEW b \in BotIds
    PROVE  /\ RemoveBotClient(b) => Shaped(b)
           /\ PlaylistDelete(b) => Shaped(b)
<1>1. RemoveBotClient(b) => Shaped(b)
  BY DEF RemoveBotClient, Linked, MusicBotDelete, Shaped
<1>2. ASSUME PlaylistDelete(b) PROVE Shaped(b)
  <2>1. b \in DOMAIN bots /\ BotOK(bots[b], clients)
    BY <1>2 DEF PlaylistDelete, IInv
  <2>2. CASE bots[b].client = 0
    BY <1>2, <2>2 DEF PlaylistDelete, MusicBotDelete, Shaped
  <2>3. CASE bots[b].client # 0
    <3>1. Changed(b, Normalize(Clear(bots[b])))
      BY <1>2, <2>3 DEF PlaylistDelete, Changed
    <3> QED BY <2>1, <3>1, ClearKept, NormalizedKept, KeptAlters
  <2> QED BY <2>2, <2>3
<1> QED BY <1>1, <1>2

\* musicbotplayeraction
LEMMA PlayerShaped ==
    ASSUME IInv, NEW b \in BotIds, PlayerAction(b)
    PROVE  Shaped(b)
<1> DEFINE r == bots[b]
<1>0. b \in DOMAIN bots /\ BotOK(r, clients)
  BY DEF IInv, PlayerAction, PlayerStop, PlayerPlay, PlayerPause, PlayerNext, PlayerPrev, PlayerShift,
         PlayerClear, PlayerSeek, PlayerShuffle, PlayerSelect, PlayerRemove, PlayerMove, PlayerRepeat
<1>1. \A x : BotOK(x, clients) /\ Kept(r, x) /\ Changed(b, Normalize(x)) => Shaped(b)
  BY <1>0, NormalizedKept, KeptAlters
<1>2. CASE PlayerStop(b)
  <2>1. "stopped" \in States
    BY DEF States
  <2> QED BY <1>0, <1>1, <1>2, <2>1, HaltedKept DEF PlayerStop
<1>3. CASE PlayerPlay(b) \/ PlayerSeek(b) \/ PlayerPause(b)
  BY <1>0, <1>1, <1>3, PlayKept DEF PlayerPlay, PlayerSeek, PlayerPause
<1>4. CASE PlayerNext(b) \/ PlayerPrev(b)
  BY <1>0, <1>1, <1>4, StepKept DEF PlayerNext, PlayerPrev
<1>5. CASE PlayerShift(b)
  <2>1. Kept(r, r)
    BY DEF Kept
  <2> QED BY <1>0, <1>1, <1>5, <2>1 DEF PlayerShift
<1>6. CASE PlayerClear(b)
  BY <1>0, <1>1, <1>6, ClearKept DEF PlayerClear
<1>7. CASE PlayerShuffle(b)
  BY <1>0, <1>1, <1>7, ShuffleKept DEF PlayerShuffle
<1>8. ASSUME NEW s, PlayerSelect(b, s) PROVE Shaped(b)
  BY <1>0, <1>1, <1>8, PlayOrStopKept DEF PlayerSelect
<1>9. ASSUME NEW s, PlayerRemove(b, s) PROVE Shaped(b)
  BY <1>0, <1>1, <1>9, RemoveSongKept DEF PlayerRemove
<1>10. ASSUME NEW s, PlayerMove(b, s) PROVE Shaped(b)
  BY <1>0, <1>1, <1>10, MoveKept DEF PlayerMove
<1>11. ASSUME NEW m \in Modes, PlayerRepeat(b, m) PROVE Shaped(b)
  <2>1. m \in 0..2
    BY BotBoundsAssumption
  <2> QED BY <1>0, <1>1, <1>11, <2>1, ModeKept DEF PlayerRepeat
<1> QED
  BY <1>2, <1>3, <1>4, <1>5, <1>6, <1>7, <1>8, <1>9, <1>10, <1>11 DEF PlayerAction

\* The chat commands for a bot that is there.
LEMMA ChatShaped ==
    ASSUME IInv, NEW b \in BotIds, ChatCommand(b)
    PROVE  Shaped(b)
<1> DEFINE r == bots[b]
<1>0. /\ b \in Linked => b \in DOMAIN bots /\ BotOK(r, clients) /\ DOMAIN r.queue = 1..Len(r.queue)
  BY RecordFields DEF IInv, Linked
<1>1. \A x : b \in Linked /\ BotOK(x, clients) /\ Kept(r, x) /\ Changed(b, x) => Shaped(b)
  BY <1>0, KeptAlters
<1>2. CASE ChatBotSpawn(b) \/ \E u \in Urls : ChatSpawnAndPlay(b, u)
  BY <1>2, MakesShaped DEF ChatBotSpawn
<1>3. CASE ChatBotLeave(b)
  BY <1>3 DEF ChatBotLeave, Shaped
<1>4. ASSUME NEW u \in Urls, NEW now, ChatAdd(b, u, now) PROVE Shaped(b)
  BY <1>0, <1>1, <1>4, ChatEnqueueKept DEF ChatAdd
<1>5. CASE ChatPlay(b) \/ ChatResume(b)
  BY <1>0, <1>1, <1>5, PlayKept DEF ChatPlay, ChatResume
<1>6. CASE ChatPause(b)
  <2>1. "paused" \in States
    BY DEF States
  <2> QED BY <1>0, <1>1, <1>6, <2>1, HaltedKept DEF ChatPause
<1>7. CASE ChatStop(b)
  <2>1. "stopped" \in States
    BY DEF States
  <2> QED BY <1>0, <1>1, <1>7, <2>1, HaltedKept DEF ChatStop
<1>8. CASE ChatStep(b)
  BY <1>0, <1>1, <1>8, StepKept DEF ChatStep
<1>9. CASE ChatShuffle(b)
  BY <1>0, <1>1, <1>9, ShuffleKept DEF ChatShuffle
<1>10. CASE ChatClear(b)
  BY <1>0, <1>1, <1>10, ClearKept DEF ChatClear
<1>11. ASSUME NEW i, ChatJump(b, i) PROVE Shaped(b)
  BY <1>0, <1>1, <1>11, StepKept DEF ChatJump
<1>12. ASSUME NEW i, ChatQueueRemove(b, i) PROVE Shaped(b)
  BY <1>0, <1>1, <1>12, ChatRemoveKept DEF ChatQueueRemove
<1>13. ASSUME NEW i, NEW j, ChatQueueMove(b, i, j) PROVE Shaped(b)
  BY <1>0, <1>1, <1>13, ChatMoveKept DEF ChatQueueMove
<1>14. ASSUME NEW m \in Modes, ChatLoop(b, m) PROVE Shaped(b)
  <2>1. m \in 0..2
    BY BotBoundsAssumption
  <2> QED BY <1>0, <1>1, <1>14, <2>1, ModeKept DEF ChatLoop
<1> QED
  BY <1>2, <1>3, <1>4, <1>5, <1>6, <1>7, <1>8, <1>9, <1>10, <1>11, <1>12, <1>13, <1>14
     DEF ChatCommand

\* What a stream of the engine reports.
LEMMA ReportsShaped ==
    ASSUME IInv, NEW b \in BotIds, NEW s \in SongIds, SongEnded(b, s) \/ SongFailed(b, s)
    PROVE  Shaped(b)
<1>0. b \in DOMAIN bots /\ BotOK(bots[b], clients) /\ bots[b].cur = s
  BY DEF IInv, SongEnded, SongFailed, Linked
<1>1. CASE SongEnded(b, s)
  <2>1. Changed(b, AfterEnd(bots[b], bots[b].cur))
    BY <1>0, <1>1 DEF SongEnded
  <2> QED BY <1>0, <2>1, AfterEndKept, KeptAlters
<1>2. CASE SongFailed(b, s)
  <2>1. "stopped" \in States
    BY DEF States
  <2> QED BY <1>0, <1>2, <2>1, HaltedKept, KeptAlters DEF SongFailed
<1> QED BY <1>1, <1>2

\* Every step alters one bot, makes one, drops one or gives one the playlist
\* of another.
LEMMA StepShapes ==
    ASSUME IInv, Next
    PROVE  \E b \in BotIds : Shaped(b)
<1>1. PICK b \in BotIds :
         \/ BotCommand(b) \/ PlaylistCommand(b) \/ PlayerAction(b) \/ ChatCommand(b)
         \/ \E s \in SongIds : SongEnded(b, s) \/ SongFailed(b, s)
  BY DEF Next
<1>2. CASE BotCommand(b)
  <2>1. MusicBotDelete(b) => Shaped(b)
    BY DEF Shaped
  <2>2. (\E u \in Urls, p \in 0..MaxSong, now \in BOOLEAN : QueueAdd(b, u, p, now)) => Shaped(b)
    BY QueueShaped
  <2>3. (\E s \in SongIds : QueueRemove(b, s)) => Shaped(b)
    BY QueueShaped
  <2>4. (\E s \in SongIds, p \in 0..MaxSong : QueueReorder(b, s, p)) => Shaped(b)
    BY QueueShaped
  <2> QED BY <1>2, <2>1, <2>2, <2>3, <2>4, MakesShaped, DropsShaped DEF BotCommand
<1>3. CASE PlaylistCommand(b)
  <2>1. (\E x \in BotIds : MusicBotPlaylistAssign(b, x)) => Shaped(b)
    BY DEF Shaped, Assigns
  <2>2. (\E u \in Urls, p \in 0..MaxSong : PlaylistSongAdd(b, u, p)) => Shaped(b)
    BY QueueShaped DEF PlaylistSongAdd
  <2>3. (\E s \in SongIds : PlaylistSongRemove(b, s) \/ PlaylistSongSetCurrent(b, s)) => Shaped(b)
    BY QueueShaped DEF PlaylistSongRemove
  <2>4. (\E s \in SongIds, p \in 0..MaxSong : PlaylistSongReorder(b, s, p)) => Shaped(b)
    BY QueueShaped DEF PlaylistSongReorder
  <2>5. (\E m \in Modes : PlaylistEdit(b, m)) => Shaped(b)
    BY QueueShaped
  <2> QED
    BY <1>3, <2>1, <2>2, <2>3, <2>4, <2>5, MakesShaped, DropsShaped DEF PlaylistCommand
<1> QED BY <1>1, <1>2, <1>3, PlayerShaped, ChatShaped, ReportsShaped

-----------------------------------------------------------------------------
(* The invariant and the type invariant.                                   *)

\* More clients leave a record in order.
LEMMA MoreClients ==
    ASSUME NEW n \in Nat, NEW m \in Nat, n <= m, NEW r, BotOK(r, n)
    PROVE  BotOK(r, m)
<1>1. r \in Record /\ r.client \in 0..MaxClient /\ r.client <= n /\ Queue(r.queue, r.next)
  BY RecordFields
<1>2. r.client <= m
  BY <1>1, BotBoundsAssumption
<1> QED BY <1>1, <1>2 DEF BotOK

\* What a shaped step does to every bot.
LEMMA ShapedBots ==
    ASSUME IInv, NEW b \in BotIds, Shaped(b)
    PROVE  /\ bots' = [x \in DOMAIN bots' |-> bots'[x]]
           /\ DOMAIN bots' \subseteq DOMAIN bots \union {b}
           /\ clients' \in 0..MaxClient /\ clients <= clients'
           /\ \A x \in DOMAIN bots' : x # b => bots'[x] = bots[x]
           /\ b \in DOMAIN bots' => BotOK(bots'[b], clients')
           /\ b \in DOMAIN bots' /\ b \in DOMAIN bots =>
                 bots'[b] = bots[b] \/ Altered(bots[b], bots'[b])
                 \/ \E src \in BotIds : /\ MusicBotPlaylistAssign(b, src)
                                        /\ bots'[b] = Assign(bots[b], bots[src])
                                        /\ BotOK(bots[b], clients) /\ BotOK(bots[src], clients)
<1>0. clients \in 0..MaxClient /\ MaxClient \in Nat /\ bots = [x \in DOMAIN bots |-> bots[x]]
      /\ \A x \in DOMAIN bots : BotOK(bots[x], clients)
  BY BotBoundsAssumption DEF IInv
<1>1. CASE Alters(b)
  <2>1. PICK x : BotOK(x, clients) /\ Altered(bots[b], x) /\ Changed(b, x)
    BY <1>1 DEF Alters
  <2>2. b \in DOMAIN bots /\ clients' = clients /\ bots' = [bots EXCEPT ![b] = x]
    BY <1>1, <2>1 DEF Alters, Changed
  <2>3. /\ DOMAIN bots' = DOMAIN bots /\ bots'[b] = x /\ \A y \in DOMAIN bots : y # b => bots'[y] = bots[y]
        /\ bots' = [y \in DOMAIN bots' |-> bots'[y]]
    BY <1>0, <2>2
  <2> QED BY <1>0, <2>1, <2>2, <2>3
<1>2. CASE Makes(b)
  <2>1. PICK x : /\ bots' = WithBot(b, x)
                 /\ \/ BotOK(x, clients) /\ x.client = 0 /\ UNCHANGED clients
                    \/ /\ clients < MaxClient /\ clients' = clients + 1
                       /\ BotOK(x, clients + 1) /\ x.client = clients + 1
    BY <1>2 DEF Makes
  <2>2. b \notin DOMAIN bots
    BY <1>2 DEF Makes
  <2>3. /\ DOMAIN bots' = DOMAIN bots \union {b} /\ bots'[b] = x
        /\ \A y \in DOMAIN bots : y # b => bots'[y] = bots[y]
        /\ bots' = [y \in DOMAIN bots' |-> bots'[y]]
    BY <2>1 DEF WithBot
  <2>4. clients' \in 0..MaxClient /\ clients <= clients' /\ BotOK(x, clients')
    BY <1>0, <2>1
  <2> QED BY <2>2, <2>3, <2>4
<1>3. CASE MusicBotDelete(b)
  <2>1. /\ DOMAIN bots' = DOMAIN bots \ {b} /\ clients' = clients
        /\ \A y \in DOMAIN bots : y # b => bots'[y] = bots[y]
        /\ bots' = [y \in DOMAIN bots' |-> bots'[y]]
    BY <1>3 DEF MusicBotDelete, WithoutBot
  <2> QED BY <1>0, <2>1
<1>4. CASE Assigns(b)
  <2>1. PICK src \in BotIds : MusicBotPlaylistAssign(b, src)
    BY <1>4 DEF Assigns
  <2>2. b \in DOMAIN bots /\ src \in DOMAIN bots /\ src # b /\ clients' = clients
    BY <2>1 DEF MusicBotPlaylistAssign
  <2>3. /\ DOMAIN bots' \subseteq DOMAIN bots
        /\ \A y \in DOMAIN bots' : y # b => bots'[y] = bots[y]
        /\ b \in DOMAIN bots' => bots'[b] = Assign(bots[b], bots[src])
        /\ bots' = [y \in DOMAIN bots' |-> bots'[y]]
    BY <2>1, <2>2 DEF MusicBotPlaylistAssign
  <2>4. BotOK(Assign(bots[b], bots[src]), clients)
    BY <1>0, <2>2, AssignDone
  <2> QED BY <1>0, <2>1, <2>2, <2>3, <2>4
<1> QED BY <1>1, <1>2, <1>3, <1>4 DEF Shaped

\* The invariant holds at the start.
LEMMA InitIInv == Init => IInv
BY BotBoundsAssumption DEF Init, IInv

\* Every step keeps it.
LEMMA NextIInv == IInv /\ [Next]_vars => IInv'
<1> SUFFICES ASSUME IInv, [Next]_vars PROVE IInv'
  OBVIOUS
<1>1. CASE Next
  <2>1. PICK b \in BotIds : Shaped(b)
    BY <1>1, StepShapes
  <2>2. /\ bots' = [x \in DOMAIN bots' |-> bots'[x]]
        /\ DOMAIN bots' \subseteq DOMAIN bots \union {b}
        /\ clients' \in 0..MaxClient /\ clients <= clients'
        /\ \A x \in DOMAIN bots' : x # b => bots'[x] = bots[x]
        /\ b \in DOMAIN bots' => BotOK(bots'[b], clients')
    BY <2>1, ShapedBots
  <2>3. ASSUME NEW x \in DOMAIN bots', x # b PROVE BotOK(bots'[x], clients')
    <3>1. x \in DOMAIN bots /\ bots'[x] = bots[x] /\ BotOK(bots[x], clients)
      BY <2>2, <2>3 DEF IInv
    <3>2. clients \in Nat /\ clients' \in Nat
      BY <2>2, BotBoundsAssumption DEF IInv
    <3> QED BY <2>2, <3>1, <3>2, MoreClients
  <2> QED BY <2>2, <2>3 DEF IInv
<1>2. CASE UNCHANGED vars
  BY <1>2 DEF IInv, vars
<1> QED BY <1>1, <1>2

\* IInv is an invariant of the specification.
LEMMA Invariant == Spec => []IInv
BY InitIInv, NextIInv, PTL DEF Spec

\* A queue without repetitions has as many ids as entries.
LEMMA IdsCounted ==
    ASSUME NEW q \in Seq(Entry), Distinct(q)
    PROVE  Cardinality(QIds(q)) = Len(q)
<1> DEFINE f == [i \in 1..Len(q) |-> q[i].id]
<1>0. /\ Len(q) \in Nat /\ \A i \in 1..Len(q) : q[i].id \in QIds(q)
      /\ \A s \in QIds(q) : \E i \in 1..Len(q) : q[i].id = s
  BY IdsOfQueue
<1>1. f \in Injection(1..Len(q), QIds(q))
  BY <1>0 DEF Injection, IsInjective, Distinct
<1>2. f \in Surjection(1..Len(q), QIds(q))
  BY <1>0 DEF Surjection
<1>3. ExistsBijection(1..Len(q), QIds(q))
  BY <1>1, <1>2 DEF ExistsBijection, Bijection
<1>4. IsFiniteSet(1..Len(q)) /\ Cardinality(1..Len(q)) = IF 1 > Len(q) THEN 0 ELSE Len(q) - 1 + 1
  BY <1>0, FS_Interval
<1>5. Cardinality(QIds(q)) = Cardinality(1..Len(q))
  BY <1>3, <1>4, FS_Bijection
<1> QED BY <1>0, <1>4, <1>5

\* Type correctness: whichever commands come in whichever order, no song is
\* queued twice and the ids stay below next_song_id's bound.
THEOREM TypeCorrect == Spec => []TypeOK
<1>1. IInv => TypeOK
  <2> SUFFICES ASSUME IInv PROVE TypeOK
    OBVIOUS
  <2>1. ASSUME NEW b \in DOMAIN bots
        PROVE  /\ bots[b] \in [client : 0..MaxClient, queue : Seq([id : SongIds, url : Urls]),
                               cur : 0..MaxSong, next : 1..(MaxSong + 1), state : States, mode : 0..2]
               /\ Cardinality(Ids(bots[b])) = Len(bots[b].queue)
    <3>1. BotOK(bots[b], clients)
      BY DEF IInv
    <3>2. bots[b] \in Record /\ bots[b].queue \in Seq(Entry) /\ Distinct(bots[b].queue)
          /\ Ids(bots[b]) = QIds(bots[b].queue)
      BY <3>1, RecordFields DEF Queue
    <3> QED BY <3>2, IdsCounted DEF Record, Entry
  <2> QED BY <2>1 DEF IInv, TypeOK
<1> QED BY <1>1, Invariant, PTL

\* The song a bot plays stays in its queue, but for a reorder behind a song that
\* is not there: for all three sets of commands and every queue.
THEOREM CurrentStays == Spec => CurrentStaysQueued
<1> DEFINE A == \A b \in DOMAIN bots \cap DOMAIN bots' :
                   Dangling(bots'[b]) /\ ~ Dangling(bots[b])
                   => \E p \in SongIds \ Ids(bots'[b]) : bots'[b] = ReorderSong(bots[b], bots[b].cur, p)
<1>1. IInv /\ [Next]_vars => [A]_vars
  <2> SUFFICES ASSUME IInv, Next, NEW b \in DOMAIN bots \cap DOMAIN bots',
                      Dangling(bots'[b]), ~ Dangling(bots[b])
               PROVE  \E p \in SongIds \ Ids(bots'[b]) : bots'[b] = ReorderSong(bots[b], bots[b].cur, p)
    OBVIOUS
  <2>1. PICK c \in BotIds : Shaped(c)
    BY StepShapes
  <2>2. b = c
    BY <2>1, ShapedBots
  <2>3. \/ bots'[b] = bots[b] \/ Altered(bots[b], bots'[b])
        \/ \E src \in BotIds : /\ bots'[b] = Assign(bots[b], bots[src])
                               /\ BotOK(bots[b], clients) /\ BotOK(bots[src], clients)
    BY <2>1, <2>2, ShapedBots
  <2>4. CASE Altered(bots[b], bots'[b])
    BY <2>4 DEF Altered
  <2>5. ASSUME NEW src, bots'[b] = Assign(bots[b], bots[src]),
               BotOK(bots[b], clients), BotOK(bots[src], clients)
        PROVE  FALSE
    BY <2>5, AssignDone
  <2> QED BY <2>3, <2>4, <2>5
<1> QED BY <1>1, Invariant, PTL DEF Spec, CurrentStaysQueued

\* A bot that plays has something to play: it comes to play nothing only when
\* musicbotplaylistassign gives it an empty playlist, or when it had lost its
\* song before.
THEOREM BotsPlaySomething == Spec => PlaysSomething
<1> DEFINE A == \A b \in DOMAIN bots \cap DOMAIN bots' :
                   Silent(bots'[b]) /\ ~ Silent(bots[b]) /\ ~ Dangling(bots[b])
                   => \E x \in BotIds : MusicBotPlaylistAssign(b, x) /\ bots[x].queue = <<>>
<1>1. IInv /\ [Next]_vars => [A]_vars
  <2> SUFFICES ASSUME IInv, Next, NEW b \in DOMAIN bots \cap DOMAIN bots',
                      Silent(bots'[b]), ~ Silent(bots[b]), ~ Dangling(bots[b])
               PROVE  \E x \in BotIds : MusicBotPlaylistAssign(b, x) /\ bots[x].queue = <<>>
    OBVIOUS
  <2>1. PICK c \in BotIds : Shaped(c)
    BY StepShapes
  <2>2. b = c
    BY <2>1, ShapedBots
  <2>3. \/ bots'[b] = bots[b] \/ Altered(bots[b], bots'[b])
        \/ \E src \in BotIds : /\ MusicBotPlaylistAssign(b, src)
                               /\ bots'[b] = Assign(bots[b], bots[src])
                               /\ BotOK(bots[b], clients) /\ BotOK(bots[src], clients)
    BY <2>1, <2>2, ShapedBots
  <2>4. ~ Altered(bots[b], bots'[b])
    BY DEF Altered
  <2>5. PICK src \in BotIds : /\ MusicBotPlaylistAssign(b, src)
                              /\ bots'[b] = Assign(bots[b], bots[src])
                              /\ BotOK(bots[b], clients) /\ BotOK(bots[src], clients)
    BY <2>3, <2>4
  <2>6. bots[src].queue = <<>>
    <3>1. ASSUME NEW r, NEW s, BotOK(r, clients), BotOK(s, clients), Silent(Assign(r, s))
          PROVE  s.queue = <<>>
      BY <3>1, AssignDone
    <3>2. Silent(Assign(bots[b], bots[src]))
      BY <2>5
    <3> QED BY <2>5, <3>1, <3>2
  <2> QED BY <2>5, <2>6
<1> QED BY <1>1, Invariant, PTL DEF Spec, PlaysSomething

-----------------------------------------------------------------------------
(* MusicBot implements BotPlayer.                                          *)

\* What the engine sees of a record.
SeenOf(r) ==
    IF r.client = 0 THEN [client |-> 0, track |-> NoTrack, state |-> "stopped"]
    ELSE [client |-> r.client, state |-> r.state,
          track |-> IF Pos(r, r.cur) = 0 THEN NoTrack ELSE r.queue[Pos(r, r.cur)]]

Unseen == [client |-> 0, track |-> NoTrack, state |-> "stopped"]

\* A bot with a client is seen with it, and with a song of its queue or none.
LEMMA SeenBot ==
    ASSUME NEW n, NEW r, BotOK(r, n)
    PROVE  /\ r.client = 0 => SeenOf(r) = Unseen
           /\ r.client # 0 => /\ SeenOf(r) # Unseen /\ SeenOf(r).client = r.client
                              /\ SeenOf(r) \in [client : {r.client}, track : Entry \union {NoTrack},
                                                state : States]
<1>1. r.state \in States
  BY RecordFields
<1>2. Pos(r, r.cur) # 0 => r.queue[Pos(r, r.cur)] \in Entry
  BY PosOfSong
<1> DEFINE t == IF Pos(r, r.cur) = 0 THEN NoTrack ELSE r.queue[Pos(r, r.cur)]
<1>3. t \in Entry \union {NoTrack}
  BY <1>2
<1>4. SeenOf(r) = IF r.client = 0 THEN Unseen ELSE [client |-> r.client, state |-> r.state, track |-> t]
  BY DEF SeenOf, Unseen
<1> HIDE DEF t
<1> QED BY <1>1, <1>3, <1>4 DEF Unseen

\* What is seen of a bot, before and after a step.
LEMMA SeenIs ==
    ASSUME NEW b
    PROVE  /\ Seen(b) = IF b \in DOMAIN bots THEN SeenOf(bots[b]) ELSE Unseen
           /\ Seen(b)' = IF b \in DOMAIN bots' THEN SeenOf(bots'[b]) ELSE Unseen
BY DEF Seen, SeenOf, Unseen

\* The steps of BotPlayer, for a bot that is seen as p before and as q after.
Steps(p, q) ==
    \/ p = q /\ clients' = clients
    \/ p = q /\ clients < MaxClient /\ clients' = clients + 1
    \/ /\ p = Unseen /\ clients < MaxClient /\ clients' = clients + 1
       /\ q \in [client : {clients + 1}, track : Entry \union {NoTrack}, state : States]
    \/ p # Unseen /\ q = Unseen /\ clients' = clients
    \/ /\ p # Unseen /\ clients' = clients
       /\ q \in [client : {p.client}, track : Entry \union {NoTrack}, state : States]

\* They are the steps of the instance.
LEMMA PlayerSteps ==
    ASSUME NEW b \in BotIds, Steps(Seen(b), Seen(b)')
    PROVE  UNCHANGED Player(b)!playerVars \/ Player(b)!PlayerTurn
BY DEF Steps, Unseen, Entry, NoTrack, States, Player!playerVars, Player!PlayerTurn, Player!Appear, Player!Vanish,
       Player!Change, Player!OtherClient, Player!BecomesBot, Player!Absent, Player!NoTrack, Player!States

\* The start of the instance.
LEMMA PlayerStart ==
    ASSUME NEW b \in BotIds, Init
    PROVE  Player(b)!PlayerInit
BY DEF Init, Seen, NoTrack, Player!PlayerInit, Player!Absent, Player!NoTrack

\* Every step is one of BotPlayer for every bot id.
LEMMA SeenSteps ==
    ASSUME IInv, Next, NEW b \in BotIds
    PROVE  Steps(Seen(b), Seen(b)')
<1>0. /\ clients \in 0..MaxClient /\ MaxClient \in Nat
      /\ \A x \in DOMAIN bots : BotOK(bots[x], clients)
  BY BotBoundsAssumption DEF IInv
<1>1. PICK c \in BotIds : Shaped(c)
  BY StepShapes
<1>2. /\ \A x \in DOMAIN bots' : x # c => x \in DOMAIN bots /\ bots'[x] = bots[x]
      /\ c \in DOMAIN bots' => BotOK(bots'[c], clients')
  BY <1>1, ShapedBots
<1>3. clients' = clients \/ (clients < MaxClient /\ clients' = clients + 1)
  BY <1>1 DEF Shaped, Alters, Changed, Makes, MusicBotDelete, Assigns, MusicBotPlaylistAssign
<1>4. b \notin DOMAIN bots /\ b \notin DOMAIN bots' => Seen(b) = Seen(b)'
  BY SeenIs
<1>5. CASE b # c
  <2>1. CASE b \in DOMAIN bots'
    BY <1>2, <1>3, <1>5, <2>1, SeenIs DEF Steps
  <2>2. CASE b \notin DOMAIN bots' /\ b \in DOMAIN bots
    <3>1. Assigns(c)
      <4>1. ~ MusicBotDelete(c)
        BY <1>5, <2>2 DEF MusicBotDelete, WithoutBot
      <4>2. ~ Makes(c)
        BY <1>5, <2>2 DEF Makes, WithBot
      <4>3. ~ Alters(c)
        BY <1>5, <2>2 DEF Alters, Changed
      <4> QED BY <1>1, <4>1, <4>2, <4>3 DEF Shaped
    <3>2. bots[b].client = 0
      BY <1>5, <2>2, <3>1 DEF Assigns, MusicBotPlaylistAssign
    <3>3. Seen(b) = Seen(b)'
      BY <1>0, <2>2, <3>2, SeenIs, SeenBot
    <3> QED BY <1>3, <3>3 DEF Steps
  <2>3. CASE b \notin DOMAIN bots' /\ b \notin DOMAIN bots
    BY <1>3, <1>4, <2>3 DEF Steps
  <2> QED BY <2>1, <2>2, <2>3
<1>6. CASE b = c
  <2>1. CASE b \in DOMAIN bots /\ b \in DOMAIN bots'
    <3>1. bots'[b].client = bots[b].client /\ BotOK(bots[b], clients) /\ BotOK(bots'[b], clients')
      <4>1. ASSUME NEW src, BotOK(bots[src], clients), BotOK(bots[b], clients)
            PROVE  Assign(bots[b], bots[src]).client = bots[b].client
        <5> DEFINE r == bots[b]
                   s == bots[src]
        <5>1. BotOK(r, clients) /\ BotOK(s, clients)
          BY <4>1
        <5> HIDE DEF r, s
        <5>2. Assign(r, s).client = r.client
          BY <5>1, AssignDone
        <5> QED BY <5>2 DEF r, s
      <4> QED BY <1>0, <1>1, <1>2, <1>6, <2>1, <4>1, ShapedBots DEF Altered
    <3>2. clients' = clients
      BY <1>1, <1>6, <2>1 DEF Shaped, Alters, Changed, Makes, MusicBotDelete, Assigns, MusicBotPlaylistAssign
    <3>3. Seen(b) = SeenOf(bots[b]) /\ Seen(b)' = SeenOf(bots'[b])
      BY <2>1, SeenIs
    <3> QED BY <3>1, <3>2, <3>3, SeenBot DEF Steps
  <2>2. CASE b \in DOMAIN bots /\ b \notin DOMAIN bots'
    <3>1. clients' = clients
      BY <1>1, <1>6, <2>2 DEF Shaped, Alters, Changed, Makes, MusicBotDelete, Assigns, MusicBotPlaylistAssign
    <3>2. Seen(b) = SeenOf(bots[b]) /\ Seen(b)' = Unseen
      BY <2>2, SeenIs
    <3> QED BY <1>0, <2>2, <3>1, <3>2, SeenBot DEF Steps
  <2>3. CASE b \notin DOMAIN bots /\ b \in DOMAIN bots'
    <3>1. Makes(b)
      BY <1>1, <1>6, <2>3 DEF Shaped, Alters, Changed, MusicBotDelete, Assigns, MusicBotPlaylistAssign
    <3>2. PICK x : /\ bots' = WithBot(b, x)
                   /\ \/ BotOK(x, clients) /\ x.client = 0 /\ UNCHANGED clients
                      \/ /\ clients < MaxClient /\ clients' = clients + 1
                         /\ BotOK(x, clients + 1) /\ x.client = clients + 1
      BY <3>1 DEF Makes
    <3>3. Seen(b) = Unseen /\ Seen(b)' = SeenOf(x)
      BY <2>3, <3>2, SeenIs DEF WithBot
    <3>4. CASE BotOK(x, clients) /\ x.client = 0 /\ UNCHANGED clients
      BY <3>3, <3>4, SeenBot DEF Steps
    <3>5. CASE /\ clients < MaxClient /\ clients' = clients + 1
               /\ BotOK(x, clients + 1) /\ x.client = clients + 1
      <4>1. x.client # 0
        BY <1>0, <3>5
      <4>2. SeenOf(x) \in [client : {clients + 1}, track : Entry \union {NoTrack}, state : States]
        BY <3>5, <4>1, SeenBot
      <4> QED BY <3>3, <3>5, <4>2 DEF Steps
    <3> QED BY <3>2, <3>4, <3>5
  <2>4. CASE b \notin DOMAIN bots /\ b \notin DOMAIN bots'
    BY <1>3, <1>4, <2>4 DEF Steps
  <2> QED BY <2>1, <2>2, <2>3, <2>4
<1> QED BY <1>5, <1>6

\* The bot of every id, as the audio engine sees it, implements BotPlayer: no
\* client is ever given to two bots, and a bot goes away before another one
\* takes its id.
THEOREM BotsImplementPlayer == Spec => ImplementsPlayer
<1> DEFINE A == \A b \in BotIds : UNCHANGED Player(b)!playerVars \/ Player(b)!PlayerTurn
<1>1. Init => \A b \in BotIds : Player(b)!PlayerInit
  BY PlayerStart
<1>2. IInv /\ [Next]_vars => [A]_vars
  BY SeenSteps, PlayerSteps
<1> QED BY <1>1, <1>2, Invariant, PTL DEF Spec, ImplementsPlayer

-----------------------------------------------------------------------------
(* The engine, whose player is any behaviour of BotPlayer.                 *)

\* Only the stream in active_streams has not been told to stop.
OnlyActiveLives == \A i \in Slots : ~ streams[i].stop => i = active

\* Whoever the engine knows of was made before: a client id that is still to be
\* given is neither on air, nor read, nor the client of a stream.
KnownClients ==
    /\ \A k \in onair : k <= clients
    /\ desired.client <= clients
    /\ \A i \in Slots : streams[i].client <= clients

\* A stream that is about to start its pipeline has no video thread yet.
VideoAfterBegin == \A i \in Slots : streams[i].audio = "begin" => streams[i].video = "done"

\* What is inductive.
EngineIInv == EngineTypeOK /\ OnlyActiveLives /\ KnownClients /\ VideoAfterBegin /\ BroadcastBacked

-----------------------------------------------------------------------------

\* The lowest slot of a set of slots is one of them.
LEMMA LowestSlot ==
    ASSUME NEW S \in SUBSET Slots, S # {}
    PROVE  (CHOOSE x \in S : \A y \in S : x <= y) \in S
<1>1. S \in SUBSET Nat
  BY EngineBoundsAssumption DEF Slots
<1>2. PICK x \in S : \A y \in S : ~ (<<y, x>> \in OpToRel(<, Nat))
  BY <1>1, NatLessThanWellFounded, WFMin
<1>3. \A a, b \in Nat : a < b => <<a, b>> \in OpToRel(<, Nat)
  BY Zenon DEF OpToRel
<1>4. \A y \in S : ~ (y < x)
  BY <1>1, <1>2, <1>3, Zenon
<1>5. \A y \in S : x <= y
  BY <1>1, <1>4
<1> QED
  BY <1>5

Stream == [client : ClientIds, track : Tracks, stop : BOOLEAN,
           audio : {"begin", "load", "play", "advance", "fail", "done"},
           video : {"done", "pipe", "onair"}]

\* A thread of stream i that leaves its client alone, does not take back the stop
\* flag, and keeps a broadcast it backs, keeps what is known of the streams.
LEMMA ThreadStep ==
    ASSUME EngineIInv, NEW i \in Slots, NEW r \in Stream, StreamTo(i, r),
           r.client = streams[i].client, streams[i].stop => r.stop,
           r.audio = "begin" => r.video = "done"
    PROVE  /\ streams' \in [Slots -> {NoStream} \union Stream]
           /\ \A j \in Slots : ~ streams'[j].stop => j = active
           /\ \A j \in Slots : streams'[j].client <= clients
           /\ \A j \in Slots : streams'[j].audio = "begin" => streams'[j].video = "done"
           /\ \A j \in Slots \ {i} : streams'[j] = streams[j]
           /\ r.video = "onair" => streams'[i] = r
<1>1. streams \in [Slots -> {NoStream} \union Stream]
  BY DEF EngineIInv, EngineTypeOK, Stream
<1>2. streams'[i] \in {NoStream, r} /\ \A j \in Slots \ {i} : streams'[j] = streams[j]
  BY <1>1 DEF StreamTo
<1>3. streams' \in [Slots -> {NoStream} \union Stream]
  BY <1>1 DEF StreamTo
<1>4. NoStream.stop /\ NoStream.client = 0 /\ NoStream.audio = "done"
  BY DEF NoStream
<1>5. clients \in Nat
  BY EngineBoundsAssumption DEF EngineIInv, EngineTypeOK
<1>6. r.video = "onair" => streams'[i] = r
  BY <1>1 DEF StreamTo, Ended
<1> QED
  BY <1>2, <1>3, <1>4, <1>5, <1>6 DEF EngineIInv, OnlyActiveLives, KnownClients, VideoAfterBegin

\* The part of the invariant that a step of the threads may disturb beyond the
\* streams: the player keeps its client, and a broadcast that stays is backed.
LEMMA ThreadKeeps ==
    ASSUME EngineIInv, NEW i \in Slots, NEW r \in Stream, StreamTo(i, r),
           r.client = streams[i].client, streams[i].stop => r.stop,
           r.audio = "begin" => r.video = "done",
           UNCHANGED loopVars, seek' \in BOOLEAN,
           player' \in {Absent} \union [client : ClientIds, track : Tracks \union {NoTrack}, state : States],
           player'.client = player.client,
           onair' \subseteq onair \union {r.client},
           streams[i].video = "onair" /\ r.video # "onair" /\ player.client = r.client => r.client \notin onair',
           r.client \in onair' /\ r.client \notin onair => r.video = "onair"
    PROVE  EngineIInv'
<1>1. /\ streams' \in [Slots -> {NoStream} \union Stream]
      /\ \A j \in Slots : ~ streams'[j].stop => j = active
      /\ \A j \in Slots : streams'[j].client <= clients
      /\ \A j \in Slots : streams'[j].audio = "begin" => streams'[j].video = "done"
      /\ \A j \in Slots \ {i} : streams'[j] = streams[j]
      /\ r.video = "onair" => streams'[i] = r
  BY ThreadStep
<1>2. clients' = clients /\ turn' = turn /\ desired' = desired /\ active' = active
  BY DEF loopVars
<1>3. streams[i].client = r.client /\ r.client \in ClientIds /\ r.client <= clients
  BY DEF Stream, EngineIInv, KnownClients
<1>4. onair' \subseteq ClientIds /\ \A k \in onair' : k <= clients
  BY <1>3 DEF EngineIInv, EngineTypeOK, KnownClients
<1>5. EngineTypeOK'
  BY <1>1, <1>2, <1>4 DEF EngineIInv, EngineTypeOK, Stream
<1>6. OnlyActiveLives' /\ KnownClients' /\ VideoAfterBegin'
  BY <1>1, <1>2, <1>4 DEF EngineIInv, OnlyActiveLives, KnownClients, VideoAfterBegin
<1>7. ASSUME NEW k \in onair', k = player'.client
      PROVE  \E j \in Slots : streams'[j].client = k /\ streams'[j].video = "onair"
  <2>1. CASE r.client = k /\ r.video = "onair"
    BY <2>1, <1>1
  <2>2. CASE ~ (r.client = k /\ r.video = "onair")
    <3>1. k \in onair /\ k = player.client
      BY <2>2, <1>7
    <3>2. PICK j \in Slots : streams[j].client = k /\ streams[j].video = "onair"
      BY <3>1 DEF EngineIInv, BroadcastBacked
    <3>3. j # i
      BY <2>2, <3>1, <3>2, <1>3, <1>7
    <3> QED
      BY <3>2, <3>3, <1>1
  <2> QED
    BY <2>1, <2>2
<1>8. BroadcastBacked'
  BY <1>7 DEF BroadcastBacked
<1> QED
  BY <1>5, <1>6, <1>8 DEF EngineIInv

\* A stream whose thread takes a step is a stream, not an empty slot.
LEMMA RunningStream ==
    ASSUME EngineIInv, NEW i \in Slots, streams[i].audio # "done" \/ streams[i].video # "done"
    PROVE  streams[i] \in Stream
BY DEF EngineIInv, EngineTypeOK, Stream, NoStream

\* StopBot leaves the client of the player alone.
LEMMA StopBotKeepsClient ==
    ASSUME EngineIInv, NEW r
    PROVE  /\ StopBot(r) \in {Absent} \union [client : ClientIds, track : Tracks \union {NoTrack}, state : States]
           /\ StopBot(r).client = player.client
<1>1. player \in {Absent} \union [client : ClientIds, track : Tracks \union {NoTrack}, state : States]
  BY DEF EngineIInv, EngineTypeOK
<1>2. CASE StillCurrent(r)
  <2>1. player \in [client : ClientIds, track : Tracks \union {NoTrack}, state : States]
    BY <1>1, <1>2 DEF StillCurrent
  <2> QED
    BY <1>2, <2>1 DEF StopBot, States
<1>3. CASE ~ StillCurrent(r)
  BY <1>3, <1>1 DEF StopBot
<1> QED
  BY <1>2, <1>3

\* The steps of a thread that end its loop.
LEMMA EndOfLoopInductive ==
    ASSUME EngineIInv, NEW i \in Slots, streams[i].audio # "done",
           NEW outcome \in {"advance", "fail", "done"}, EndOfLoop(i, outcome)
    PROVE  EngineIInv'
<1> DEFINE r == [streams[i] EXCEPT !.audio = outcome, !.stop = TRUE]
<1>1. streams[i] \in Stream
  BY RunningStream
<1>2. /\ r \in Stream /\ r.client = streams[i].client /\ r.stop
      /\ r.audio # "begin" /\ r.video = streams[i].video
  BY <1>1 DEF Stream
<1>3. StreamTo(i, r) /\ UNCHANGED <<player, seek, loopVars>> /\ onair' \subseteq onair
  BY DEF EndOfLoop, Cleared
<1>4. player \in {Absent} \union [client : ClientIds, track : Tracks \union {NoTrack}, state : States]
      /\ seek \in BOOLEAN
  BY DEF EngineIInv, EngineTypeOK
<1> HIDE DEF r
<1> QED
  BY <1>2, <1>3, <1>4, ThreadKeeps

\* The end of the video thread.
LEMMA VideoEndInductive ==
    ASSUME EngineIInv, NEW i \in Slots, streams[i].video # "done", VideoEnd(i)
    PROVE  EngineIInv'
<1> DEFINE r == [streams[i] EXCEPT !.video = "done"]
<1>1. streams[i] \in Stream
  BY RunningStream
<1>2. /\ r \in Stream /\ r.client = streams[i].client /\ r.stop = streams[i].stop
      /\ r.video = "done"
  BY <1>1 DEF Stream
<1>3. StreamTo(i, r) /\ UNCHANGED <<player, seek, loopVars>> /\ onair' \subseteq onair
  BY DEF VideoEnd, Cleared
<1>4. streams[i].video = "onair" /\ player.client = r.client => r.client \notin onair'
  BY <1>2 DEF VideoEnd, Cleared
<1>5. player \in {Absent} \union [client : ClientIds, track : Tracks \union {NoTrack}, state : States]
      /\ seek \in BOOLEAN
  BY DEF EngineIInv, EngineTypeOK
<1> HIDE DEF r
<1> QED
  BY <1>2, <1>3, <1>4, <1>5, ThreadKeeps

\* Every step of every thread of a stream keeps the invariant.
LEMMA ThreadsInductive ==
    ASSUME EngineIInv, NEW i \in Slots, Threads(i)
    PROVE  EngineIInv'
<1> DEFINE r == streams[i]
           PlayerType == {Absent} \union [client : ClientIds, track : Tracks \union {NoTrack}, state : States]
<1>0. player \in PlayerType /\ seek \in BOOLEAN
  BY DEF EngineIInv, EngineTypeOK
<1>b. r.audio = "begin" => r.video = "done"
  BY DEF EngineIInv, VideoAfterBegin
<1>1. CASE StreamBegin(i)
  <2>0. r \in Stream /\ r.audio = "begin"
    BY <1>1, RunningStream DEF StreamBegin
  <2>1. PICK x \in IF r.stop THEN {[r EXCEPT !.audio = "done"]} ELSE Pipelines(r) : OnlyStream(i, x)
    BY <1>1 DEF StreamBegin
  <2>2. x \in Stream /\ x.client = r.client /\ (r.stop => x.stop) /\ x.audio # "begin"
    <3>1. CASE x = [r EXCEPT !.audio = "done"]
      BY <2>0, <3>1 DEF Stream
    <3>2. CASE x = [r EXCEPT !.audio = "done", !.stop = TRUE]
      BY <2>0, <3>2 DEF Stream
    <3>3. CASE \E v \in {"done", "pipe"} : x = [r EXCEPT !.audio = "load", !.video = v]
      BY <2>0, <3>3 DEF Stream
    <3> QED BY <2>1, <3>1, <3>2, <3>3 DEF Pipelines
  <2>3. StreamTo(i, x) /\ UNCHANGED <<player, seek, onair, loopVars>>
    BY <2>1 DEF OnlyStream
  <2> QED
    BY <1>0, <1>b, <2>0, <2>2, <2>3, ThreadKeeps
<1>2. CASE FirstPacket(i)
  <2> DEFINE x == [r EXCEPT !.audio = "play"]
  <2>1. r \in Stream
    BY <1>2, RunningStream DEF FirstPacket
  <2>2. x \in Stream /\ x.client = r.client /\ x.stop = r.stop /\ x.audio = "play" /\ x.video = r.video
    BY <2>1 DEF Stream
  <2>3. StreamTo(i, x) /\ UNCHANGED <<player, seek, onair, loopVars>>
    BY <1>2 DEF FirstPacket, OnlyStream
  <2> HIDE DEF x
  <2> QED
    BY <1>0, <2>2, <2>3, ThreadKeeps
<1>3. CASE StreamCut(i) \/ StreamEof(i) \/ StreamError(i)
  BY <1>3, EndOfLoopInductive DEF StreamCut, StreamEof, StreamError, Outcome
<1>4. CASE StreamAdvance(i)
  <2> DEFINE x == [r EXCEPT !.audio = "done"]
  <2>1. r \in Stream
    BY <1>4, RunningStream DEF StreamAdvance
  <2>2. x \in Stream /\ x.client = r.client /\ x.stop = r.stop /\ x.audio = "done" /\ x.video = r.video
    BY <2>1 DEF Stream
  <2>3. StreamTo(i, x) /\ UNCHANGED <<seek, onair, loopVars>>
    BY <1>4 DEF StreamAdvance
  <2>4. player' \in PlayerType /\ player'.client = player.client
    BY <1>0, <1>4 DEF StreamAdvance, StillCurrent, States
  <2> HIDE DEF x
  <2> QED
    BY <1>0, <2>2, <2>3, <2>4, ThreadKeeps
<1>5. CASE StreamFail(i)
  <2> DEFINE x == [r EXCEPT !.audio = "done"]
  <2>1. r \in Stream
    BY <1>5, RunningStream DEF StreamFail
  <2>2. x \in Stream /\ x.client = r.client /\ x.stop = r.stop /\ x.audio = "done" /\ x.video = r.video
    BY <2>1 DEF Stream
  <2>3. StreamTo(i, x) /\ UNCHANGED <<onair, loopVars>> /\ seek' \in BOOLEAN
        /\ player' \in {player, StopBot(r)}
    BY <1>0, <1>5 DEF StreamFail
  <2>4. player' \in PlayerType /\ player'.client = player.client
    BY <1>0, <2>3, StopBotKeepsClient
  <2> HIDE DEF x
  <2> QED
    BY <2>2, <2>3, <2>4, ThreadKeeps
<1>6. CASE MetadataFail(i)
  <2> DEFINE x == [r EXCEPT !.stop = TRUE]
  <2>1. r \in Stream
    BY <1>6, RunningStream DEF MetadataFail
  <2>2. x \in Stream /\ x.client = r.client /\ x.stop /\ x.audio = r.audio /\ x.video = r.video
    BY <2>1 DEF Stream
  <2>3. StreamTo(i, x) /\ UNCHANGED <<seek, onair, loopVars>> /\ player' = StopBot(r)
    BY <1>6 DEF MetadataFail
  <2>4. player' \in PlayerType /\ player'.client = player.client
    BY <2>3, StopBotKeepsClient
  <2> HIDE DEF x
  <2> QED
    BY <1>0, <1>b, <2>2, <2>3, <2>4, ThreadKeeps
<1>7. CASE VideoRegister(i)
  <2> DEFINE x == [r EXCEPT !.video = "onair"]
  <2>1. r \in Stream
    BY <1>7, RunningStream DEF VideoRegister
  <2>2. x \in Stream /\ x.client = r.client /\ x.stop = r.stop /\ x.audio = r.audio /\ x.video = "onair"
    BY <2>1 DEF Stream
  <2>3. StreamTo(i, x) /\ UNCHANGED <<player, seek, loopVars>> /\ onair' \subseteq onair \union {x.client}
        /\ r.video = "pipe"
    BY <1>7, <2>2 DEF VideoRegister
  <2> HIDE DEF x
  <2> QED
    BY <1>0, <1>b, <2>2, <2>3, ThreadKeeps
<1>8. CASE VideoCut(i) \/ VideoEof(i)
  BY <1>8, VideoEndInductive DEF VideoCut, VideoEof
<1> QED
  BY <1>1, <1>2, <1>3, <1>4, <1>5, <1>6, <1>7, <1>8 DEF Threads

\* What the loop of the engine makes of the streams: the active one is dropped or
\* goes on, and a new one may take a slot without threads.
LEMMA ApplyInductive ==
    ASSUME EngineIInv, EngineApply
    PROVE  EngineIInv'
<1> DEFINE i == CHOOSE x \in Free : \A y \in Free : x <= y
           new == [client |-> desired.client, track |-> desired.track,
                   stop |-> FALSE, audio |-> "begin", video |-> "done"]
<1>1. Starts => i \in Free /\ i \in Slots /\ i # active
  <2>1. Free \subseteq Slots
    BY DEF Free
  <2>2. Starts => i \in Free
    BY <2>1, LowestSlot DEF EngineApply
  <2> QED
    BY <2>1, <2>2 DEF Free
<1>2. /\ streams \in [Slots -> {NoStream} \union Stream] /\ active \in 0..MaxStream
      /\ active # 0 => active \in Slots
  BY EngineBoundsAssumption DEF EngineIInv, EngineTypeOK, Stream, Slots
<1>3. active # 0 => Drop(streams[active]) \in {NoStream} \union Stream
  <2>1. active # 0 /\ ~ Ended(streams[active]) => streams[active] \in Stream
    BY <1>2 DEF Ended, NoStream
  <2>2. active # 0 /\ ~ Ended(streams[active]) => [streams[active] EXCEPT !.stop = TRUE] \in Stream
    BY <2>1 DEF Stream
  <2> QED
    BY <2>2 DEF Drop
<1>4. Retained \in [Slots -> {NoStream} \union Stream]
  BY <1>2, <1>3 DEF Retained
<1>5. Starts => new \in Stream
  BY DEF Starts, EngineIInv, EngineTypeOK, Stream, Nothing
<1>6. /\ NoStream.stop /\ NoStream.client = 0 /\ NoStream.audio = "done"
      /\ clients \in Nat
  BY EngineBoundsAssumption DEF NoStream, EngineIInv, EngineTypeOK
<1>7. active # 0 => LET d == Drop(streams[active])
                    IN  /\ d.stop /\ d.client <= clients
                        /\ d.audio = "begin" => d.video = "done"
                        /\ streams[active].video = "onair" => d.client = streams[active].client /\ d.video = "onair"
  <2>1. CASE active # 0 /\ Ended(streams[active])
    BY <2>1, <1>6 DEF Drop, Ended
  <2>2. CASE active # 0 /\ ~ Ended(streams[active])
    <3>1. streams[active] \in Stream
      BY <1>2, <2>2 DEF Ended, NoStream
    <3> QED
      BY <3>1, <2>2, <1>2 DEF Drop, Stream, EngineIInv, KnownClients, VideoAfterBegin
  <2> QED
    BY <2>1, <2>2
<1>8. /\ \A j \in Slots : ~ Retained[j].stop => j = active /\ Keeps
      /\ \A j \in Slots : Retained[j].client <= clients
      /\ \A j \in Slots : Retained[j].audio = "begin" => Retained[j].video = "done"
      /\ \A j \in Slots : streams[j].video = "onair" =>
             Retained[j].client = streams[j].client /\ Retained[j].video = "onair"
      /\ \A j \in Slots : j # active => Retained[j] = streams[j]
  <2>1. CASE active = 0 \/ Keeps
    <3>1. active = 0 => \A j \in Slots : streams[j].stop
      BY DEF EngineIInv, OnlyActiveLives, Slots
    <3> QED
      BY <2>1, <3>1 DEF Retained, EngineIInv, OnlyActiveLives, KnownClients, VideoAfterBegin
  <2>2. CASE active # 0 /\ ~ Keeps
    <3> DEFINE d == Drop(streams[active])
    <3>1. /\ Retained[active] = d
          /\ \A j \in Slots : j # active => Retained[j] = streams[j]
      BY <2>2, <1>2 DEF Retained
    <3>2. /\ d.stop /\ d.client <= clients
          /\ d.audio = "begin" => d.video = "done"
          /\ streams[active].video = "onair" => d.client = streams[active].client /\ d.video = "onair"
      BY <2>2, <1>7
    <3> HIDE DEF d
    <3> QED
      BY <2>2, <3>1, <3>2 DEF EngineIInv, OnlyActiveLives, KnownClients, VideoAfterBegin
  <2> QED
    BY <2>1, <2>2
<1>9. Starts => /\ streams' = [Retained EXCEPT ![i] = new] /\ active' = i /\ ~ Keeps
                /\ streams[i].video # "onair"
  BY <1>1 DEF EngineApply, Starts, Free, Ended
<1>10. ~ Starts => streams' = Retained /\ active' = IF Keeps THEN active ELSE 0
  BY DEF EngineApply
<1>11. /\ UNCHANGED <<player, clients, onair>> /\ turn' = "read" /\ desired' = Nothing
       /\ seek' \in BOOLEAN
  BY DEF EngineApply, playerVars, EngineIInv, EngineTypeOK
<1> HIDE DEF i
<1>12. Starts => desired.client <= clients
  BY DEF EngineIInv, KnownClients
<1>13. streams' \in [Slots -> {NoStream} \union Stream] /\ active' \in 0..MaxStream
  <2> HIDE DEF new
  <2>1. streams' \in [Slots -> {NoStream} \union Stream]
    BY <1>1, <1>4, <1>5, <1>9, <1>10
  <2>2. active' \in 0..MaxStream
    BY <1>1, <1>2, <1>9, <1>10, EngineBoundsAssumption DEF Slots
  <2> QED
    BY <2>1, <2>2
<1>14. EngineTypeOK'
  BY <1>11, <1>13 DEF EngineIInv, EngineTypeOK, Stream
<1>15. /\ \A j \in Slots : ~ streams'[j].stop => j = active'
       /\ \A j \in Slots : streams'[j].client <= clients
       /\ \A j \in Slots : streams'[j].audio = "begin" => streams'[j].video = "done"
       /\ \A j \in Slots : streams[j].video = "onair" =>
              streams'[j].client = streams[j].client /\ streams'[j].video = "onair"
  <2>1. CASE Starts
    <3>1. streams'[i] = new /\ \A j \in Slots : j # i => streams'[j] = Retained[j]
      BY <2>1, <1>1, <1>4, <1>9
    <3> QED
      BY <2>1, <1>1, <1>8, <1>9, <1>12, <3>1
  <2>2. CASE ~ Starts
    BY <2>2, <1>8, <1>10
  <2> QED
    BY <2>1, <2>2
<1>16. OnlyActiveLives' /\ VideoAfterBegin'
  BY <1>15 DEF OnlyActiveLives, VideoAfterBegin
<1>17. KnownClients'
  BY <1>6, <1>11, <1>15 DEF KnownClients, EngineIInv, Nothing
<1>18. BroadcastBacked'
  BY <1>11, <1>15 DEF BroadcastBacked, EngineIInv
<1> QED
  BY <1>14, <1>16, <1>17, <1>18 DEF EngineIInv

\* Every step keeps the invariant.
LEMMA EngineInductive == EngineIInv /\ [EngineNext]_soundVars => EngineIInv'
<1> SUFFICES ASSUME EngineIInv, [EngineNext]_soundVars PROVE EngineIInv'
  OBVIOUS
<1>0. /\ clients \in Nat /\ MaxClient \in Nat
      /\ player \in {Absent} \union [client : ClientIds, track : Tracks \union {NoTrack}, state : States]
      /\ player = Absent \/ player.client \in ClientIds
      /\ Absent.client = 0
  BY EngineBoundsAssumption DEF EngineIInv, EngineTypeOK, Absent
<1>1. CASE BotAppears
  <2>1. /\ player'.client = clients + 1 /\ clients' = clients + 1 /\ clients + 1 \in ClientIds
        /\ player' \in [client : ClientIds, track : Tracks \union {NoTrack}, state : States]
        /\ UNCHANGED engineVars
    BY <1>0, <1>1 DEF BotAppears, Appear, BecomesBot, ClientIds
  <2>2. EngineTypeOK'
    BY <1>0, <2>1 DEF EngineIInv, EngineTypeOK, engineVars, ClientIds
  <2>3. OnlyActiveLives' /\ VideoAfterBegin'
    BY <2>1 DEF EngineIInv, OnlyActiveLives, VideoAfterBegin, engineVars
  <2>4. KnownClients'
    <3>1. /\ \A k \in onair : k \in Nat /\ k <= clients
          /\ desired.client \in Nat /\ desired.client <= clients
          /\ \A j \in Slots : streams[j].client \in Nat /\ streams[j].client <= clients
      BY DEF EngineIInv, EngineTypeOK, KnownClients, ClientIds, Nothing, NoStream
    <3> QED
      BY <1>0, <2>1, <3>1 DEF KnownClients, engineVars
  <2>5. BroadcastBacked'
    BY <1>0, <2>1 DEF EngineIInv, KnownClients, BroadcastBacked, engineVars
  <2> QED
    BY <2>2, <2>3, <2>4, <2>5 DEF EngineIInv
<1>2. CASE OtherBotAppears
  <2>1. clients' = clients + 1 /\ clients' <= MaxClient /\ UNCHANGED <<player, engineVars>>
    BY <1>0, <1>2 DEF OtherBotAppears, OtherClient
  <2>2. EngineTypeOK'
    <3>1. player.client \in Nat /\ player.client <= clients
      BY <1>0 DEF EngineIInv, EngineTypeOK, ClientIds
    <3> QED
      BY <1>0, <2>1, <3>1 DEF EngineIInv, EngineTypeOK, engineVars
  <2>3. OnlyActiveLives' /\ VideoAfterBegin' /\ BroadcastBacked'
    BY <2>1 DEF EngineIInv, OnlyActiveLives, VideoAfterBegin, BroadcastBacked, engineVars
  <2>4. KnownClients'
    <3>1. /\ \A k \in onair : k \in Nat /\ k <= clients
          /\ desired.client \in Nat /\ desired.client <= clients
          /\ \A j \in Slots : streams[j].client \in Nat /\ streams[j].client <= clients
      BY DEF EngineIInv, EngineTypeOK, KnownClients, ClientIds, Nothing, NoStream
    <3> QED
      BY <1>0, <2>1, <3>1 DEF KnownClients, engineVars
  <2> QED
    BY <2>2, <2>3, <2>4 DEF EngineIInv
<1>3. CASE BotDeleted \/ BotRemoved
  <2>1. player' = Absent /\ onair' \subseteq onair /\ UNCHANGED <<clients, seek, turn, desired, active, streams>>
    BY <1>3 DEF BotDeleted, BotRemoved, Vanish, engineVars
  <2>2. EngineTypeOK'
    BY <1>0, <2>1 DEF EngineIInv, EngineTypeOK
  <2>3. OnlyActiveLives' /\ VideoAfterBegin' /\ KnownClients'
    BY <2>1 DEF EngineIInv, OnlyActiveLives, VideoAfterBegin, KnownClients
  <2>4. BroadcastBacked'
    BY <1>0, <2>1 DEF EngineIInv, EngineTypeOK, BroadcastBacked, ClientIds
  <2> QED
    BY <2>2, <2>3, <2>4 DEF EngineIInv
<1>4. CASE BotChanges \/ BotSeeks
  <2>1. /\ player'.client = player.client
        /\ player' \in {Absent} \union [client : ClientIds, track : Tracks \union {NoTrack}, state : States]
    BY <1>0, <1>4 DEF BotChanges, BotSeeks, Change, BecomesBot, playerVars
  <2>2. UNCHANGED <<clients, turn, desired, active, streams, onair>> /\ seek' \in BOOLEAN
    BY <1>4 DEF BotChanges, BotSeeks, Change, playerVars, engineVars, EngineIInv, EngineTypeOK
  <2>3. EngineTypeOK'
    BY <2>1, <2>2 DEF EngineIInv, EngineTypeOK
  <2> QED
    BY <2>1, <2>2, <2>3 DEF EngineIInv, OnlyActiveLives, VideoAfterBegin, KnownClients, BroadcastBacked
<1>5. CASE EngineScan
  <2>1. /\ turn' = "act" /\ UNCHANGED <<player, clients, seek, active, streams, onair>>
        /\ desired' = IF Wants THEN [client |-> player.client, track |-> player.track] ELSE Nothing
    BY <1>5 DEF EngineScan, playerVars
  <2>2. desired' \in {Nothing} \union [client : ClientIds, track : Tracks] /\ desired'.client <= clients
    BY <1>0, <2>1 DEF Wants, EngineIInv, EngineTypeOK, Nothing
  <2>3. EngineTypeOK'
    BY <2>1, <2>2 DEF EngineIInv, EngineTypeOK
  <2> QED
    BY <2>1, <2>2, <2>3 DEF EngineIInv, OnlyActiveLives, VideoAfterBegin, KnownClients, BroadcastBacked
<1>6. CASE EngineApply
  BY <1>6, ApplyInductive
<1>7. ASSUME NEW i \in Slots, Threads(i) PROVE EngineIInv'
  BY <1>7, ThreadsInductive
<1>8. CASE UNCHANGED soundVars
  BY <1>8 DEF soundVars, playerVars, engineVars, EngineIInv, EngineTypeOK, OnlyActiveLives, VideoAfterBegin, KnownClients, BroadcastBacked
<1> QED
  BY <1>1, <1>2, <1>3, <1>4, <1>5, <1>6, <1>7, <1>8 DEF EngineNext

\* The engine starts with nothing to play.
LEMMA EngineInitSound == EngineInit => EngineIInv
<1> SUFFICES ASSUME EngineInit PROVE EngineIInv
  OBVIOUS
<1>1. /\ player = Absent /\ Absent.client = 0 /\ clients = 0 /\ desired = Nothing /\ Nothing.client = 0
      /\ seek = FALSE /\ turn = "read" /\ active = 0 /\ onair = {}
      /\ \A i \in Slots : streams[i] = NoStream
      /\ streams = [i \in Slots |-> NoStream]
  BY DEF EngineInit, PlayerInit, Absent, Nothing
<1>2. NoStream.stop /\ NoStream.client = 0 /\ NoStream.audio = "done"
  BY DEF NoStream
<1>3. EngineTypeOK
  <2>1. streams \in [Slots -> {NoStream} \union Stream]
    BY <1>1
  <2>2. active \in 0..MaxStream /\ clients \in 0..MaxClient /\ player.client <= clients
    BY <1>1, EngineBoundsAssumption
  <2> QED
    BY <1>1, <2>1, <2>2 DEF EngineTypeOK, Stream
<1> QED
  BY <1>1, <1>2, <1>3 DEF EngineIInv, OnlyActiveLives, KnownClients, VideoAfterBegin, BroadcastBacked

\* The player, the streams and the broadcasts keep their types.
THEOREM EngineTypeCorrect == EngineSpec => []EngineTypeOK
<1>1. EngineIInv => EngineTypeOK
  BY DEF EngineIInv
<1> QED
  BY <1>1, EngineInitSound, EngineInductive, PTL DEF EngineSpec

\* However the commands for a bot, the scans of the loop and the threads of old
\* streams interleave, at most one stream of a bot id has not been told to stop.
THEOREM OneStreamLives == EngineSpec => []OneLiveStream
<1>1. EngineIInv => OneLiveStream
  BY DEF EngineIInv, OnlyActiveLives, OneLiveStream
<1> QED
  BY <1>1, EngineInitSound, EngineInductive, PTL DEF EngineSpec

\* A video broadcast of a client that is there always has the video thread of a
\* stream of this very client behind it, which takes it back when it ends.
THEOREM BroadcastsAreBacked == EngineSpec => []BroadcastBacked
<1>1. EngineIInv => BroadcastBacked
  BY DEF EngineIInv
<1> QED
  BY <1>1, EngineInitSound, EngineInductive, PTL DEF EngineSpec
=============================================================================
