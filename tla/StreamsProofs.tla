--------------------------- MODULE StreamsProofs ----------------------------
(***************************************************************************)
(* Proofs about the input of stream operations.                            *)
(*                                                                         *)
(* The queue (SeqQueueSpec), for any set of sequence numbers: chunks come  *)
(* out in order whatever the calls, and a queue whose end is announced in  *)
(* time implements an ordered stream.                                      *)
(*                                                                         *)
(* The streams (Streams), for any number of operations, of input commands  *)
(* and any size of the pipes: chunks reach a process in order, none is     *)
(* lost while it runs, and Del never closes an input that is being written *)
(* to.                                                                     *)
(***************************************************************************)
EXTENDS Streams, SeqQueueSpec, SequenceTheorems, WellFoundedInduction, TLAPS

Queue == [next : Nat, max : Nat, data : Seq(SeqNo)]

-----------------------------------------------------------------------------
(***************************************************************************)
(* The loops of Offer.                                                     *)
(***************************************************************************)
\* The first index a loop over the buffer stops at: the minimum exists.
LEMMA MinOfNaturals ==
    ASSUME NEW T, T \subseteq Nat, T # {}
    PROVE  Min(T) \in T /\ \A y \in T : Min(T) <= y
<1> DEFINE less == OpToRel(<, Nat)
<1>1. IsWellFoundedOn(less, Nat)
  BY NatLessThanWellFounded, Zenon
<1>2. PICK x \in T : \A y \in T : ~ (<<y, x>> \in less)
  <2> HIDE DEF less
  <2> QED BY <1>1, WFMin, Zenon
<1>3. ASSUME NEW y \in T PROVE x <= y
  <2>1. x \in Nat /\ y \in Nat /\ <<y, x>> \in Nat \X Nat
    OBVIOUS
  <2>2. <<y, x>> \in less <=> <<y, x>>[1] < <<y, x>>[2]
    BY <2>1 DEF OpToRel
  <2> HIDE DEF less
  <2> QED BY <1>2, <2>1, <2>2
<1> QED
  BY <1>3, Zenon DEF Min

\* Buffered chunks are sequence numbers, so they are natural numbers.
LEMMA BufferTypes ==
    ASSUME NEW q \in Queue
    PROVE  /\ Len(q.data) \in Nat
           /\ \A i \in 1 .. Len(q.data) : q.data[i] \in SeqNo /\ q.data[i] \in Nat
<1>1. q.data \in Seq(SeqNo)
  BY DEF Queue
<1>2. \A i \in 1 .. Len(q.data) : q.data[i] \in SeqNo
  BY <1>1, ElementOfSeq
<1>3. SeqNo \subseteq Nat
  BY SeqQueueAssumption
<1> QED BY <1>1, <1>2, <1>3, LenProperties, Zenon

\* The pop loop takes a run of consecutive chunks up to the end, and stops
\* where the run does.
LEMMA FollowingFacts ==
    ASSUME NEW q \in Queue, NEW n \in Nat
    PROVE  /\ Following(q, n) \in 0 .. Len(q.data)
           /\ \A i \in 1 .. Following(q, n) :
                 q.data[i] = n + i - 1 /\ q.data[i] <= q.max
           /\ Following(q, n) < Len(q.data) =>
                 \/ q.data[Following(q, n) + 1] # n + Following(q, n)
                 \/ q.data[Following(q, n) + 1] > q.max
<1> DEFINE stop(i) == i < Len(q.data) =>
                          q.data[i + 1] # n + i \/ q.data[i + 1] > q.max
           stops == {i \in 0 .. Len(q.data) : stop(i)}
<1>1. Following(q, n) = Min(stops)
  BY DEF Following
<1>2. Len(q.data) \in stops /\ stops \subseteq Nat
  BY BufferTypes
<1>3. Min(stops) \in stops /\ \A y \in stops : Min(stops) <= y
  <2> HIDE DEF stops
  <2> QED BY <1>2, MinOfNaturals, Zenon
<1>4. ASSUME NEW i \in 1 .. Min(stops)
      PROVE  q.data[i] = n + i - 1 /\ q.data[i] <= q.max
  <2> DEFINE m == Min(stops)
  <2>0. m \in 0 .. Len(q.data) /\ i \in 1 .. m /\ \A y \in stops : m <= y
    BY <1>3
  <2>1. i - 1 \in 0 .. Len(q.data) /\ i - 1 \notin stops
    <3> HIDE DEF m, stops
    <3> QED BY <2>0, BufferTypes
  <2>2. ~ stop(i - 1)
    BY <2>1, SMTT(60)
  <2> QED BY <2>2, <2>1, BufferTypes DEF Queue
<1> QED
  BY <1>1, <1>3, <1>4, Zenon

\* The search loop finds the first chunk with a larger number.
LEMMA InsertPlaceFacts ==
    ASSUME NEW q \in Queue, NEW seq \in Nat
    PROVE  /\ InsertPlace(q, seq) \in 1 .. Len(q.data) + 1
           /\ \A i \in 1 .. InsertPlace(q, seq) - 1 : q.data[i] <= seq
           /\ InsertPlace(q, seq) <= Len(q.data) =>
                 q.data[InsertPlace(q, seq)] > seq
<1> DEFINE places == {i \in 1 .. Len(q.data) : q.data[i] > seq} \cup {Len(q.data) + 1}
<1>1. InsertPlace(q, seq) = Min(places)
  BY DEF InsertPlace
<1>2. places # {} /\ places \subseteq 1 .. Len(q.data) + 1 /\ places \subseteq Nat
  BY BufferTypes
<1>3. Min(places) \in places /\ \A y \in places : Min(places) <= y
  <2> HIDE DEF places
  <2> QED BY <1>2, MinOfNaturals, ZenonT(60)
<1>4. ASSUME NEW i \in 1 .. Min(places) - 1
      PROVE  q.data[i] <= seq
  <2>1. i \in 1 .. Len(q.data) /\ i \notin places
    BY <1>2, <1>3, BufferTypes, SMTT(60)
  <2> QED BY <2>1, BufferTypes
<1> QED
  BY <1>1, <1>2, <1>3, <1>4, BufferTypes, SMTT(60)
-----------------------------------------------------------------------------
(***************************************************************************)
(* What a call does to a queue.                                            *)
(***************************************************************************)
\* A call of Offer hands out the chunks from the next one expected to the one
\* before the next one expected afterwards, in this order.
LEMMA OfferHandsOut ==
    ASSUME NEW q \in Queue, NEW seq \in SeqNo
    PROVE  /\ Offer(q, seq).q \in Queue
           /\ Offer(q, seq).completed \in BOOLEAN
           /\ Offer(q, seq).out \in Seq(SeqNo)
           /\ Len(Offer(q, seq).out) = Offer(q, seq).q.next - q.next
           /\ \A i \in 1 .. Len(Offer(q, seq).out) :
                 Offer(q, seq).out[i] = q.next + i - 1
<1> DEFINE r == Offer(q, seq)
<1>0. seq \in Nat /\ q.next \in Nat /\ q.max \in Nat /\ q.data \in Seq(SeqNo)
  BY SeqQueueAssumption DEF Queue
<1>1. CASE q.next > q.max \/ seq > q.max \/ seq < q.next
  <2>1. r.q = q /\ r.out = << >> /\ r.completed \in BOOLEAN
    BY <1>1, Zenon DEF Offer
  <2> QED BY <2>1, <1>0, SMTT(60)
<1>2. CASE ~ (q.next > q.max \/ seq > q.max \/ seq < q.next) /\ seq = q.next
  <2> DEFINE k == Following(q, seq + 1)
             rest == SubSeq(q.data, k + 1, Len(q.data))
             run == SubSeq(q.data, 1, k)
  <2>1. /\ r.q = [q EXCEPT !.next = seq + 1 + k, !.data = rest]
        /\ r.out = <<seq>> \o run
        /\ r.completed = (seq + 1 + k > q.max)
    BY <1>2, Zenon DEF Offer
  <2>2. /\ k \in 0 .. Len(q.data) /\ k \in Nat
        /\ \A i \in 1 .. k : q.data[i] = seq + i
    <3>1. seq + 1 \in Nat /\ Len(q.data) \in Nat
      BY <1>0, BufferTypes
    <3>2. k \in 0 .. Len(q.data) /\ \A i \in 1 .. k : q.data[i] = seq + 1 + i - 1
      BY <3>1, FollowingFacts, SMTT(60)
    <3> HIDE DEF k
    <3> QED BY <3>1, <3>2, <1>0
  <2>3. rest \in Seq(SeqNo)
    <3> HIDE DEF k
    <3> QED BY <2>2, <1>0, BufferTypes, SubSeqProperties
  <2>4. /\ run \in Seq(SeqNo)
        /\ Len(run) = k
        /\ \A i \in 1 .. k : run[i] = seq + i
    <3> HIDE DEF k
    <3> QED BY <2>2, <1>0, BufferTypes, SubSeqProperties, SMTT(60)
  <2>5. r.q \in Queue /\ r.q.next = seq + 1 + k
    <3> HIDE DEF k, rest, r
    <3>1. seq + 1 + k \in Nat
      BY <2>2, <1>0, SMTT(60)
    <3> DEFINE n == seq + 1 + k
    <3>2. n \in Nat /\ r.q = [q EXCEPT !.next = n, !.data = rest]
      BY <2>1, <3>1, SMTT(60)
    <3> HIDE DEF n
    <3>3. r.q \in Queue /\ r.q.next = n
      BY <3>2, <2>3, Zenon DEF Queue
    <3> QED BY <3>3 DEF n
  <2>6. /\ r.out \in Seq(SeqNo)
        /\ Len(r.out) = k + 1
        /\ \A i \in 1 .. k + 1 : r.out[i] = IF i <= 1 THEN seq ELSE run[i - 1]
    <3> HIDE DEF k, run, r
    <3>1. <<seq>> \in Seq(SeqNo) /\ Len(<<seq>>) = 1 /\ <<seq>>[1] = seq
      OBVIOUS
    <3> QED BY <2>1, <2>2, <2>4, <3>1, ConcatProperties
  <2>7. \A i \in 1 .. k + 1 : r.out[i] = seq + i - 1
    <3> HIDE DEF k, run, r
    <3>0. k \in Nat /\ seq \in Nat
      BY <2>2, <1>0, SMTT(60)
    <3> SUFFICES ASSUME NEW i \in 1 .. k + 1 PROVE r.out[i] = seq + i - 1
      OBVIOUS
    <3>1. CASE i = 1
      BY <2>6, <3>0, <3>1, SMTT(60)
    <3>2. CASE i # 1
      <4> DEFINE j == i - 1
      <4>1. j \in 1 .. k /\ i = j + 1 /\ ~ (i <= 1) /\ j \in Nat
        BY <3>0, <3>2, SMTT(60)
      <4>2. r.out[i] = run[j]
        BY <2>6, <4>1, SMTT(60)
      <4>3. run[j] = seq + j
        BY <2>4, <4>1, SMTT(60)
      <4> HIDE DEF j
      <4> QED BY <3>0, <4>1, <4>2, <4>3, SMTT(60)
    <3> QED BY <3>1, <3>2
  <2>8. r.completed \in BOOLEAN
    BY <2>1
  <2> HIDE DEF k, run, rest, r
  <2>9. Len(r.out) = r.q.next - q.next
    BY <2>2, <2>5, <2>6, <1>0, <1>2, SMTT(60)
  <2> QED BY <2>1, <2>5, <2>6, <2>7, <2>8, <2>9, <1>2 DEF r
<1>3. CASE ~ (q.next > q.max \/ seq > q.max \/ seq < q.next \/ seq = q.next)
  <2> DEFINE p == InsertPlace(q, seq)
  <2>1. r.out = << >> /\ r.completed = FALSE
        /\ (r.q = q \/ r.q = [q EXCEPT !.data = InsertAt(q.data, p, seq)])
    BY <1>3 DEF Offer
  <2>2. InsertAt(q.data, p, seq) \in Seq(SeqNo)
    <3>1. p \in 1 .. Len(q.data) + 1
      BY <1>0, InsertPlaceFacts
    <3> HIDE DEF p
    <3>2. SubSeq(q.data, 1, p - 1) \in Seq(SeqNo)
      BY <3>1, BufferTypes, SubSeqProperties
    <3>3. SubSeq(q.data, p, Len(q.data)) \in Seq(SeqNo)
      BY <3>1, BufferTypes, SubSeqProperties, SMTT(60)
    <3> QED BY <3>2, <3>3, ConcatProperties DEF InsertAt
  <2>3. r.q \in Queue /\ r.q.next = q.next
    <3> HIDE DEF r, p
    <3> DEFINE d == InsertAt(q.data, p, seq)
    <3>1. d \in Seq(SeqNo) /\ (r.q = q \/ r.q = [q EXCEPT !.data = d])
      BY <2>1, <2>2
    <3> HIDE DEF d
    <3> QED BY <3>1, <1>0 DEF Queue
  <2>4. /\ Len(r.out) = r.q.next - q.next
        /\ r.out \in Seq(SeqNo)
        /\ 1 .. Len(r.out) = {}
    <3> HIDE DEF r
    <3> QED BY <2>1, <2>3, <1>0, SMTT(60)
  <2> HIDE DEF r
  <2> QED BY <2>1, <2>3, <2>4, Zenon DEF r
<1> QED
  BY <1>1, <1>2, <1>3, <1>0

-----------------------------------------------------------------------------
(***************************************************************************)
(* Chunks come out in order.                                               *)
(***************************************************************************)
\* What every call keeps: the queue is well typed and has handed out exactly
\* the chunks before the next one it expects.
InOrderInv == SQTypeOK /\ InOrder

LEMMA InOrderInit == SQInit => InOrderInv
<1> SUFFICES ASSUME SQInit PROVE InOrderInv
  OBVIOUS
<1>1. << >> \in Seq(SeqNo) /\ Len(<< >>) = 0
  OBVIOUS
<1>2. /\ queue \in Queue /\ queue.next = 0
      /\ got \in Seq(SeqNo) /\ Len(got) = 0
      /\ completed \in BOOLEAN
  BY <1>1, SeqQueueAssumption, ZenonT(60) DEF SQInit, NewSeqQueue, Queue
<1> QED
  BY <1>2 DEF InOrderInv, SQTypeOK, InOrder, Queue

LEMMA InOrderOffer ==
    ASSUME InOrderInv, NEW n \in SeqNo, OfferChunk(n)
    PROVE  InOrderInv'
<1> DEFINE r == Offer(queue, n)
<1>1. queue \in Queue /\ got \in Seq(SeqNo) /\ Len(got) \in Nat
  BY LenProperties DEF InOrderInv, SQTypeOK, Queue
<1>2. /\ r.q \in Queue
      /\ r.completed \in BOOLEAN
      /\ r.out \in Seq(SeqNo)
      /\ Len(r.out) = r.q.next - queue.next
      /\ \A i \in 1 .. Len(r.out) : r.out[i] = queue.next + i - 1
  BY <1>1, OfferHandsOut, SMTT(60)
<1>3. queue' = r.q /\ got' = got \o r.out /\ completed' = r.completed
  BY DEF OfferChunk
<1> HIDE DEF r
<1>4. Len(r.out) \in Nat
  BY <1>2, LenProperties
<1>5. /\ got' \in Seq(SeqNo)
      /\ Len(got') = Len(got) + Len(r.out)
      /\ \A i \in 1 .. Len(got) + Len(r.out) :
            got'[i] = IF i <= Len(got) THEN got[i] ELSE r.out[i - Len(got)]
  BY <1>1, <1>2, <1>3, ConcatProperties, SMTT(60)
<1>6. queue.next \in Nat /\ r.q.next \in Nat
  BY <1>1, <1>2, SMTT(60) DEF Queue
<1>7. Len(got') = queue'.next
  BY <1>1, <1>2, <1>3, <1>4, <1>5, <1>6, SMTT(60) DEF InOrderInv, InOrder
<1>8. ASSUME NEW i \in 1 .. Len(got') PROVE got'[i] = i - 1
  <2>1. CASE i <= Len(got)
    BY <2>1, <1>1, <1>4, <1>5, SMTT(60) DEF InOrderInv, InOrder
  <2>2. CASE i > Len(got)
    <3>1. i - Len(got) \in 1 .. Len(r.out)
      BY <2>2, <1>1, <1>4, <1>5, SMTT(60)
    <3>2. got'[i] = queue.next + (i - Len(got)) - 1
      <4> DEFINE j == i - Len(got)
      <4>1. j \in 1 .. Len(r.out) /\ got'[i] = r.out[j]
        BY <2>2, <3>1, <1>1, <1>4, <1>5, SMTT(60)
      <4> HIDE DEF j
      <4>2. got'[i] = queue.next + j - 1
        BY <4>1, <1>2, SMTT(60)
      <4> QED BY <4>2 DEF j
    <3> QED BY <3>2, <1>1, <1>6, SMTT(60) DEF InOrderInv, InOrder
  <2> QED BY <2>1, <2>2, <1>1, <1>4, <1>5, SMTT(60)
<1> QED
  BY <1>2, <1>3, <1>5, <1>7, <1>8, SMTT(60) DEF InOrderInv, InOrder, SQTypeOK, Queue

LEMMA InOrderEnd ==
    ASSUME InOrderInv, NEW n \in SeqNo, EndAt(n)
    PROVE  InOrderInv'
<1>1. queue \in Queue /\ n \in Nat
  BY SeqQueueAssumption DEF InOrderInv, SQTypeOK, Queue
<1>2. PICK m \in Nat : queue' = [queue EXCEPT !.max = m]
  BY <1>1 DEF EndAt, SetMaxSeq, Queue
<1>3. completed' \in BOOLEAN /\ got' = got
  BY DEF EndAt, SetMaxSeq
<1>4. queue' \in Queue /\ queue'.next = queue.next
  BY <1>1, <1>2 DEF Queue
<1> QED BY <1>3, <1>4 DEF InOrderInv, InOrder, SQTypeOK, Queue

LEMMA InOrderStep == InOrderInv /\ [SQNext]_sqVars => InOrderInv'
<1> SUFFICES ASSUME InOrderInv, [SQNext]_sqVars PROVE InOrderInv'
  OBVIOUS
<1>1. CASE SQNext
  BY <1>1, InOrderOffer, InOrderEnd, SMTT(60) DEF SQNext
<1>2. CASE UNCHANGED sqVars
  BY <1>2 DEF sqVars, InOrderInv, InOrder, SQTypeOK
<1> QED BY <1>1, <1>2, SMTT(60)

\* Offer hands out 0, 1, 2, ... without a gap or a repetition, for any chunks in
\* any order, sent any number of times, and wherever ends are announced.
THEOREM ChunksInOrder == SQSpec => []InOrder
<1>1. InOrderInv => InOrder
  BY DEF InOrderInv
<1> QED
  BY <1>1, InOrderInit, InOrderStep, PTL DEF SQSpec

-----------------------------------------------------------------------------
(***************************************************************************)
(* A queue whose end is announced in time is an ordered stream.            *)
(***************************************************************************)
Held(q) == (0 .. q.next - 1) \cup ToSet(q.data)

\* The buffer is sorted, holds nothing that could have been handed out, and
\* nothing was handed out past the end.
Buffered(q) ==
    /\ q.next <= q.max + 1
    /\ q.next <= MaxUint64
    /\ q.max <= MaxUint64
    /\ \A i \in 1 .. Len(q.data) : q.data[i] > q.next \/ q.next > q.max
    /\ \A i, j \in 1 .. Len(q.data) : i < j => q.data[i] < q.data[j]

\* What popping the first k chunks leaves in the buffer.
LEMMA PopFacts ==
    ASSUME NEW q \in Queue, NEW k \in 0 .. Len(q.data)
    PROVE  LET rest == SubSeq(q.data, k + 1, Len(q.data))
           IN  /\ rest \in Seq(SeqNo)
               /\ Len(rest) = Len(q.data) - k
               /\ \A i \in 1 .. Len(q.data) - k : rest[i] = q.data[k + i]
               /\ ToSet(q.data) = {q.data[i] : i \in 1 .. k} \cup ToSet(rest)
<1> DEFINE n == Len(q.data)
           rest == SubSeq(q.data, k + 1, n)
<1>1. n \in Nat /\ k \in 0 .. n /\ \A i \in 1 .. n : q.data[i] \in SeqNo
  BY BufferTypes
<1>2. q.data \in Seq(SeqNo) /\ DOMAIN q.data = 1 .. n
  BY LenProperties DEF Queue
<1> HIDE DEF n
<1>3. /\ rest \in Seq(SeqNo)
      /\ Len(rest) = n - k
      /\ \A i \in 1 .. n - k : rest[i] = q.data[k + i]
  <2>1. /\ rest \in Seq(SeqNo)
        /\ Len(rest) = IF k + 1 <= n THEN n - (k + 1) + 1 ELSE 0
        /\ \A i \in 1 .. n - (k + 1) + 1 : rest[i] = q.data[k + 1 + i - 1]
    BY <1>1, SubSeqProperties, SMTT(60)
  <2> HIDE DEF rest
  <2>2. Len(rest) = n - k /\ n - (k + 1) + 1 = n - k /\ k \in Nat
    BY <2>1, <1>1, SMTT(60)
  <2>3. ASSUME NEW i \in 1 .. n - k PROVE rest[i] = q.data[k + i]
    <3>1. i \in 1 .. n - (k + 1) + 1 /\ k + 1 + i - 1 = k + i
      BY <2>2, <1>1, SMTT(60)
    <3> QED BY <2>1, <3>1
  <2> QED BY <2>1, <2>2, <2>3
<1>4. DOMAIN rest = 1 .. n - k
  BY <1>3, LenProperties, SMTT(60)
<1> HIDE DEF rest
<1>5. ToSet(q.data) = {q.data[i] : i \in 1 .. k} \cup ToSet(rest)
  <2>1. ASSUME NEW i \in 1 .. n, i \notin 1 .. k PROVE q.data[i] \in ToSet(rest)
    <3>1. i - k \in 1 .. n - k /\ k + (i - k) = i
      BY <2>1, <1>1
    <3> QED BY <3>1, <1>3, <1>4, Zenon DEF ToSet
  <2>2. ASSUME NEW i \in 1 .. n - k PROVE rest[i] \in ToSet(q.data)
    <3>1. k + i \in 1 .. n
      BY <1>1
    <3> QED BY <3>1, <1>2, <1>3 DEF ToSet
  <2>3. \A i \in 1 .. k : i \in 1 .. n
    BY <1>1
  <2> QED BY <2>1, <2>2, <2>3, <1>2, <1>4, SMTT(60) DEF ToSet
<1> QED
  BY <1>3, <1>5, SMTT(60) DEF n, rest

\* What inserting a chunk leaves in the buffer.
LEMMA InsertFacts ==
    ASSUME NEW q \in Queue, NEW p \in 1 .. Len(q.data) + 1, NEW e \in SeqNo
    PROVE  LET t == InsertAt(q.data, p, e)
           IN  /\ t \in Seq(SeqNo)
               /\ Len(t) = Len(q.data) + 1
               /\ \A i \in 1 .. Len(q.data) + 1 :
                     t[i] = IF i < p THEN q.data[i]
                            ELSE IF i = p THEN e ELSE q.data[i - 1]
               /\ ToSet(t) = ToSet(q.data) \cup {e}
<1> DEFINE n == Len(q.data)
           a == SubSeq(q.data, 1, p - 1)
           b == SubSeq(q.data, p, n)
           t == InsertAt(q.data, p, e)
<1>1. n \in Nat /\ p \in 1 .. n + 1 /\ \A i \in 1 .. n : q.data[i] \in SeqNo
  BY BufferTypes
<1>2. q.data \in Seq(SeqNo) /\ DOMAIN q.data = 1 .. n
  BY LenProperties, SMTT(60) DEF Queue
<1> HIDE DEF n
<1>3. a \in Seq(SeqNo) /\ Len(a) = p - 1 /\ \A i \in 1 .. p - 1 : a[i] = q.data[i]
  BY <1>1, SubSeqProperties, SMTT(60)
<1>4. b \in Seq(SeqNo) /\ Len(b) = n - p + 1 /\ \A i \in 1 .. n - p + 1 : b[i] = q.data[p + i - 1]
  BY <1>1, SubSeqProperties, SMTT(60)
<1>5. t = (a \o <<e>>) \o b
  BY DEF InsertAt, n
<1> HIDE DEF a, b, t
<1>6. /\ a \o <<e>> \in Seq(SeqNo)
      /\ Len(a \o <<e>>) = p
      /\ \A i \in 1 .. p : (a \o <<e>>)[i] = IF i < p THEN q.data[i] ELSE e
  BY <1>1, <1>3, ConcatProperties, SMTT(60)
<1>7. /\ t \in Seq(SeqNo)
      /\ Len(t) = n + 1
      /\ \A i \in 1 .. n + 1 :
            t[i] = IF i <= p THEN (a \o <<e>>)[i] ELSE b[i - p]
  <2> DEFINE c == a \o <<e>>
  <2>1. c \in Seq(SeqNo) /\ Len(c) = p
    BY <1>6
  <2> HIDE DEF c
  <2>2. /\ c \o b \in Seq(SeqNo)
        /\ Len(c \o b) = p + (n - p + 1)
        /\ \A i \in 1 .. p + (n - p + 1) : (c \o b)[i] = IF i <= p THEN c[i] ELSE b[i - p]
    <3> DEFINE m == n - p + 1
    <3>1. b \in Seq(SeqNo) /\ Len(b) = m
      BY <1>4
    <3> HIDE DEF m
    <3>2. /\ c \o b \in Seq(SeqNo)
          /\ Len(c \o b) = Len(c) + Len(b)
          /\ \A i \in 1 .. Len(c) + Len(b) :
                (c \o b)[i] = IF i <= Len(c) THEN c[i] ELSE b[i - Len(c)]
      BY <3>1, <2>1, ConcatProperties, ZenonT(60)
    <3> QED BY <3>1, <3>2, <2>1 DEF m
  <2>3. p + (n - p + 1) = n + 1
    BY <1>1
  <2> QED BY <1>5, <2>2, <2>3, Zenon DEF c
<1>8. ASSUME NEW i \in 1 .. n + 1
      PROVE  t[i] = IF i < p THEN q.data[i] ELSE IF i = p THEN e ELSE q.data[i - 1]
  <2>1. CASE i <= p
    <3> DEFINE c == a \o <<e>>
    <3>1. \A j \in 1 .. n + 1 : t[j] = IF j <= p THEN c[j] ELSE b[j - p]
      BY <1>7, Zenon
    <3>2. \A j \in 1 .. p : c[j] = IF j < p THEN q.data[j] ELSE e
      BY <1>6
    <3> HIDE DEF c
    <3>3. i \in 1 .. p /\ t[i] = c[i]
      BY <2>1, <3>1, <1>1
    <3> QED BY <2>1, <3>2, <3>3, <1>1
  <2>2. CASE i > p
    <3>1. i - p \in 1 .. n - p + 1 /\ p + (i - p) - 1 = i - 1
      BY <2>2, <1>1, SMTT(60)
    <3>2. t[i] = b[i - p]
      BY <2>2, <1>1, <1>7, SMTT(60)
    <3>3. b[i - p] = q.data[p + (i - p) - 1]
      BY <3>1, <1>4, SMTT(60)
    <3> QED BY <2>2, <3>1, <3>2, <3>3, <1>1
  <2> QED BY <2>1, <2>2, <1>1
<1>9. ToSet(t) = ToSet(q.data) \cup {e}
  <2>1. DOMAIN t = 1 .. n + 1
    BY <1>7, LenProperties, SMTT(60)
  <2>2. ASSUME NEW i \in 1 .. n PROVE q.data[i] \in ToSet(t)
    <3>1. CASE i < p
      BY <3>1, <2>1, <1>1, <1>8, SMTT(60) DEF ToSet
    <3>2. CASE i >= p
      <4>1. i + 1 \in 1 .. n + 1 /\ t[i + 1] = q.data[i + 1 - 1] /\ i + 1 - 1 = i
        BY <3>2, <1>1, <1>8, SMTT(60)
      <4> QED BY <4>1, <2>1, SMTT(60) DEF ToSet
    <3> QED BY <3>1, <3>2, <1>1, SMTT(60)
  <2>3. e \in ToSet(t)
    BY <2>1, <1>1, <1>8, SMTT(60) DEF ToSet
  <2>4. ASSUME NEW i \in 1 .. n + 1 PROVE t[i] \in ToSet(q.data) \cup {e}
    <3>1. i < p => i \in 1 .. n
      BY <1>1
    <3>2. i > p => i - 1 \in 1 .. n
      BY <1>1
    <3>3. \A j \in 1 .. n : q.data[j] \in ToSet(q.data)
      BY <1>2 DEF ToSet
    <3>4. CASE i < p
      BY <3>1, <3>3, <3>4, <1>8, SMTT(60)
    <3>5. CASE i = p
      BY <3>5, <1>1, <1>8, SMTT(60)
    <3>6. CASE i > p
      <4>1. t[i] = q.data[i - 1]
        BY <3>6, <1>1, <1>8, SMTT(60)
      <4> QED BY <4>1, <3>2, <3>3, <3>6, SMTT(60)
    <3> QED BY <3>4, <3>5, <3>6, <1>1, SMTT(60)
  <2> QED BY <2>1, <2>2, <2>3, <2>4, <1>2, SMTT(60) DEF ToSet
<1> QED
  BY <1>7, <1>8, <1>9, SMTT(60) DEF n, t

\* A call of Offer keeps the buffer in order, and either leaves the queue alone
\* or adds its chunk to the ones the queue holds.
LEMMA OfferBuffers ==
    ASSUME NEW q \in Queue, NEW seq \in SeqNo, Buffered(q)
    PROVE  /\ Buffered(Offer(q, seq).q)
           /\ \/ Offer(q, seq).q = q
              \/ /\ seq <= q.max
                 /\ Offer(q, seq).q.max = q.max
                 /\ Offer(q, seq).q.next >= q.next
                 /\ Held(Offer(q, seq).q) = Held(q) \cup {seq}
<1> DEFINE r == Offer(q, seq).q
           n == Len(q.data)
           d == q.data
<1>0. /\ seq \in Nat /\ q.next \in Nat /\ q.max \in Nat /\ d \in Seq(SeqNo)
      /\ n \in Nat /\ \A i \in 1 .. n : d[i] \in Nat /\ d[i] \in SeqNo
      /\ MaxUint64 \in Nat /\ \A s \in SeqNo : s \in Nat /\ s < MaxUint64
  BY SeqQueueAssumption, BufferTypes, SMTT(60) DEF Queue
<1>B. /\ q.next <= q.max + 1 /\ q.next <= MaxUint64 /\ q.max <= MaxUint64
      /\ \A i \in 1 .. n : d[i] > q.next \/ q.next > q.max
      /\ \A i, j \in 1 .. n : i < j => d[i] < d[j]
  BY DEF Buffered
<1>1. CASE q.next > q.max \/ seq > q.max \/ seq < q.next
  <2>1. r = q
    BY <1>1, SMTT(60) DEF Offer
  <2> QED BY <2>1
<1>2. CASE ~ (q.next > q.max \/ seq > q.max \/ seq < q.next) /\ seq = q.next
  <2> DEFINE k == Following(q, seq + 1)
             rest == SubSeq(d, k + 1, n)
             m == seq + 1 + k
  <2>1. r = [q EXCEPT !.next = m, !.data = rest]
    BY <1>2, SMTT(60) DEF Offer
  <2>2. /\ k \in 0 .. n
        /\ \A i \in 1 .. k : d[i] = seq + 1 + i - 1 /\ d[i] <= q.max
        /\ k < n => d[k + 1] # m \/ d[k + 1] > q.max
    <3>1. seq + 1 \in Nat
      BY <1>0
    <3> QED BY <3>1, FollowingFacts, Zenon
  <2>3. /\ rest \in Seq(SeqNo) /\ Len(rest) = n - k
        /\ \A i \in 1 .. n - k : rest[i] = d[k + i]
        /\ ToSet(d) = {d[i] : i \in 1 .. k} \cup ToSet(rest)
    <3> HIDE DEF k
    <3> QED BY <2>2, PopFacts, Zenon
  <2> HIDE DEF k, rest, n
  <2>4. m \in Nat /\ k \in Nat
    BY <2>2, <1>0
  <2>5. r.next = m /\ r.max = q.max /\ r.data = rest
    <3> HIDE DEF m, r
    <3> QED BY <2>1, <2>3, <2>4, SMTT(60) DEF Queue
  <2>6. m <= q.max + 1 /\ m <= MaxUint64
    <3>1. CASE k = 0
      BY <3>1, <1>0, <1>2, SMTT(60)
    <3>2. CASE k > 0
      <4>1. k \in 1 .. k /\ k \in 1 .. n
        BY <3>2, <2>2, <2>4, <1>0, SMTT(60)
      <4>2. d[k] = seq + k /\ d[k] <= q.max /\ d[k] < MaxUint64
        BY <4>1, <2>2, <2>4, <1>0, SMTT(60)
      <4> QED BY <4>2, <2>4, <1>0, SMTT(60)
    <3> QED BY <3>1, <3>2, <2>4, SMTT(60)
  <2>7. ASSUME NEW i \in 1 .. n - k PROVE rest[i] > m \/ m > q.max
    <3>1. k < n /\ k + 1 \in 1 .. n /\ k + i \in 1 .. n /\ rest[i] = d[k + i]
      BY <2>2, <2>3, <2>4, <1>0
    <3>2. d[k + 1] <= d[k + i]
      <4>1. CASE i = 1
        BY <4>1, <3>1, <1>0, SMTT(60)
      <4>2. CASE i # 1
        <5>1. k + 1 < k + i
          BY <4>2, <2>4, SMTT(60)
        <5>2. d[k + 1] < d[k + i]
          BY <5>1, <3>1, <1>B, SMTT(60)
        <5> QED BY <5>2, <3>1, <1>0, SMTT(60)
      <4> QED BY <4>1, <4>2, SMTT(60)
    <3>3. d[k + 1] >= m
      <4>1. CASE k = 0
        BY <4>1, <3>1, <1>0, <1>B, <1>2, SMTT(60)
      <4>2. CASE k > 0
        <5>1. k \in 1 .. k /\ k \in 1 .. n /\ d[k] < d[k + 1] /\ d[k] = seq + k
          <6>1. k \in 1 .. k /\ k \in 1 .. n /\ k < k + 1
            BY <4>2, <2>2, <2>4, <1>0
          <6>2. d[k] < d[k + 1]
            BY <6>1, <3>1, <1>B, SMTT(60)
          <6>3. d[k] = seq + k
            <7>1. d[k] = seq + 1 + k - 1
              BY <6>1, <2>2, SMTT(60)
            <7> QED BY <7>1, <2>4, <1>0, SMTT(60)
          <6> QED BY <6>1, <6>2, <6>3
        <5>2. d[k + 1] \in Nat
          BY <3>1, <1>0, SMTT(60)
        <5>3. seq \in Nat /\ k \in Nat /\ m = seq + 1 + k
          BY <2>4, <1>0, SMTT(60)
        <5>4. d[k + 1] > seq + k
          BY <5>1
        <5> HIDE DEF d, m, k
        <5> QED BY <5>2, <5>3, <5>4, SMTT(60)
      <4> QED BY <4>1, <4>2, <2>4, SMTT(60)
    <3>4. d[k + 1] \in Nat /\ d[k + i] \in Nat
      BY <3>1, <1>0, SMTT(60)
    <3>5. d[k + 1] # m \/ d[k + 1] > q.max
      BY <3>1, <2>2, SMTT(60)
    <3> QED BY <3>1, <3>2, <3>3, <3>4, <3>5, <2>4, <1>0, SMTT(60)
  <2>8. ASSUME NEW i \in 1 .. n - k, NEW j \in 1 .. n - k, i < j
        PROVE  rest[i] < rest[j]
    <3>1. k + i \in 1 .. n /\ k + j \in 1 .. n /\ k + i < k + j
      BY <2>8, <2>2, <2>4, <1>0, SMTT(60)
    <3> QED BY <3>1, <2>3, <1>B, SMTT(60)
  <2>9. Buffered(r)
    <3> HIDE DEF r, m, d
    <3> QED BY <2>3, <2>5, <2>6, <2>7, <2>8, <1>B, SMTT(60) DEF Buffered
  <2>10. Held(r) = Held(q) \cup {seq}
    <3>1. 0 .. m - 1 = (0 .. q.next - 1) \cup {seq} \cup {d[i] : i \in 1 .. k}
      <4>1. ASSUME NEW x \in 0 .. m - 1
            PROVE  x \in (0 .. q.next - 1) \cup {seq} \cup {d[i] : i \in 1 .. k}
        <5>1. CASE x > seq
          <6>1. x - seq \in 1 .. k /\ d[x - seq] = x
            BY <5>1, <2>2, <2>4, <1>0, SMTT(60)
          <6> QED BY <6>1, SMTT(60)
        <5> QED BY <5>1, <1>0, <1>2, SMTT(60)
      <4>2. ASSUME NEW i \in 1 .. k PROVE d[i] \in 0 .. m - 1
        <5>1. d[i] = seq + i
          BY <2>2, <2>4, <1>0, SMTT(60)
        <5> QED BY <5>1, <2>4, <1>0, SMTT(60)
      <4>3. (0 .. q.next - 1) \cup {seq} \subseteq 0 .. m - 1
        BY <1>0, <1>2, <2>4, SMTT(60)
      <4> QED BY <4>1, <4>2, <4>3, SMTT(60)
    <3> HIDE DEF r, m
    <3> QED BY <3>1, <2>3, <2>5, SMTT(60) DEF Held
  <2>11. r.next >= q.next /\ seq <= q.max
    BY <2>4, <2>5, <1>0, <1>2, SMTT(60)
  <2> QED BY <2>5, <2>9, <2>10, <2>11, SMTT(60)
<1>3. CASE ~ (q.next > q.max \/ seq > q.max \/ seq < q.next \/ seq = q.next)
  <2> DEFINE p == InsertPlace(q, seq)
             t == InsertAt(d, p, seq)
  <2>1. CASE r = q
    BY <2>1, SMTT(60)
  <2>2. CASE r # q
    <3>1. r = [q EXCEPT !.data = t] /\ ~ (p > 1 /\ d[p - 1] = seq)
      BY <1>3, <2>2, SMTT(60) DEF Offer
    <3>2. /\ p \in 1 .. n + 1
          /\ \A i \in 1 .. p - 1 : d[i] <= seq
          /\ p <= n => d[p] > seq
      BY <1>0, InsertPlaceFacts, Zenon
    <3>3. /\ t \in Seq(SeqNo) /\ Len(t) = n + 1
          /\ \A i \in 1 .. n + 1 :
                t[i] = IF i < p THEN d[i] ELSE IF i = p THEN seq ELSE d[i - 1]
          /\ ToSet(t) = ToSet(d) \cup {seq}
      <4>1. LET u == InsertAt(q.data, p, seq)
            IN  /\ u \in Seq(SeqNo)
                /\ Len(u) = Len(q.data) + 1
                /\ \A i \in 1 .. Len(q.data) + 1 :
                      u[i] = IF i < p THEN q.data[i]
                             ELSE IF i = p THEN seq ELSE q.data[i - 1]
                /\ ToSet(u) = ToSet(q.data) \cup {seq}
        <5>1. p \in 1 .. Len(q.data) + 1
          BY <3>2
        <5> HIDE DEF p
        <5> QED BY <5>1, InsertFacts, ZenonT(60)
      <4> HIDE DEF p
      <4> QED BY <4>1
    <3> HIDE DEF p, t, n
    <3>4. r.next = q.next /\ r.max = q.max /\ r.data = t
      <4> HIDE DEF r
      <4> QED BY <3>1, <3>3 DEF Queue
    <3>5. \A i \in 1 .. p - 1 : i \in 1 .. n /\ d[i] < seq
      <4>1. ASSUME NEW i \in 1 .. p - 1 PROVE i \in 1 .. n /\ d[i] < seq
        <5>1. i \in 1 .. n /\ p - 1 \in 1 .. n /\ p > 1 /\ d[p - 1] # seq
          BY <3>1, <3>2, <1>0, SMTT(60)
        <5>2. d[p - 1] < seq
          BY <5>1, <3>2, <1>0, SMTT(60)
        <5>3. i < p - 1 => d[i] < d[p - 1]
          BY <5>1, <1>B, SMTT(60)
        <5> QED BY <5>1, <5>2, <5>3, <3>2, <1>0, SMTT(60)
      <4> QED BY <4>1
    <3>6. \A i \in p .. n : i \in 1 .. n /\ d[i] > seq
      <4>1. ASSUME NEW i \in p .. n PROVE i \in 1 .. n /\ d[i] > seq
        <5>1. i \in 1 .. n /\ p \in 1 .. n /\ d[p] > seq
          BY <3>2, <1>0, SMTT(60)
        <5>2. p < i => d[p] < d[i]
          BY <5>1, <1>B, SMTT(60)
        <5> QED BY <5>1, <5>2, <3>2, <1>0, SMTT(60)
      <4> QED BY <4>1, SMTT(60)
    <3>7. ASSUME NEW i \in 1 .. n + 1 PROVE t[i] > q.next
      <4>1. t[i] = seq \/ (\E j \in 1 .. n : t[i] = d[j])
        <5>1. i < p => i \in 1 .. n
          BY <3>2, <1>0, SMTT(60)
        <5>2. i > p => i - 1 \in 1 .. n
          BY <3>2, <1>0, SMTT(60)
        <5>3. CASE i < p
          BY <5>1, <5>3, <3>3, SMTT(60)
        <5>4. CASE i = p
          BY <5>4, <3>2, <3>3, <1>0, SMTT(60)
        <5>5. CASE i > p
          <6>1. t[i] = d[i - 1]
            BY <5>5, <3>2, <3>3, <1>0, SMTT(60)
          <6> QED BY <6>1, <5>2, <5>5, SMTT(60)
        <5> QED BY <5>3, <5>4, <5>5, <3>2, <1>0, SMTT(60)
      <4> QED BY <4>1, <1>0, <1>B, <1>3, SMTT(60)
    <3>8. ASSUME NEW i \in 1 .. n + 1, NEW j \in 1 .. n + 1, i < j
          PROVE  t[i] < t[j]
      <4>1. CASE j < p
        <5>1. i \in 1 .. p - 1 /\ j \in 1 .. p - 1 /\ t[i] = d[i] /\ t[j] = d[j]
          BY <3>8, <4>1, <3>2, <3>3, <1>0, SMTT(60)
        <5> QED BY <5>1, <3>8, <3>5, <1>B, SMTT(60)
      <4>2. CASE j = p
        <5>1. i \in 1 .. p - 1 /\ t[i] = d[i] /\ t[j] = seq
          BY <3>8, <4>2, <3>2, <3>3, <1>0, SMTT(60)
        <5> QED BY <5>1, <3>5, SMTT(60)
      <4>3. CASE j > p
        <5>1. j - 1 \in p .. n /\ t[j] = d[j - 1] /\ d[j - 1] > seq /\ j - 1 \in 1 .. n
          BY <4>3, <3>2, <3>3, <3>6, <1>0, SMTT(60)
        <5>2. CASE i < p
          <6>1. i \in 1 .. p - 1 /\ t[i] = d[i] /\ d[i] < seq /\ i \in 1 .. n
            BY <5>2, <3>2, <3>3, <3>5, <1>0, SMTT(60)
          <6> QED BY <6>1, <5>1, <1>0, SMTT(60)
        <5>3. CASE i = p
          <6>1. t[i] = seq
            BY <5>3, <3>2, <3>3, <1>0, SMTT(60)
          <6> QED BY <6>1, <5>1, <1>0, SMTT(60)
        <5>4. CASE i > p
          <6>1. i - 1 \in p .. n /\ i - 1 \in 1 .. n /\ t[i] = d[i - 1] /\ i - 1 < j - 1
            <7>1. i - 1 \in p .. n /\ i - 1 < j - 1
              BY <5>4, <3>8, <3>2, <1>0, SMTT(60)
            <7>2. t[i] = d[i - 1]
              BY <5>4, <3>2, <3>3, <1>0, SMTT(60)
            <7> QED BY <7>1, <7>2, <3>6, SMTT(60)
          <6> QED BY <6>1, <5>1, <1>B, SMTT(60)
        <5> QED BY <5>2, <5>3, <5>4, <3>2, <1>0, SMTT(60)
      <4> QED BY <4>1, <4>2, <4>3, <3>2, <1>0, SMTT(60)
    <3>9. Buffered(r)
      <4> HIDE DEF r, d
      <4> QED BY <3>3, <3>4, <3>7, <3>8, <1>B, SMTT(60) DEF Buffered
    <3>10. Held(r) = Held(q) \cup {seq}
      <4> HIDE DEF r
      <4> QED BY <3>3, <3>4, SMTT(60) DEF Held
    <3> QED BY <3>4, <3>9, <3>10, <1>0, <1>3, SMTT(60)
  <2> QED BY <2>1, <2>2, SMTT(60)
<1> QED
  BY <1>1, <1>2, <1>3, <1>0, SMTT(60)

\* What calls keep when the end is announced in time.
InTimeInv ==
    /\ InOrderInv
    /\ Buffered(queue)
    /\ completed => queue.next > queue.max

LEMMA InTimeInit == SQInit => InTimeInv
<1> SUFFICES ASSUME SQInit PROVE InTimeInv
  OBVIOUS
<1>1. queue.next = 0 /\ queue.max = MaxUint64 /\ Len(queue.data) = 0 /\ completed = FALSE
  BY SMTT(60) DEF SQInit, NewSeqQueue
<1> QED
  BY <1>1, InOrderInit, SeqQueueAssumption, SMTT(60) DEF InTimeInv, Buffered

LEMMA InTimeOffer ==
    ASSUME InTimeInv, NEW n \in SeqNo, OfferChunk(n)
    PROVE  InTimeInv' /\ [\E s \in SeqNo : Ordered!Accept(s)]_(Ordered!osVars)
<1>1. queue \in Queue
  BY DEF InTimeInv, InOrderInv, SQTypeOK, Queue
<1>2. InOrderInv'
  BY InOrderOffer DEF InTimeInv
<1>3. /\ Buffered(queue')
      /\ \/ queue' = queue
         \/ /\ n <= queue.max
            /\ queue'.max = queue.max
            /\ queue'.next >= queue.next
            /\ Held(queue') = Held(queue) \cup {n}
  BY <1>1, OfferBuffers, SMTT(60) DEF InTimeInv, OfferChunk
<1>4. completed' => queue'.next > queue'.max
  <2>1. CASE queue.next > queue.max \/ n > queue.max \/ n < queue.next
    BY <2>1, Zenon DEF OfferChunk, Offer
  <2>2. CASE ~ (queue.next > queue.max \/ n > queue.max \/ n < queue.next) /\ n = queue.next
    <3> DEFINE m == n + 1 + Following(queue, n + 1)
               rest == SubSeq(queue.data, Following(queue, n + 1) + 1, Len(queue.data))
    <3>1. /\ queue' = [queue EXCEPT !.next = m, !.data = rest]
          /\ completed' = (m > queue.max)
      BY <2>2, Zenon DEF OfferChunk, Offer
    <3> HIDE DEF m, rest
    <3> QED BY <1>1, <3>1, Zenon DEF Queue
  <2>3. CASE ~ (queue.next > queue.max \/ n > queue.max \/ n < queue.next \/ n = queue.next)
    BY <2>3, Zenon DEF OfferChunk, Offer
  <2> QED BY <2>1, <2>2, <2>3, SMTT(60)
<1>5. [\E s \in SeqNo : Ordered!Accept(s)]_(Ordered!osVars)
  <2>1. CASE queue' = queue
    BY <2>1 DEF Ordered!osVars
  <2>2. CASE queue' # queue
    <3>1. queue' \in Queue
      BY <1>2 DEF InOrderInv, SQTypeOK, Queue
    <3>2. /\ Held(queue') = (0 .. queue'.next - 1) \cup ToSet(queue'.data)
          /\ Held(queue) = (0 .. queue.next - 1) \cup ToSet(queue.data)
      BY DEF Held
    <3>3. ASSUME NEW i \in SeqNo, i < queue'.next PROVE i \in Held(queue') /\ i <= queue.max
      <4>1. i \in Nat /\ queue'.next \in Nat /\ queue'.max \in Nat
        BY <3>1, SeqQueueAssumption, SMTT(60) DEF Queue
      <4>2. i \in 0 .. queue'.next - 1
        BY <4>1, <3>3, SMTT(60)
      <4>3. queue'.next <= queue'.max + 1
        BY <1>3, SMTT(60) DEF Buffered
      <4> QED BY <4>1, <4>2, <4>3, <3>2, <3>3, <1>3, <2>2, SMTT(60)
    <3>4. queue'.next \notin Held(queue') \/ queue'.next > queue.max
      <4>1. queue'.next \in Nat /\ queue'.next \notin 0 .. queue'.next - 1
        BY <3>1, SMTT(60) DEF Queue
      <4>2. ASSUME queue'.next \in ToSet(queue'.data) PROVE queue'.next > queue'.max
        <5>1. PICK i \in 1 .. Len(queue'.data) : queue'.data[i] = queue'.next
          BY <3>1, <4>2, LenProperties, SMTT(60) DEF ToSet, Queue
        <5> QED BY <5>1, <4>1, <1>3, SMTT(60) DEF Buffered
      <4> QED BY <4>1, <4>2, <3>2, <1>3, <2>2, SMTT(60)
    <3>5. Ordered!Ready(queue'.next, Held(queue'), queue.max)
      BY <3>3, <3>4, SMTT(60) DEF Ordered!Ready
    <3>6. Ordered!Accept(n)
      BY <3>2, <3>5, <1>3, <2>2, SMTT(60) DEF Ordered!Accept
    <3> QED BY <3>6
  <2> QED BY <2>1, <2>2
<1> QED
  BY <1>2, <1>3, <1>4, <1>5, SMTT(60) DEF InTimeInv, Buffered

LEMMA InTimeEnd ==
    ASSUME InTimeInv, NEW n \in SeqNo, InTime(n), EndAt(n)
    PROVE  InTimeInv' /\ Ordered!Announce(n)
<1>1. queue \in Queue /\ n \in Nat /\ n < MaxUint64 /\ MaxUint64 \in Nat
  BY SeqQueueAssumption, SMTT(60) DEF InTimeInv, InOrderInv, SQTypeOK, Queue
<1>2. queue' = [queue EXCEPT !.max = n] /\ completed' = FALSE
  BY <1>1, SMTT(60) DEF EndAt, SetMaxSeq, InTime, Queue
<1>3. /\ queue'.next = queue.next /\ queue'.max = n /\ queue'.data = queue.data
      /\ queue.next \in Nat /\ queue.max \in Nat
  BY <1>1, <1>2, SMTT(60) DEF Queue
<1>4. queue.max = MaxUint64 /\ n >= queue.next
  BY DEF InTime
<1>5. InOrderInv'
  BY InOrderEnd, SMTT(60) DEF InTimeInv
<1>6. Buffered(queue)'
  BY <1>1, <1>3, <1>4, SMTT(60) DEF InTimeInv, Buffered
<1>7. Ordered!Announce(n)
  BY <1>3, <1>4, SMTT(60) DEF Ordered!Announce
<1> QED
  BY <1>2, <1>5, <1>6, <1>7, SMTT(60) DEF InTimeInv

LEMMA InTimeStep ==
    InTimeInv /\ [NextInTime]_sqVars
        => InTimeInv' /\ [Ordered!OSNext]_(Ordered!osVars)
<1> SUFFICES ASSUME InTimeInv, [NextInTime]_sqVars
             PROVE  InTimeInv' /\ [Ordered!OSNext]_(Ordered!osVars)
  OBVIOUS
<1>1. ASSUME NEW n \in SeqNo, OfferChunk(n)
      PROVE  InTimeInv' /\ [Ordered!OSNext]_(Ordered!osVars)
  BY <1>1, InTimeOffer, SMTT(60) DEF Ordered!OSNext
<1>2. ASSUME NEW n \in SeqNo, InTime(n), EndAt(n)
      PROVE  InTimeInv' /\ [Ordered!OSNext]_(Ordered!osVars)
  BY <1>2, InTimeEnd, SMTT(60) DEF Ordered!OSNext
<1>3. CASE UNCHANGED sqVars
  <2>1. InTimeInv'
    BY <1>3, SMTT(60) DEF sqVars, InTimeInv, InOrderInv, InOrder, SQTypeOK, Buffered
  <2>2. UNCHANGED Ordered!osVars
    BY <1>3 DEF sqVars, Ordered!osVars
  <2> QED BY <2>1, <2>2, SMTT(60)
<1> QED
  BY <1>1, <1>2, <1>3, SMTT(60) DEF NextInTime

\* The queue behind the input of a stream is an ordered stream: each chunk is
\* handed out once, as soon as all earlier ones are there, and none past the end.
THEOREM QueueImplementsOrderedStream == SpecInTime => ImplementsOrderedStream
<1>1. SQInit => Ordered!OSInit
  <2> SUFFICES ASSUME SQInit PROVE Ordered!OSInit
    OBVIOUS
  <2>1. queue.next = 0 /\ queue.max = MaxUint64 /\ queue.data = << >>
    BY DEF SQInit, NewSeqQueue
  <2>2. 0 .. 0 - 1 = {} /\ ToSet(<< >>) = {}
    BY DEF ToSet
  <2> QED BY <2>1, <2>2, SMTT(60) DEF Ordered!OSInit
<1> QED
  BY <1>1, InTimeInit, InTimeStep, PTL
     DEF SpecInTime, ImplementsOrderedStream, Ordered!OSSpec

\* The buffer of the queue stays sorted, and holds no chunk that is due.
THEOREM BufferStaysSorted == SpecInTime => []BufferSorted
<1>1. InTimeInv => BufferSorted
  BY DEF InTimeInv, Buffered, BufferSorted
<1> QED
  BY <1>1, InTimeInit, InTimeStep, PTL DEF SpecInTime

\* When Offer or SetMaxSeq has returned completed, no chunk comes out any more.
THEOREM CompletedIsFinal == SpecInTime => StopsWhenCompleted
<1>1. InTimeInv /\ [NextInTime]_sqVars => [completed => got' = got]_sqVars
  <2> SUFFICES ASSUME InTimeInv, NextInTime, completed PROVE got' = got
    BY DEF sqVars
  <2>1. queue.next > queue.max /\ got \in Seq(SeqNo)
    BY DEF InTimeInv, InOrderInv, SQTypeOK
  <2>2. ASSUME NEW n \in SeqNo, OfferChunk(n) PROVE got' = got
    <3>1. got' = got \o << >>
      BY <2>1, <2>2, SMTT(60) DEF OfferChunk, Offer
    <3> QED BY <3>1, <2>1, ConcatEmptySeq, SMTT(60)
  <2>3. ASSUME NEW n \in SeqNo, EndAt(n) PROVE got' = got
    BY <2>3 DEF EndAt
  <2> QED BY <2>2, <2>3, SMTT(60) DEF NextInTime
<1> QED
  BY <1>1, InTimeInit, InTimeStep, PTL DEF SpecInTime, StopsWhenCompleted
-----------------------------------------------------------------------------
(***************************************************************************)
(* The streams.  The invariant follows a chunk from the queue to the pipe. *)
(* As long as both ends of the pipe of an operation are open, the chunks   *)
(* written and those the controller still has to write are together the    *)
(* ones the queue has handed out; and the controller writes only to a      *)
(* stream that is marked as worked on.                                     *)
(***************************************************************************)
Stream == [q : Queue, working : BOOLEAN, pipe : Nat, writeEnd : BOOLEAN, readEnd : BOOLEAN]

Ctrl ==
    [pc : {"idle"}] \cup [pc : {"lookup", "lock"}, in : Input]
        \cup [pc : {"write"}, in : Input, out : Seq(SeqNo)]

Typed ==
    /\ stream \in [Op -> Stream]
    /\ op \in [Op -> OpPC]
    /\ stdin \in [Op -> Seq(SeqNo)]
    /\ inbox \subseteq Input
    /\ ctrl \in Ctrl

Open(o) == stream[o].writeEnd /\ stream[o].readEnd

\* The pipe of an operation is open until the operation is over.
OpenUntilOver == \A o \in Op : op[o] \in {"idle", "create", "run"} => Open(o)

Writing(o) == ctrl.pc = "write" /\ ctrl.in.sid = o

\* What the controller writes to is marked as worked on.
WritesWorking == \A o \in Op : Writing(o) => stream[o].working

\* Chunks of operation o written, chunks to write, and chunks handed out.
Delivered ==
    \A o \in Op : Open(o) =>
        /\ ~ Writing(o) => Len(stdin[o]) = stream[o].q.next
        /\ Writing(o) =>
              /\ Len(stdin[o]) + Len(ctrl.out) = stream[o].q.next
              /\ \A i \in 1 .. Len(ctrl.out) : ctrl.out[i] = Len(stdin[o]) + i - 1

StdinInv == Typed /\ OpenUntilOver /\ WritesWorking /\ Delivered /\ StdinInOrder
-----------------------------------------------------------------------------
\* What the record of the controller holds, by its place.
LEMMA CtrlFields ==
    ASSUME ctrl \in Ctrl
    PROVE  /\ ctrl.pc \in {"idle", "lookup", "lock", "write"}
           /\ ctrl.pc = "idle" => ctrl = [pc |-> "idle"]
           /\ ctrl.pc \in {"lookup", "lock"} =>
                 ctrl \in [pc : {"lookup", "lock"}, in : Input]
           /\ ctrl.pc = "write" =>
                 ctrl \in [pc : {"write"}, in : Input, out : Seq(SeqNo)]
           /\ ctrl.pc # "idle" =>
                 /\ ctrl.in \in Input /\ ctrl.in.sid \in Op /\ ctrl.in.seq \in SeqNo
                 /\ ctrl.in.kind \in {"data", "close"}
<1>1. ASSUME NEW i \in Input
      PROVE  i.sid \in Op /\ i.seq \in SeqNo /\ i.kind \in {"data", "close"}
  BY StreamsAssumption
<1> QED
  BY <1>1 DEF Ctrl

\* SetMaxSeq leaves what is to come out of the queue alone.
LEMMA SetMaxSeqKeeps ==
    ASSUME NEW q \in Queue, NEW n \in SeqNo
    PROVE  SetMaxSeq(q, n).q \in Queue /\ SetMaxSeq(q, n).q.next = q.next
<1>1. n \in Nat
  BY SeqQueueAssumption
<1>2. PICK m \in Nat : SetMaxSeq(q, n).q = [q EXCEPT !.max = m]
  BY <1>1 DEF SetMaxSeq, Queue
<1> QED
  BY <1>2 DEF Queue

LEMMA StdinInit == Init => StdinInv
<1> SUFFICES ASSUME Init PROVE StdinInv
  OBVIOUS
<1>1. NewSeqQueue \in Queue /\ NewSeqQueue.next = 0
  BY SeqQueueAssumption, EmptySeq DEF NewSeqQueue, Queue
<1>2. NewStream \in Stream /\ NewStream.q.next = 0 /\ NewStream.writeEnd /\ NewStream.readEnd
  BY <1>1 DEF NewStream, Stream
<1>3. ctrl \in Ctrl /\ ctrl.pc = "idle"
  BY DEF Init, Ctrl
<1>4. \A o \in Op : stream[o] = NewStream /\ stdin[o] = << >> /\ op[o] = "idle"
  BY DEF Init
<1>5. Typed
  BY <1>2, <1>3, EmptySeq DEF Init, Typed, OpPC
<1>6. OpenUntilOver /\ WritesWorking /\ Delivered /\ StdinInOrder
  BY <1>2, <1>3, <1>4 DEF OpenUntilOver, WritesWorking, Delivered, StdinInOrder, Open, Writing
<1> QED
  BY <1>5, <1>6 DEF StdinInv

\* A step of an operation leaves the queue and the controller alone and opens no
\* end of a pipe.
ClosesOnly ==
    /\ UNCHANGED <<ctrl, inbox, stdin>>
    /\ stream' \in [Op -> Stream] /\ op' \in [Op -> OpPC]
    /\ \A o \in Op : /\ stream'[o].q = stream[o].q
                     /\ stream'[o].working = stream[o].working
                     /\ stream'[o].writeEnd => stream[o].writeEnd
                     /\ stream'[o].readEnd => stream[o].readEnd
                     /\ op'[o] \in {"idle", "create", "run"} =>
                           /\ op[o] \in {"idle", "create", "run"}
                           /\ stream'[o].writeEnd = stream[o].writeEnd
                           /\ stream'[o].readEnd = stream[o].readEnd

LEMMA OperationKeeps ==
    ASSUME StdinInv, ClosesOnly
    PROVE  StdinInv'
<1> USE DEF ClosesOnly
<1>1. Typed' /\ OpenUntilOver' /\ WritesWorking' /\ StdinInOrder'
  BY DEF StdinInv, Typed, OpenUntilOver, WritesWorking, StdinInOrder, Open, Writing
<1>2. Delivered'
  <2>1. \A o \in Op : (Open(o)' => Open(o)) /\ (Writing(o)' <=> Writing(o))
    BY DEF Open, Writing
  <2> QED
    BY <2>1 DEF StdinInv, Delivered
<1> QED
  BY <1>1, <1>2 DEF StdinInv

LEMMA OperationStep ==
    ASSUME StdinInv, NEW o \in Op, OpStep(o) \/ ProcessReads(o) \/ ReadEndFinalized(o)
    PROVE  StdinInv'
<1>0. stream \in [Op -> Stream] /\ op \in [Op -> OpPC] /\ stream[o] \in Stream
  BY DEF StdinInv, Typed
<1>1. CASE AddLocks(o) \/ Created(o) \/ CreateFails(o) \/ RunEnds(o) \/ DelLocks(o)
  <2>1. UNCHANGED <<stream, ctrl, inbox, stdin>>
    BY <1>1 DEF AddLocks, Created, CreateFails, RunEnds, DelLocks
  <2>2. PICK l \in OpPC : /\ op' = [op EXCEPT ![o] = l]
                          /\ l \in {"idle", "create", "run"} => op[o] \in {"idle", "create", "run"}
    BY <1>1 DEF AddLocks, Created, CreateFails, RunEnds, DelLocks, OpPC
  <2>3. ClosesOnly
    BY <1>0, <2>1, <2>2 DEF ClosesOnly
  <2> QED
    BY <2>3, OperationKeeps
<1>2. CASE ProcessReads(o)
  <2>1. UNCHANGED <<op, ctrl, inbox, stdin>> /\ stream' = [stream EXCEPT ![o].pipe = @ - 1]
    BY <1>2 DEF ProcessReads
  <2>2. stream[o].pipe - 1 \in Nat
    BY <1>0, <1>2 DEF ProcessReads, Stream
  <2>3. ClosesOnly
    BY <1>0, <2>1, <2>2 DEF ClosesOnly, Stream
  <2> QED
    BY <2>3, OperationKeeps
<1>3. CASE ReadEndFinalized(o)
  <2>1. /\ UNCHANGED <<op, ctrl, inbox, stdin>> /\ op[o] \notin {"idle", "create", "run"}
        /\ stream' = [stream EXCEPT ![o].readEnd = FALSE]
    BY <1>3 DEF ReadEndFinalized
  <2>2. ClosesOnly
    BY <1>0, <2>1 DEF ClosesOnly, Stream
  <2> QED
    BY <2>2, OperationKeeps
<1>4. CASE ForwardClosesPipe(o) \/ DelCloses(o)
  <2>1. /\ UNCHANGED <<ctrl, inbox, stdin>> /\ op[o] \in {"over", "close"}
        /\ op' = op \/ op' = [op EXCEPT ![o] = "done"]
        /\ stream' = [stream EXCEPT ![o].writeEnd = FALSE]
    BY <1>4 DEF ForwardClosesPipe, DelCloses
  <2>2. /\ op' \in [Op -> OpPC] /\ op'[o] \notin {"idle", "create", "run"}
        /\ \A p \in Op \ {o} : op'[p] = op[p]
    BY <1>0, <2>1 DEF OpPC
  <2>3. ClosesOnly
    BY <1>0, <2>1, <2>2 DEF ClosesOnly, Stream
  <2> QED
    BY <2>3, OperationKeeps
<1> QED
  BY <1>1, <1>2, <1>3, <1>4 DEF OpStep

\* The controller moves on without touching a pipe it writes to.
LEMMA ControllerMoves ==
    ASSUME StdinInv, UNCHANGED <<stream, op, stdin>>, inbox' \subseteq Input, ctrl' \in Ctrl,
           ctrl.pc # "write", ctrl'.pc # "write"
    PROVE  StdinInv'
BY DEF StdinInv, Typed, OpenUntilOver, WritesWorking, Delivered, StdinInOrder, Open, Writing

\* The queue hands out what the controller is to write next.
LEMMA ControllerOffers ==
    ASSUME StdinInv, CtrlOffers
    PROVE  StdinInv'
<1> DEFINE o == ctrl.in.sid
           r == Offer(stream[o].q, ctrl.in.seq)
<1>0. /\ stream \in [Op -> Stream] /\ ctrl.pc = "lock" /\ ctrl.in \in Input
      /\ o \in Op /\ ctrl.in.seq \in SeqNo /\ stdin \in [Op -> Seq(SeqNo)]
  BY CtrlFields DEF StdinInv, Typed, CtrlOffers
<1>1. stream[o].q \in Queue /\ stream[o].q.next \in Nat
  BY <1>0 DEF Stream, Queue
<1>2. /\ r.q \in Queue /\ r.out \in Seq(SeqNo) /\ r.q.next \in Nat
      /\ Len(r.out) = r.q.next - stream[o].q.next
      /\ \A i \in 1 .. Len(r.out) : r.out[i] = stream[o].q.next + i - 1
  BY <1>0, <1>1, OfferHandsOut DEF Queue
<1>3. /\ stream' = [stream EXCEPT ![o].working = TRUE, ![o].q = r.q]
      /\ ctrl' = [pc |-> "write", in |-> ctrl.in, out |-> r.out]
      /\ UNCHANGED <<op, inbox, stdin>>
  BY DEF CtrlOffers
<1> HIDE DEF r
<1>4. /\ stream' \in [Op -> Stream] /\ stream'[o].q = r.q /\ stream'[o].working
      /\ stream'[o].writeEnd = stream[o].writeEnd /\ stream'[o].readEnd = stream[o].readEnd
      /\ \A p \in Op \ {o} : stream'[p] = stream[p]
  BY <1>0, <1>2, <1>3 DEF Stream
<1>5. ctrl' \in Ctrl /\ ctrl'.pc = "write" /\ ctrl'.in.sid = o /\ ctrl'.out = r.out
  BY <1>0, <1>2, <1>3 DEF Ctrl
<1> HIDE DEF o
<1>6. \A p \in Op : /\ Open(p)' <=> Open(p)
                    /\ ~ Writing(p)
                    /\ Writing(p)' <=> p = o
  BY <1>0, <1>4, <1>5 DEF Open, Writing
<1>7. Typed' /\ OpenUntilOver' /\ StdinInOrder'
  BY <1>3, <1>4, <1>5, <1>6 DEF StdinInv, Typed, OpenUntilOver, StdinInOrder
<1>8. WritesWorking'
  BY <1>4, <1>6 DEF WritesWorking
<1>9. Delivered'
  <2> SUFFICES ASSUME NEW p \in Op, Open(p)'
               PROVE  /\ ~ Writing(p)' => Len(stdin[p]) = stream'[p].q.next
                      /\ Writing(p)' =>
                            /\ Len(stdin[p]) + Len(ctrl'.out) = stream'[p].q.next
                            /\ \A i \in 1 .. Len(ctrl'.out) : ctrl'.out[i] = Len(stdin[p]) + i - 1
    BY <1>3 DEF Delivered
  <2>1. Len(stdin[p]) = stream[p].q.next
    BY <1>6 DEF StdinInv, Delivered
  <2>2. CASE p = o
    <3>1. Len(stdin[o]) = stream[o].q.next /\ ctrl'.out = r.out /\ stream'[o].q = r.q
      BY <1>4, <1>5, <2>1, <2>2
    <3>2. Len(r.out) \in Nat
      BY <1>2, LenProperties
    <3>3. Len(stdin[o]) + Len(r.out) = r.q.next
      BY <1>1, <1>2, <3>1, <3>2
    <3> QED
      BY <1>2, <1>6, <2>2, <3>1, <3>3
  <2>3. CASE p # o
    BY <1>4, <1>6, <2>1, <2>3
  <2> QED
    BY <2>2, <2>3
<1> QED
  BY <1>7, <1>8, <1>9 DEF StdinInv

\* The end of the input changes nothing that was handed out.
LEMMA ControllerEnds ==
    ASSUME StdinInv, CtrlEndsInput
    PROVE  StdinInv'
<1> DEFINE o == ctrl.in.sid
           q == SetMaxSeq(stream[o].q, ctrl.in.seq).q
<1>0. /\ stream \in [Op -> Stream] /\ ctrl.pc = "lock"
      /\ o \in Op /\ ctrl.in.seq \in SeqNo
  BY CtrlFields DEF StdinInv, Typed, CtrlEndsInput
<1>1. q \in Queue /\ q.next = stream[o].q.next
  BY <1>0, SetMaxSeqKeeps DEF Stream
<1>2. /\ stream' = [stream EXCEPT ![o].working = TRUE, ![o].q = q]
      /\ ctrl' = [pc |-> "idle"] /\ UNCHANGED <<op, inbox, stdin>>
  BY <1>0 DEF CtrlEndsInput, Stream
<1> HIDE DEF q
<1>4. /\ stream' \in [Op -> Stream] /\ stream'[o].q = q
      /\ stream'[o].writeEnd = stream[o].writeEnd /\ stream'[o].readEnd = stream[o].readEnd
      /\ \A p \in Op \ {o} : stream'[p] = stream[p]
  BY <1>0, <1>1, <1>2 DEF Stream
<1>5. ctrl' \in Ctrl /\ ctrl'.pc = "idle"
  BY <1>2 DEF Ctrl
<1> HIDE DEF o
<1>6. \A p \in Op : /\ (Open(p)' <=> Open(p)) /\ ~ Writing(p) /\ ~ Writing(p)'
                    /\ stream'[p].q.next = stream[p].q.next
  BY <1>0, <1>1, <1>4, <1>5 DEF Open, Writing
<1> QED
  BY <1>2, <1>4, <1>5, <1>6
  DEF StdinInv, Typed, OpenUntilOver, StdinInOrder, WritesWorking, Delivered

\* The controller writes a chunk to an open pipe, or loses it to a closed one.
LEMMA ControllerWrites ==
    ASSUME StdinInv, CtrlWrites
    PROVE  StdinInv'
<1> DEFINE o == ctrl.in.sid
           h == Head(ctrl.out)
           rest == Tail(ctrl.out)
<1>0. /\ stream \in [Op -> Stream] /\ ctrl.pc = "write" /\ ctrl.in \in Input
      /\ ctrl \in [pc : {"write"}, in : Input, out : Seq(SeqNo)] /\ ctrl.out # << >>
      /\ o \in Op /\ stdin \in [Op -> Seq(SeqNo)] /\ SeqNo \subseteq Nat
  BY CtrlFields, SeqQueueAssumption DEF StdinInv, Typed, CtrlWrites
<1>1. /\ ctrl.out \in Seq(SeqNo) /\ Len(ctrl.out) \in Nat \ {0}
      /\ h = ctrl.out[1] /\ h \in SeqNo
      /\ rest \in Seq(SeqNo) /\ Len(rest) = Len(ctrl.out) - 1
      /\ \A i \in 1 .. Len(rest) : rest[i] = ctrl.out[i + 1]
  BY <1>0
<1>2. ctrl' = [ctrl EXCEPT !.out = rest] /\ UNCHANGED <<op, inbox>>
  BY DEF CtrlWrites
<1>3. /\ ctrl' \in Ctrl /\ ctrl'.pc = "write" /\ ctrl'.in = ctrl.in /\ ctrl'.out = rest
  BY <1>0, <1>1, <1>2 DEF Ctrl
<1> HIDE DEF rest
<1>4. \A p \in Op : (Writing(p)' <=> p = o) /\ (Writing(p) <=> p = o)
  BY <1>0, <1>3 DEF Writing
<1>5. CASE /\ stream[o].writeEnd /\ stream[o].readEnd
           /\ stream' = [stream EXCEPT ![o].pipe = @ + 1]
           /\ stdin' = [stdin EXCEPT ![o] = Append(@, h)]
  <2>1. stream' = [stream EXCEPT ![o].pipe = stream[o].pipe + 1] /\ stream[o].pipe + 1 \in Nat
    BY <1>0, <1>5 DEF Stream
  <2>2. /\ stream' \in [Op -> Stream]
        /\ stream'[o].q = stream[o].q /\ stream'[o].working = stream[o].working
        /\ stream'[o].writeEnd = stream[o].writeEnd /\ stream'[o].readEnd = stream[o].readEnd
        /\ \A p \in Op \ {o} : stream'[p] = stream[p]
    BY <1>0, <2>1 DEF Stream
  <2> DEFINE n == Len(stdin[o])
  <2>3. /\ stdin' \in [Op -> Seq(SeqNo)] /\ n \in Nat
        /\ Len(stdin'[o]) = n + 1 /\ stdin'[o][n + 1] = h
        /\ \A i \in 1 .. n : stdin'[o][i] = stdin[o][i]
        /\ \A p \in Op \ {o} : stdin'[p] = stdin[p]
    BY <1>0, <1>1, <1>5
  <2> HIDE DEF h
  <2>4. n + Len(ctrl.out) = stream[o].q.next /\ \A i \in 1 .. Len(ctrl.out) : ctrl.out[i] = n + i - 1
    BY <1>0, <1>4, <1>5 DEF StdinInv, Delivered, Open
  <2>5. h = n
    BY <1>1, <2>3, <2>4
  <2> HIDE DEF o, n
  <2>6. \A p \in Op : Open(p)' <=> Open(p)
    BY <2>2 DEF Open
  <2>7. Typed' /\ OpenUntilOver' /\ WritesWorking'
    BY <1>2, <1>3, <1>4, <2>2, <2>3, <2>6 DEF StdinInv, Typed, OpenUntilOver, WritesWorking
  <2>8. StdinInOrder'
    <3> SUFFICES ASSUME NEW p \in Op, NEW k \in 1 .. Len(stdin'[p]) PROVE stdin'[p][k] = k - 1
      BY DEF StdinInOrder
    <3>1. \A i \in 1 .. Len(stdin[p]) : stdin[p][i] = i - 1
      BY DEF StdinInv, StdinInOrder
    <3>2. CASE p = o
      <4>1. k \in 1 .. n \/ k = n + 1
        BY <2>3, <3>2
      <4>2. \A i \in 1 .. n : stdin[o][i] = i - 1
        BY <3>1, <3>2 DEF n
      <4> QED
        BY <2>3, <2>5, <3>2, <4>1, <4>2
    <3>3. CASE p # o
      BY <2>3, <3>1, <3>3
    <3> QED
      BY <3>2, <3>3
  <2>9. Delivered'
    <3> SUFFICES ASSUME NEW p \in Op, Open(p)'
                 PROVE  /\ ~ Writing(p)' => Len(stdin'[p]) = stream'[p].q.next
                        /\ Writing(p)' =>
                              /\ Len(stdin'[p]) + Len(rest) = stream'[p].q.next
                              /\ \A i \in 1 .. Len(rest) : rest[i] = Len(stdin'[p]) + i - 1
      BY <1>3 DEF Delivered
    <3>1. CASE p = o
      <4>1. n + 1 + Len(rest) = stream[o].q.next
        BY <1>1, <2>3, <2>4
      <4>2. ASSUME NEW i \in 1 .. Len(rest) PROVE rest[i] = n + 1 + i - 1
        <5>1. i + 1 \in 1 .. Len(ctrl.out)
          BY <1>1
        <5>2. rest[i] = ctrl.out[i + 1] /\ ctrl.out[i + 1] = n + (i + 1) - 1
          BY <1>1, <2>4, <5>1
        <5> QED
          BY <2>3, <5>2
      <4> QED
        BY <1>4, <2>2, <2>3, <3>1, <4>1, <4>2
    <3>2. CASE p # o
      BY <1>4, <2>2, <2>3, <2>6, <3>2 DEF StdinInv, Delivered
    <3> QED
      BY <3>1, <3>2
  <2> QED
    BY <2>7, <2>8, <2>9 DEF StdinInv
<1>6. CASE ~ (stream[o].writeEnd /\ stream[o].readEnd) /\ UNCHANGED <<stream, stdin>>
  <2>1. ~ Open(o) /\ \A p \in Op : Open(p)' <=> Open(p)
    BY <1>6 DEF Open
  <2> HIDE DEF o
  <2>2. Typed' /\ OpenUntilOver' /\ WritesWorking' /\ StdinInOrder'
    BY <1>2, <1>3, <1>4, <1>6, <2>1
    DEF StdinInv, Typed, OpenUntilOver, WritesWorking, StdinInOrder
  <2>3. Delivered'
    BY <1>4, <1>6, <2>1 DEF StdinInv, Delivered
  <2> QED
    BY <2>2, <2>3 DEF StdinInv
<1> QED
  BY <1>5, <1>6 DEF CtrlWrites

\* All is written: what the queue handed out is what the pipe was given.
LEMMA ControllerReturns ==
    ASSUME StdinInv, CtrlReturns
    PROVE  StdinInv'
<1> DEFINE o == ctrl.in.sid
<1>0. /\ stream \in [Op -> Stream] /\ ctrl.pc = "write" /\ ctrl.out = << >> /\ o \in Op
      /\ stdin \in [Op -> Seq(SeqNo)]
  BY CtrlFields DEF StdinInv, Typed, CtrlReturns
<1>1. stream' = [stream EXCEPT ![o].working = FALSE] /\ ctrl' = [pc |-> "idle"]
      /\ UNCHANGED <<op, inbox, stdin>>
  BY DEF CtrlReturns
<1>2. /\ stream' \in [Op -> Stream] /\ stream'[o].q = stream[o].q
      /\ stream'[o].writeEnd = stream[o].writeEnd /\ stream'[o].readEnd = stream[o].readEnd
      /\ \A p \in Op \ {o} : stream'[p] = stream[p]
  BY <1>0, <1>1 DEF Stream
<1>3. ctrl' \in Ctrl /\ ctrl'.pc = "idle"
  BY <1>1 DEF Ctrl
<1>4. /\ Len(ctrl.out) = 0 /\ \A p \in Op : Len(stdin[p]) \in Nat
  BY <1>0
<1>5. \A p \in Op : /\ (Open(p)' <=> Open(p)) /\ ~ Writing(p)' /\ (Writing(p) <=> p = o)
                    /\ stream'[p].q = stream[p].q
  BY <1>0, <1>2, <1>3 DEF Open, Writing
<1> HIDE DEF o
<1>6. Delivered'
  BY <1>1, <1>4, <1>5 DEF StdinInv, Delivered
<1> QED
  BY <1>1, <1>2, <1>3, <1>5, <1>6
  DEF StdinInv, Typed, OpenUntilOver, StdinInOrder, WritesWorking

LEMMA StdinStep == StdinInv /\ [Next]_vars => StdinInv'
<1> SUFFICES ASSUME StdinInv, [Next]_vars PROVE StdinInv'
  OBVIOUS
<1>1. ASSUME NEW i \in Input, CtrlReceives(i) PROVE StdinInv'
  <2>1. /\ UNCHANGED <<stream, op, stdin>> /\ inbox' \subseteq Input
        /\ ctrl' \in Ctrl /\ ctrl.pc # "write" /\ ctrl'.pc # "write"
    BY <1>1 DEF CtrlReceives, Ctrl, StdinInv, Typed
  <2> QED
    BY <2>1, ControllerMoves
<1>2. CASE CtrlLooksUp
  <2>0. ctrl.pc = "lookup" /\ ctrl \in [pc : {"lookup", "lock"}, in : Input]
    BY <1>2, CtrlFields DEF CtrlLooksUp, StdinInv, Typed
  <2>1. /\ UNCHANGED <<stream, op, stdin, inbox>>
        /\ ctrl' = [ctrl EXCEPT !.pc = "lock"] \/ ctrl' = [pc |-> "idle"]
    BY <1>2 DEF CtrlLooksUp
  <2>2. ctrl' \in Ctrl /\ ctrl'.pc # "write"
    BY <2>0, <2>1 DEF Ctrl
  <2> QED
    BY <2>0, <2>1, <2>2, ControllerMoves DEF StdinInv, Typed
<1>3. CASE UNCHANGED vars
  BY <1>3
  DEF vars, StdinInv, Typed, OpenUntilOver, WritesWorking, Delivered, StdinInOrder, Open, Writing
<1> QED
  BY <1>1, <1>2, <1>3, OperationStep, ControllerOffers, ControllerEnds, ControllerWrites,
     ControllerReturns
  DEF Next, CtrlStep

\* For any operations, input commands and pipe sizes, and in whatever order the
\* hub's input arrives and the operations end: a process reads the chunks of
\* its input in order and without a gap.
THEOREM InputInOrder == Spec => []StdinInOrder
<1>1. StdinInv => StdinInOrder
  BY DEF StdinInv
<1> QED
  BY <1>1, StdinInit, StdinStep, PTL DEF Spec

\* A process that runs has been written all that the queue handed out, unless the
\* controller is about to write it.
THEOREM InputComplete == Spec => []StdinComplete
<1>1. StdinInv => StdinComplete
  BY DEF StdinInv, StdinComplete, OpenUntilOver, Delivered, Writing
<1> QED
  BY <1>1, StdinInit, StdinStep, PTL DEF Spec

\* StreamManager.Del does not close the input of a process that is being written
\* to: it waits for the mark that the write keeps set.
THEOREM DelWaitsForWrite == Spec => NoCloseDuringWrite
<1>1. ASSUME StdinInv, Next
      PROVE  \A o \in Op \ Forward : stream[o].writeEnd /\ ~ stream'[o].writeEnd
                 => ~ (ctrl.pc = "write" /\ ctrl.in.sid = o)
  <2> SUFFICES ASSUME NEW o \in Op \ Forward, stream[o].writeEnd, ~ stream'[o].writeEnd
               PROVE  ~ Writing(o)
    BY DEF Writing
  <2>1. DelCloses(o)
    <3>1. stream \in [Op -> Stream] /\ ctrl \in Ctrl
      BY <1>1 DEF StdinInv, Typed
    <3>2. ASSUME NEW p \in Op, OpStep(p) \/ ProcessReads(p) \/ ReadEndFinalized(p), ~ DelCloses(p)
          PROVE  FALSE
      BY <3>1, <3>2
      DEF OpStep, AddLocks, Created, CreateFails, RunEnds, ForwardClosesPipe, DelLocks,
          ProcessReads, ReadEndFinalized, Stream
    <3>3. ASSUME CtrlStep PROVE FALSE
      <4>1. CASE CtrlOffers \/ CtrlEndsInput
        BY <3>1, <4>1, CtrlFields DEF CtrlOffers, CtrlEndsInput, Stream
      <4>2. CASE CtrlWrites \/ CtrlReturns
        <5>1. ctrl.in.sid \in Op
          BY <3>1, <4>2, CtrlFields DEF CtrlWrites, CtrlReturns
        <5>2. \/ stream' = [stream EXCEPT ![ctrl.in.sid].pipe = @ + 1] \/ stream' = stream
              \/ stream' = [stream EXCEPT ![ctrl.in.sid].working = FALSE]
          BY <4>2 DEF CtrlWrites, CtrlReturns
        <5> QED
          BY <3>1, <5>1, <5>2 DEF Stream
      <4>3. CASE CtrlLooksUp \/ \E i \in Input : CtrlReceives(i)
        BY <4>3 DEF CtrlLooksUp, CtrlReceives
      <4> QED
        BY <3>3, <4>1, <4>2, <4>3 DEF CtrlStep
    <3>4. PICK p \in Op : DelCloses(p)
      BY <1>1, <3>2, <3>3 DEF Next
    <3> QED
      BY <3>1, <3>4 DEF DelCloses, Stream
  <2> QED
    BY <1>1, <2>1 DEF DelCloses, StdinInv, WritesWorking
<1> QED
  BY <1>1, StdinInit, StdinStep, PTL DEF Spec, NoCloseDuringWrite
=============================================================================
