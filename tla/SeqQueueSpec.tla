---------------------------- MODULE SeqQueueSpec ----------------------------
(***************************************************************************)
(* One SeqQueue, driven with every order of calls.                         *)
(***************************************************************************)
EXTENDS SeqQueue

VARIABLES
    queue,      \* the queue
    got,        \* all chunks handed out so far, in the order they were
    completed   \* what the last call returned

sqVars == <<queue, got, completed>>

SQInit ==
    /\ queue = NewSeqQueue
    /\ got = << >>
    /\ completed = FALSE

OfferChunk(n) ==
    LET r == Offer(queue, n)
    IN /\ queue' = r.q
       /\ got' = got \o r.out
       /\ completed' = r.completed

EndAt(n) ==
    LET r == SetMaxSeq(queue, n)
    IN /\ queue' = r.q
       /\ completed' = r.completed
       /\ UNCHANGED got

SQNext == \E n \in SeqNo : OfferChunk(n) \/ EndAt(n)

SQSpec == SQInit /\ [][SQNext]_sqVars

\* The end is announced once, with a number that was not handed out yet.
InTime(n) == queue.max = MaxUint64 /\ n >= queue.next

NextInTime == \E n \in SeqNo : OfferChunk(n) \/ (InTime(n) /\ EndAt(n))

SpecInTime == SQInit /\ [][NextInTime]_sqVars
-----------------------------------------------------------------------------
SQTypeOK ==
    /\ queue \in [next : Nat, max : Nat, data : Seq(SeqNo)]
    /\ got \in Seq(SeqNo)
    /\ completed \in BOOLEAN

\* What came out of Offer is 0, 1, 2, ... whatever the order and the number of
\* times chunks came in, and the next one expected is the next one to come out.
InOrder ==
    /\ Len(got) = queue.next
    /\ \A i \in 1 .. Len(got) : got[i] = i - 1

\* The chunks waiting in the queue are sorted, without duplicates, and none of
\* them could have been handed out already, or else the stream is complete.
BufferSorted ==
    /\ \A i \in 1 .. Len(queue.data) :
          queue.data[i] > queue.next \/ queue.next > queue.max
    /\ \A i, j \in 1 .. Len(queue.data) : i < j => queue.data[i] < queue.data[j]

\* Once a call said the stream is complete, no later chunk is handed out: the
\* queue has stopped adding data.
StopsWhenCompleted == [][completed => got' = got]_sqVars

Ordered == INSTANCE OrderedStream WITH
    ChunkNo <- SeqNo,
    Unbounded <- MaxUint64,
    have <- (0 .. queue.next - 1) \cup ToSet(queue.data),
    out <- queue.next,
    last <- queue.max

\* The queue keeps the promise of an ordered stream when the end is announced
\* before it was passed.
ImplementsOrderedStream == Ordered!OSSpec
=============================================================================
