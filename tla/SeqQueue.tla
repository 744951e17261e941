------------------------------ MODULE SeqQueue ------------------------------
(***************************************************************************)
(* The queue that puts the input chunks of a stream (stdin of an exec or   *)
(* attach, data of a port-forward) back into order, as operators on a queue*)
(* value: its mutex makes every call one step of its user.  A chunk is its *)
(* sequence number, since a chunk sent again is the same data.             *)
(***************************************************************************)
EXTENDS Naturals, SequencesExt

CONSTANTS
    MaxUint64,   \* the largest number of its type
    SeqNo        \* the sequence numbers the sender uses

ASSUME SeqQueueAssumption ==
    /\ MaxUint64 \in Nat
    /\ SeqNo \subseteq 0 .. MaxUint64 - 1

NewSeqQueue == [next |-> 0, max |-> MaxUint64, data |-> << >>]

\* Of the buffered chunks, how many follow in sequence from number n: the loop
\* breaks at the first one that does not, or that is past the end.
FollowingPastEnd(q, n) ==
    Min({i \in 0 .. Len(q.data) :
            i < Len(q.data) => q.data[i + 1] # n + i})

FollowingSkipsGap(q, n) ==
    Min({i \in 0 .. Len(q.data) :
            i < Len(q.data) => q.data[i + 1] > q.max})

Following(q, n) ==
    Min({i \in 0 .. Len(q.data) :
            i < Len(q.data) => q.data[i + 1] # n + i \/ q.data[i + 1] > q.max})

\* The place of the first buffered chunk with a larger number.
InsertPlace(q, seq) ==
    Min({i \in 1 .. Len(q.data) : q.data[i] > seq} \cup {Len(q.data) + 1})

\* What a call leaves and returns: the queue, the chunks handed out, completed.
Offer(q, seq) ==
    IF q.next > q.max THEN [q |-> q, out |-> << >>, completed |-> TRUE]
    ELSE IF seq > q.max \/ seq < q.next
      THEN [q |-> q, out |-> << >>, completed |-> FALSE]
    ELSE IF seq = q.next
      THEN LET k == Following(q, seq + 1)
               n == seq + 1 + k
           IN [q |-> [q EXCEPT !.next = n, !.data = SubSeq(@, k + 1, Len(@))],
               out |-> <<seq>> \o SubSeq(q.data, 1, k),
               completed |-> n > q.max]
    ELSE LET i == InsertPlace(q, seq)
         IN IF i > 1 /\ q.data[i - 1] = seq
            THEN [q |-> q, out |-> << >>, completed |-> FALSE]
            ELSE [q |-> [q EXCEPT !.data = InsertAt(@, i, seq)],
                  out |-> << >>, completed |-> FALSE]

SetMaxSeqOffByOne(q, maxSeq) ==
    IF q.next >= maxSeq
    THEN [q |-> [q EXCEPT !.max = q.next], completed |-> TRUE]
    ELSE [q |-> [q EXCEPT !.max = maxSeq], completed |-> FALSE]

SetMaxSeq(q, maxSeq) ==
    IF q.next > maxSeq
    THEN [q |-> [q EXCEPT !.max = q.next], completed |-> TRUE]
    ELSE [q |-> [q EXCEPT !.max = maxSeq], completed |-> FALSE]
=============================================================================
