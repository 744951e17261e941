------------------------- MODULE StreamOutputProofs -------------------------
(***************************************************************************)
(* The messages of a stream operation, for any number of outputs and any   *)
(* amount of output: no two carry one number, no number is skipped, the    *)
(* one that ends the operation comes last and tells its result, and by     *)
(* then the output has been sent.                                          *)
(*                                                                         *)
(* The invariant says who may hold which number.  A goroutine that is      *)
(* about to swap has a number that is not above the counter; one that is   *)
(* about to send has a number below it that nobody else has and that no    *)
(* message carries; and once the operation numbers its last message all    *)
(* uploaders are done.                                                     *)
(***************************************************************************)
EXTENDS StreamOutput, TLAPS

Typed ==
    /\ seq \in Nat
    /\ pc \in [Proc -> Place]
    /\ loc \in [Proc -> Nat]
    /\ pipe \in [Uploader -> Nat]
    /\ held \in [Uploader -> Nat]
    /\ sent \in Seq(Message)

Numbers ==
    /\ \A p \in Proc : pc[p] = "cas" => loc[p] <= seq
    /\ \A p \in Proc : pc[p] = "send" => loc[p] < seq
    /\ \A p, q \in Proc : pc[p] = "send" /\ pc[q] = "send" /\ loc[p] = loc[q] => p = q
    /\ \A i \in 1 .. Len(sent) : sent[i].ack < seq
    /\ \A i \in 1 .. Len(sent) : \A p \in Proc : pc[p] = "send" => sent[i].ack # loc[p]

\* The uploaders are done before the operation numbers its last message.
Joined ==
    pc[Main] \in {"load", "cas", "send", "done"} =>
        \A u \in Uploader : pc[u] = "done"

\* Until it is done the operation itself has sent nothing; before it sends, the
\* counter has not moved on.
LastInOrder ==
    /\ pc[Main] # "done" => \A i \in 1 .. Len(sent) : sent[i].from # Main
    /\ pc[Main] = "send" => seq = loc[Main] + 1

IInv == Typed /\ Numbers /\ AcksDistinct /\ AcksGapFree /\ Joined /\ LastInOrder /\ EndComesLast
-----------------------------------------------------------------------------
LEMMA ProcFacts == Main \in Proc /\ Uploader \subseteq Proc /\ \A u \in Uploader : u # Main
BY StreamOutputAssumption DEF Proc

LEMMA AcksTyped ==
    ASSUME Typed
    PROVE  \A i \in 1 .. Len(sent) : sent[i].ack \in Nat
<1>1. \A i \in 1 .. Len(sent) : sent[i] \in Message
  BY DEF Typed
<1> QED
  BY <1>1 DEF Message

\* A step that numbers and sends nothing preserves the invariant: one process
\* moves between places outside nextSeq, or none does.
LEMMA QuietStep ==
    ASSUME IInv,
           UNCHANGED <<seq, loc, sent>>,
           pipe' \in [Uploader -> Nat], held' \in [Uploader -> Nat],
           session' = "up" => session = "up",
           NEW p \in Proc, NEW l \in Place,
           pc' = [pc EXCEPT ![p] = l] \/ pc' = pc,
           pc' # pc => pc[p] \notin {"cas", "send", "done"} /\ l \notin {"cas", "send"},
           Joined'
    PROVE  IInv'
<1> USE ProcFacts
<1>1. Typed'
  BY Zenon DEF IInv, Typed
<1>2. \A q \in Proc : /\ pc'[q] = "cas" <=> pc[q] = "cas"
                      /\ pc'[q] = "send" <=> pc[q] = "send"
                      /\ pc[q] = "done" => pc'[q] = "done"
  BY DEF IInv, Typed
<1>3. Numbers'
  BY <1>2 DEF IInv, Numbers
<1>4. AcksDistinct' /\ EndComesLast'
  BY DEF IInv, AcksDistinct, EndComesLast
<1>5. AcksGapFree'
  BY <1>2 DEF IInv, AcksGapFree
<1>6. LastInOrder'
  BY <1>2 DEF IInv, LastInOrder
<1> QED
  BY <1>1, <1>3, <1>4, <1>5, <1>6 DEF IInv

\* nextSeq loads the counter.
LEMMA LoadStep ==
    ASSUME IInv, NEW p \in Proc, NextSeqLoads(p)
    PROVE  IInv'
<1> USE ProcFacts DEF NextSeqLoads, Goto
<1>1. Typed'
  <2>1. pc' \in [Proc -> Place] /\ loc' \in [Proc -> Nat]
    BY DEF IInv, Typed, Place
  <2>2. UNCHANGED <<seq, pipe, held, sent>>
    OBVIOUS
  <2> QED
    BY <2>1, <2>2 DEF IInv, Typed
<1>2. /\ pc'[p] = "cas" /\ loc'[p] = seq
      /\ \A q \in Proc : q # p => pc'[q] = pc[q] /\ loc'[q] = loc[q]
  BY DEF IInv, Typed
<1>3. Numbers'
  BY <1>2 DEF IInv, Typed, Numbers
<1>4. AcksDistinct' /\ EndComesLast'
  BY DEF IInv, AcksDistinct, EndComesLast
<1>5. AcksGapFree'
  BY <1>2 DEF IInv, AcksGapFree
<1>6. Joined'
  BY <1>2 DEF IInv, Joined
<1>7. LastInOrder'
  BY <1>2 DEF IInv, LastInOrder
<1> QED
  BY <1>1, <1>3, <1>4, <1>5, <1>6, <1>7 DEF IInv

\* nextSeq swaps the counter, or tries the next number.
LEMMA SwapStep ==
    ASSUME IInv, NEW p \in Proc, NextSeqSwaps(p)
    PROVE  IInv'
<1> USE ProcFacts DEF NextSeqSwaps, Goto
<1>1. Typed'
  <2>1. pc' \in [Proc -> Place] /\ loc' \in [Proc -> Nat] /\ seq' \in Nat
    <3>1. pc \in [Proc -> Place] /\ loc \in [Proc -> Nat] /\ seq \in Nat
      BY DEF IInv, Typed
    <3>2. CASE loc[p] = seq
      BY <3>1, <3>2 DEF Place
    <3>3. CASE loc[p] # seq
      BY <3>1, <3>3
    <3> QED
      BY <3>2, <3>3
  <2>2. UNCHANGED <<pipe, held, sent>>
    OBVIOUS
  <2> QED
    BY <2>1, <2>2 DEF IInv, Typed
<1>2. CASE loc[p] = seq
  <2>1. /\ pc'[p] = "send" /\ loc' = loc /\ seq' = seq + 1 /\ loc[p] = seq /\ seq \in Nat
        /\ \A q \in Proc : q # p => pc'[q] = pc[q]
    BY <1>2 DEF IInv, Typed
  <2>2. Numbers'
    <3>1. \A q \in Proc : loc[q] \in Nat
      BY DEF IInv, Typed
    <3>2. \A i \in 1 .. Len(sent) : sent[i].ack \in Nat
      BY AcksTyped DEF IInv
    <3>3. \A q \in Proc : pc'[q] = "cas" => loc'[q] <= seq'
      BY <2>1, <3>1 DEF IInv, Numbers
    <3>4. \A q \in Proc : pc'[q] = "send" => loc'[q] < seq'
      BY <2>1, <3>1 DEF IInv, Numbers
    <3>5. \A q, r \in Proc : pc'[q] = "send" /\ pc'[r] = "send" /\ loc'[q] = loc'[r] => q = r
      BY <2>1, <3>1 DEF IInv, Numbers
    <3>6. \A i \in 1 .. Len(sent) : sent[i].ack < seq'
      BY <2>1, <3>2 DEF IInv, Numbers
    <3>7. \A i \in 1 .. Len(sent) : \A q \in Proc : pc'[q] = "send" => sent[i].ack # loc'[q]
      BY <2>1, <3>2 DEF IInv, Numbers
    <3> QED
      BY <3>3, <3>4, <3>5, <3>6, <3>7 DEF Numbers
  <2>3. AcksDistinct' /\ EndComesLast'
    BY DEF IInv, AcksDistinct, EndComesLast
  <2>4. AcksGapFree'
    <3> SUFFICES ASSUME session = "up", NEW k \in 0 .. seq
                 PROVE  \/ \E i \in 1 .. Len(sent) : sent[i].ack = k
                        \/ \E q \in Proc : pc'[q] = "send" /\ loc[q] = k
      BY <2>1 DEF AcksGapFree
    <3>1. CASE k = seq
      BY <2>1, <3>1
    <3>2. CASE k # seq
      <4>1. k \in 0 .. seq - 1
        BY <2>1, <3>2
      <4>2. \A q \in Proc : pc[q] = "send" => q # p /\ pc'[q] = "send"
        BY <2>1
      <4> QED
        BY <4>1, <4>2 DEF IInv, AcksGapFree
    <3> QED
      BY <3>1, <3>2
  <2>5. Joined'
    BY <2>1 DEF IInv, Joined
  <2>6. LastInOrder'
    <3>1. CASE p = Main
      BY <2>1, <3>1 DEF IInv, LastInOrder
    <3>2. CASE p # Main
      \* the uploaders still run, so the operation is not yet at its last message
      <4>1. p \in Uploader
        BY <3>2 DEF Proc
      <4>2. pc[Main] \notin {"load", "cas", "send", "done"}
        BY <4>1 DEF IInv, Joined
      <4> QED
        BY <2>1, <3>2, <4>2 DEF IInv, LastInOrder
    <3> QED
      BY <3>1, <3>2
  <2> QED
    BY <1>1, <2>2, <2>3, <2>4, <2>5, <2>6 DEF IInv
<1>3. CASE loc[p] # seq
  <2>1. /\ pc' = pc /\ seq' = seq /\ pc[p] = "cas" /\ loc'[p] = loc[p] + 1
        /\ \A q \in Proc : q # p => loc'[q] = loc[q]
    BY <1>3 DEF IInv, Typed
  <2>2. loc[p] + 1 <= seq
    BY <1>3, <2>1 DEF IInv, Typed, Numbers
  <2>3. Numbers'
    <3>1. \A q \in Proc : pc[q] = "send" => loc'[q] = loc[q]
      BY <2>1
    <3>2. \A q \in Proc : pc[q] = "cas" => loc'[q] <= seq
      BY <2>1, <2>2 DEF IInv, Numbers
    <3> QED
      BY <2>1, <3>1, <3>2 DEF IInv, Numbers
  <2>4. AcksDistinct' /\ EndComesLast' /\ Joined'
    BY <2>1 DEF IInv, AcksDistinct, EndComesLast, Joined
  <2>5. AcksGapFree'
    BY <2>1 DEF IInv, AcksGapFree
  <2>6. LastInOrder'
    BY <2>1 DEF IInv, LastInOrder
  <2> QED
    BY <1>1, <2>3, <2>4, <2>5, <2>6 DEF IInv
<1> QED
  BY <1>2, <1>3

\* A process sends the message it has numbered and is then past nextSeq; a message
\* of the operation itself is its last.
LEMMA SendStep ==
    ASSUME IInv, NEW p \in Proc, NEW m \in Message, NEW l \in Place,
           pc[p] = "send", pc' = [pc EXCEPT ![p] = l],
           p = Main => l = "done",
           p # Main => l \in {"wait", "done"},
           m.from = p, m.ack = loc[p],
           sent' = Append(sent, m),
           UNCHANGED <<seq, loc, pipe, session>>, held' \in [Uploader -> Nat]
    PROVE  IInv'
<1> USE ProcFacts
<1>1. Typed'
  BY DEF IInv, Typed
<1>2. pc'[p] = l /\ \A q \in Proc : q # p => pc'[q] = pc[q]
  BY DEF IInv, Typed
<1>3. /\ Len(sent) \in Nat /\ Len(sent') = Len(sent) + 1
      /\ \A i \in 1 .. Len(sent) : sent'[i] = sent[i]
      /\ sent'[Len(sent')] = m
  BY DEF IInv, Typed
<1>4. loc[p] \in Nat /\ seq \in Nat /\ loc[p] < seq
  BY DEF IInv, Typed, Numbers
<1>5. l \notin {"cas", "send"}
  OBVIOUS
<1>6. \A i \in 1 .. Len(sent') : i \in 1 .. Len(sent) \/ i = Len(sent')
  BY <1>3
<1>7. \A i \in 1 .. Len(sent) : sent[i].ack # loc[p]
  BY DEF IInv, Numbers
<1>8. Numbers'
  <2>1. \A q \in Proc : pc'[q] \in {"cas", "send"} => q # p /\ pc'[q] = pc[q]
    BY <1>2, <1>5
  <2>2. /\ \A q \in Proc : pc'[q] = "cas" => loc'[q] <= seq'
        /\ \A q \in Proc : pc'[q] = "send" => loc'[q] < seq'
        /\ \A q, r \in Proc : pc'[q] = "send" /\ pc'[r] = "send" /\ loc'[q] = loc'[r] => q = r
    BY <2>1 DEF IInv, Numbers
  <2>3. \A i \in 1 .. Len(sent') : sent'[i].ack < seq'
    BY <1>3, <1>4, <1>6 DEF IInv, Numbers
  <2>4. ASSUME NEW i \in 1 .. Len(sent'), NEW q \in Proc, pc'[q] = "send"
        PROVE  sent'[i].ack # loc'[q]
    <3>1. q # p /\ pc[q] = "send" /\ loc[q] # loc[p]
      BY <2>1, <2>4 DEF IInv, Numbers
    <3>2. i \in 1 .. Len(sent) => sent[i].ack # loc[q]
      BY <3>1 DEF IInv, Numbers
    <3> QED
      BY <1>3, <1>6, <3>1, <3>2
  <2> QED
    BY <2>2, <2>3, <2>4 DEF Numbers
<1>9. AcksDistinct'
  <2> SUFFICES ASSUME NEW i \in 1 .. Len(sent'), NEW j \in 1 .. Len(sent'),
                      sent'[i].ack = sent'[j].ack
               PROVE  i = j
    BY DEF AcksDistinct
  <2>1. CASE i \in 1 .. Len(sent) /\ j \in 1 .. Len(sent)
    BY <1>3, <2>1 DEF IInv, AcksDistinct
  <2>2. CASE i = Len(sent') \/ j = Len(sent')
    BY <1>3, <1>6, <1>7, <2>2
  <2> QED
    BY <1>6, <2>1, <2>2
<1>10. AcksGapFree'
  <2> SUFFICES ASSUME session = "up", NEW k \in 0 .. seq - 1
               PROVE  \/ \E i \in 1 .. Len(sent') : sent'[i].ack = k
                      \/ \E q \in Proc : pc'[q] = "send" /\ loc[q] = k
    BY DEF AcksGapFree
  <2>1. CASE \E i \in 1 .. Len(sent) : sent[i].ack = k
    <3>1. PICK i \in 1 .. Len(sent) : sent[i].ack = k
      BY <2>1
    <3>2. i \in 1 .. Len(sent') /\ sent'[i].ack = k
      BY <1>3, <3>1
    <3> QED
      BY <3>2
  <2>2. CASE \E q \in Proc : pc[q] = "send" /\ loc[q] = k
    <3>1. PICK q \in Proc : pc[q] = "send" /\ loc[q] = k
      BY <2>2
    <3>2. CASE q = p
      <4>1. Len(sent') \in 1 .. Len(sent') /\ sent'[Len(sent')].ack = k
        BY <1>3, <3>1, <3>2
      <4> QED
        BY <4>1
    <3>3. CASE q # p
      BY <1>2, <3>1, <3>3
    <3> QED
      BY <3>2, <3>3
  <2> QED
    BY <2>1, <2>2 DEF IInv, AcksGapFree
<1>11. Joined'
  <2>1. CASE p = Main
    BY <1>2, <2>1 DEF IInv, Joined
  <2>2. CASE p # Main
    <3>1. p \in Uploader
      BY <2>2 DEF Proc
    <3>2. pc[Main] \notin {"load", "cas", "send", "done"}
      BY <3>1 DEF IInv, Joined
    <3> QED
      BY <1>2, <2>2, <3>2 DEF Joined
  <2> QED
    BY <2>1, <2>2
<1>12. LastInOrder'
  <2>1. CASE p = Main
    BY <1>2, <2>1 DEF LastInOrder
  <2>2. CASE p # Main
    BY <1>2, <1>3, <1>6, <2>2 DEF IInv, LastInOrder
  <2> QED
    BY <2>1, <2>2
<1>13. EndComesLast'
  <2>1. pc[Main] # "done"
    <3>1. CASE p = Main
      BY <3>1
    <3>2. CASE p # Main
      <4>1. p \in Uploader
        BY <3>2 DEF Proc
      <4> QED
        BY <4>1 DEF IInv, Joined
    <3> QED
      BY <3>1, <3>2
  <2>2. \A i \in 1 .. Len(sent) : sent[i].from # Main
    BY <2>1 DEF IInv, LastInOrder
  <2> SUFFICES ASSUME NEW i \in 1 .. Len(sent'), sent'[i].from = Main
               PROVE  i = Len(sent') /\ \A j \in 1 .. i - 1 : sent'[j].ack < sent'[i].ack
    BY DEF EndComesLast
  <2>3. i = Len(sent') /\ p = Main
    BY <1>3, <1>6, <2>2
  <2>4. seq = loc[Main] + 1
    BY <2>3 DEF IInv, LastInOrder
  <2>5. ASSUME NEW j \in 1 .. i - 1
        PROVE  sent'[j].ack < sent'[i].ack
    <3>1. j \in 1 .. Len(sent)
      BY <1>3, <2>3
    <3>2. sent[j].ack \in Nat /\ sent[j].ack < seq /\ sent[j].ack # loc[p]
      BY <1>7, <3>1, AcksTyped DEF IInv, Numbers
    <3>3. sent'[j] = sent[j] /\ sent'[i].ack = loc[Main]
      BY <1>3, <2>3, <3>1
    <3> QED
      BY <1>4, <2>3, <2>4, <3>2, <3>3, SMTT(60)
  <2> QED
    BY <2>3, <2>5
<1> QED
  BY <1>1, <1>8, <1>9, <1>10, <1>11, <1>12, <1>13 DEF IInv

\* A message is dropped once its session is lost.
LEMMA DropStep ==
    ASSUME IInv, NEW p \in Proc, NEW l \in {"wait", "done"},
           pc[p] = "send", pc' = [pc EXCEPT ![p] = l],
           p = Main => l = "done",
           session # "up", UNCHANGED <<seq, loc, pipe, sent, session>>,
           held' \in [Uploader -> Nat]
    PROVE  IInv'
<1> USE ProcFacts
<1>1. Typed'
  BY DEF IInv, Typed, Place
<1>2. pc'[p] = l /\ \A q \in Proc : q # p => pc'[q] = pc[q]
  BY DEF IInv, Typed
<1>3. \A q \in Proc : pc'[q] \in {"cas", "send"} => pc'[q] = pc[q]
  BY <1>2
<1>4. Numbers' /\ AcksGapFree'
  BY <1>3 DEF IInv, Numbers, AcksGapFree
<1>5. AcksDistinct' /\ EndComesLast'
  BY DEF IInv, AcksDistinct, EndComesLast
<1>6. Joined'
  <2>1. CASE p = Main
    BY <1>2, <2>1 DEF IInv, Joined
  <2>2. CASE p # Main
    BY <1>2, <2>2 DEF IInv, Joined, Proc
  <2> QED
    BY <2>1, <2>2
<1>7. LastInOrder'
  BY <1>2 DEF IInv, LastInOrder
<1> QED
  BY <1>1, <1>4, <1>5, <1>6, <1>7 DEF IInv

\* An uploader that moves is not done, so the operation has not joined it.
LEMMA UploaderMoves ==
    ASSUME IInv, NEW u \in Uploader, NEW l \in Place,
           pc[u] \in {"wait", "read"}, l \notin {"cas", "send"},
           pc' = [pc EXCEPT ![u] = l], UNCHANGED <<seq, loc, sent, session>>,
           pipe' \in [Uploader -> Nat], held' \in [Uploader -> Nat]
    PROVE  IInv'
<1> USE ProcFacts
<1>1. pc[Main] \notin {"load", "cas", "send", "done"}
  BY DEF IInv, Joined
<1>2. pc'[Main] = pc[Main]
  BY DEF IInv, Typed
<1>3. Joined'
  BY <1>1, <1>2 DEF Joined
<1> QED
  BY <1>3, QuietStep, Zenon

\* The operation moves to a place before it numbers its last message, or joins.
LEMMA MainMoves ==
    ASSUME IInv, NEW l \in Place,
           pc[Main] \in {"start", "collect", "close", "join"}, l \notin {"cas", "send", "done"},
           l = "load" => \A u \in Uploader : pc[u] = "done",
           pc' = [pc EXCEPT ![Main] = l], UNCHANGED <<seq, loc, sent, pipe, held, session>>
    PROVE  IInv'
<1> USE ProcFacts
<1>1. pc'[Main] = l /\ \A u \in Uploader : pc'[u] = pc[u]
  BY DEF IInv, Typed
<1>2. Joined'
  BY <1>1 DEF Joined
<1>3. pipe' \in [Uploader -> Nat] /\ held' \in [Uploader -> Nat]
  BY DEF IInv, Typed
<1> QED
  BY <1>2, <1>3, QuietStep, Zenon

\* Nobody moves.
LEMMA NobodyMoves ==
    ASSUME IInv, UNCHANGED <<pc, seq, loc, sent>>, session' = "up" => session = "up",
           pipe' \in [Uploader -> Nat], held' \in [Uploader -> Nat]
    PROVE  IInv'
<1>1. Joined'
  BY DEF IInv, Joined
<1> QED
  BY <1>1, ProcFacts, QuietStep DEF Place

\* What the second read takes is at most what is in the pipe.
LEMMA SmallerOfTwo ==
    ASSUME NEW a \in Nat, NEW b \in Nat \ {0}
    PROVE  Min({a, b - 1}) \in Nat /\ Min({a, b - 1}) <= a
<1>1. b - 1 \in Nat
  OBVIOUS
<1>2. \E x \in {a, b - 1} : \A y \in {a, b - 1} : x <= y
  <2>1. CASE a <= b - 1
    BY <1>1, <2>1
  <2>2. CASE b - 1 <= a
    BY <1>1, <2>2
  <2> QED
    BY <1>1, <2>1, <2>2
<1>3. Min({a, b - 1}) \in {a, b - 1} /\ \A y \in {a, b - 1} : Min({a, b - 1}) <= y
  BY <1>2 DEF Min
<1> QED
  BY <1>1, <1>3

LEMMA UploadStepPreserves ==
    ASSUME IInv, NEW u \in Uploader, UploadStep(u)
    PROVE  IInv'
<1> USE ProcFacts DEF Goto
<1>1. pipe \in [Uploader -> Nat] /\ held \in [Uploader -> Nat]
  BY SMTT(60) DEF IInv, Typed
<1>2. CASE WaitForData(u)
  <2>1. pipe' \in [Uploader -> Nat] /\ held' \in [Uploader -> Nat]
    BY <1>1, <1>2 DEF WaitForData
  <2> QED
    BY <1>2, <2>1, UploaderMoves, Zenon DEF WaitForData, Place
<1>3. CASE WaitForDataStops(u)
  BY <1>1, <1>3, UploaderMoves, Zenon DEF WaitForDataStops, Place
<1>4. CASE ReadsData(u)
  <2> DEFINE n == Min({pipe[u], MaxPayload - 1})
  <2>1. n \in Nat /\ n <= pipe[u]
    BY <1>1, StreamOutputAssumption, SmallerOfTwo
  <2>2. pipe' = [pipe EXCEPT ![u] = @ - n] /\ held' = [held EXCEPT ![u] = 1 + n]
    BY <1>4 DEF ReadsData
  <2> HIDE DEF n
  <2>3. pipe' \in [Uploader -> Nat] /\ held' \in [Uploader -> Nat]
    BY <1>1, <2>1, <2>2
  <2> QED
    BY <1>4, <2>3, UploaderMoves, Zenon DEF ReadsData, Place
<1>5. CASE ReadsEnd(u)
  BY <1>1, <1>5, UploaderMoves, Zenon DEF ReadsEnd, Place
<1>6. CASE NextSeqLoads(u)
  BY <1>6, LoadStep
<1>7. CASE NextSeqSwaps(u)
  BY <1>7, SwapStep
<1>8. CASE UploadSends(u)
  <2>1. held' \in [Uploader -> Nat] /\ UNCHANGED <<seq, loc, pipe, session>> /\ pc[u] = "send"
    BY <1>1, <1>8 DEF UploadSends
  <2> DEFINE m == [from |-> u, ack |-> loc[u], kind |-> "data"]
  <2>2. m \in Message /\ m.from = u /\ m.ack = loc[u]
    BY <1>1 DEF IInv, Typed, Message
  <2>3. \/ sent' = Append(sent, m) /\ pc' = [pc EXCEPT ![u] = "wait"]
        \/ session # "up" /\ sent' = sent /\ pc' = [pc EXCEPT ![u] = "wait"]
        \/ session # "up" /\ sent' = sent /\ pc' = [pc EXCEPT ![u] = "done"]
    BY <1>8 DEF UploadSends, ctxDone
  <2> HIDE DEF m
  <2>4. CASE sent' = Append(sent, m) /\ pc' = [pc EXCEPT ![u] = "wait"]
    BY <2>1, <2>2, <2>4, SendStep, Zenon DEF Place
  <2>5. CASE session # "up" /\ sent' = sent /\ pc' = [pc EXCEPT ![u] = "wait"]
    BY <2>1, <2>5, DropStep, Zenon
  <2>6. CASE session # "up" /\ sent' = sent /\ pc' = [pc EXCEPT ![u] = "done"]
    BY <2>1, <2>6, DropStep, Zenon
  <2> QED
    BY <2>3, <2>4, <2>5, <2>6
<1> QED
  BY <1>2, <1>3, <1>4, <1>5, <1>6, <1>7, <1>8 DEF UploadStep

LEMMA MainStepPreserves ==
    ASSUME IInv, MainStep
    PROVE  IInv'
<1> USE ProcFacts DEF Goto
<1>1. pipe \in [Uploader -> Nat] /\ held \in [Uploader -> Nat]
  BY DEF IInv, Typed
<1>2. CASE Starts
  BY <1>2, MainMoves DEF Starts, Place
<1>3. CASE LogsStarts
  BY <1>1, <1>3, NobodyMoves DEF LogsStarts
<1>4. CASE Collects
  <2>1. CASE pc' = pc
    BY <1>1, <1>4, <2>1, NobodyMoves DEF Collects
  <2>2. CASE pc' = [pc EXCEPT ![Main] = "close"]
    BY <1>4, <2>2, MainMoves DEF Collects, Place
  <2> QED
    BY <1>4, <2>1, <2>2 DEF Collects
<1>5. CASE ClosesOutputs
  BY <1>5, MainMoves DEF ClosesOutputs, Place
<1>6. CASE Joins
  BY <1>6, MainMoves DEF Joins, Place
<1>7. CASE NextSeqLoads(Main)
  BY <1>7, LoadStep
<1>8. CASE NextSeqSwaps(Main)
  BY <1>8, SwapStep
<1>9. CASE LastSent
  <2>1. held' \in [Uploader -> Nat] /\ UNCHANGED <<seq, loc, pipe, session>> /\ pc[Main] = "send"
        /\ pc' = [pc EXCEPT ![Main] = "done"]
    BY <1>1, <1>9 DEF LastSent
  <2> DEFINE m == [from |-> Main, ack |-> loc[Main],
                   kind |-> IF err THEN "error" ELSE "fin"]
  <2>2. m \in Message /\ m.from = Main /\ m.ack = loc[Main]
    BY DEF IInv, Typed, Message
  <2>3. sent' = Append(sent, m) \/ (session # "up" /\ sent' = sent)
    BY <1>9, SMTT(60) DEF LastSent
  <2> HIDE DEF m
  <2>4. CASE sent' = Append(sent, m)
    BY <2>1, <2>2, <2>4, SendStep, Zenon DEF Place
  <2>5. CASE session # "up" /\ sent' = sent
    BY <2>1, <2>5, DropStep, Zenon
  <2> QED
    BY <2>3, <2>4, <2>5
<1> QED
  BY <1>2, <1>3, <1>4, <1>5, <1>6, <1>7, <1>8, <1>9 DEF MainStep

LEMMA StepPreserves == IInv /\ [Next]_vars => IInv'
<1> SUFFICES ASSUME IInv, [Next]_vars PROVE IInv'
  OBVIOUS
<1> USE ProcFacts
<1>1. pipe \in [Uploader -> Nat] /\ held \in [Uploader -> Nat]
  BY DEF IInv, Typed
<1>2. CASE MainStep
  BY <1>2, MainStepPreserves
<1>3. CASE LogsReturns
  BY <1>3, MainMoves DEF LogsReturns, Goto, Place
<1>4. CASE ExecReturns
  BY <1>1, <1>4, NobodyMoves DEF ExecReturns
<1>5. CASE ExecReports
  BY <1>1, <1>5, NobodyMoves DEF ExecReports
<1>6. CASE ExecCloses
  BY <1>1, <1>6, NobodyMoves DEF ExecCloses
<1>7. CASE SessionLost
  BY <1>1, <1>7, NobodyMoves DEF SessionLost
<1>8. CASE Cancelled
  BY <1>1, <1>8, NobodyMoves DEF Cancelled
<1>9. ASSUME NEW u \in Uploader, UploadStep(u)
      PROVE  IInv'
  BY <1>9, UploadStepPreserves
<1>10. ASSUME NEW u \in Uploader, Produces(u)
       PROVE  IInv'
  <2>1. pipe' \in [Uploader -> Nat]
    BY <1>1, <1>10 DEF Produces
  <2> QED
    BY <1>1, <1>10, <2>1, NobodyMoves DEF Produces
<1>11. CASE UNCHANGED vars
  BY <1>1, <1>11, NobodyMoves DEF vars
<1> QED
  BY <1>2, <1>3, <1>4, <1>5, <1>6, <1>7, <1>8, <1>9, <1>10, <1>11 DEF Next, ExecStep

LEMMA InitEstablishes == Init => IInv
<1> SUFFICES ASSUME Init PROVE IInv
  OBVIOUS
<1>1. Typed
  BY DEF Init, Typed, Place
<1>2. /\ sent = << >> /\ seq = 0 /\ pc[Main] = "start"
      /\ \A p \in Proc : pc[p] \in {"start", "wait"}
  BY ProcFacts DEF Init
<1> QED
  BY <1>1, <1>2 DEF IInv, Numbers, AcksDistinct, AcksGapFree, Joined, LastInOrder, EndComesLast

-----------------------------------------------------------------------------
(***************************************************************************)
(* The bytes of the outputs.  While the session is up every byte the       *)
(* command wrote is in the pipe, held by the uploader or in a message, and *)
(* an uploader stops only at an empty pipe that is closed.                 *)
(***************************************************************************)
UploadPlace == {"wait", "read", "load", "cas", "send", "done"}

\* How much an uploader holds between its two reads.
HeldOK ==
    \A u \in Uploader :
        /\ pc[u] \in UploadPlace
        /\ pc[u] = "wait" => held[u] = 0
        /\ pc[u] = "read" => held[u] = 1

Conserved ==
    session = "up" =>
        \A u \in Uploader :
            /\ produced[u] = pipe[u] + held[u] + uploaded[u]
            /\ pc[u] = "done" => pipe[u] = 0 /\ held[u] \in {0, 1} /\ ~writeEnd

BytesTyped == produced \in [Uploader -> Nat] /\ uploaded \in [Uploader -> Nat] /\ writeEnd \in BOOLEAN

BytesInv == BytesTyped /\ HeldOK /\ Conserved

LEMMA BytesInit == Init => BytesInv
<1> SUFFICES ASSUME Init PROVE BytesInv
  OBVIOUS
<1>1. \A u \in Uploader : pc[u] = "wait" /\ held[u] = 0 /\ pipe[u] = 0 /\ produced[u] = 0 /\ uploaded[u] = 0
  BY ProcFacts DEF Init
<1>2. BytesTyped
  <2>1. writeEnd \in BOOLEAN
    BY Zenon DEF Init
  <2> QED
    BY <2>1 DEF Init, BytesTyped
<1> QED
  BY <1>1, <1>2 DEF BytesInv, HeldOK, Conserved, UploadPlace

\* The operation moves, or nobody; output stays where it is.
LEMMA BytesStay ==
    ASSUME IInv, BytesInv, UNCHANGED <<pipe, held, produced, uploaded>>,
           writeEnd' = writeEnd \/ writeEnd' = FALSE, session' = "up" => session = "up",
           \A u \in Uploader : pc'[u] = pc[u]
    PROVE  BytesInv'
<1>1. writeEnd' \in BOOLEAN /\ (writeEnd' => writeEnd)
  <2>1. CASE writeEnd' = writeEnd
    BY <2>1 DEF BytesInv, BytesTyped
  <2>2. CASE writeEnd' = FALSE
    BY <2>2, Zenon
  <2> QED
    BY <2>1, <2>2
<1> QED
  BY <1>1 DEF BytesInv, BytesTyped, HeldOK, Conserved

\* One uploader moves bytes.
LEMMA BytesMove ==
    ASSUME IInv, BytesInv, NEW u \in Uploader, UploadStep(u)
    PROVE  BytesInv'
<1> USE ProcFacts DEF Goto
<1>1. /\ pc \in [Proc -> Place] /\ u \in Proc
      /\ pipe \in [Uploader -> Nat] /\ held \in [Uploader -> Nat]
      /\ produced \in [Uploader -> Nat] /\ uploaded \in [Uploader -> Nat]
      /\ MaxPayload \in Nat \ {0}
  BY StreamOutputAssumption DEF IInv, Typed, BytesInv, BytesTyped
<1>2. CASE WaitForData(u)
  BY <1>1, <1>2 DEF WaitForData, BytesInv, BytesTyped, HeldOK, Conserved, UploadPlace
<1>3. CASE WaitForDataStops(u)
  BY <1>1, <1>3 DEF WaitForDataStops, ctxDone, BytesInv, BytesTyped, HeldOK, Conserved, UploadPlace
<1>4. CASE ReadsData(u)
  <2> DEFINE n == Min({pipe[u], MaxPayload - 1})
  <2>1. n \in Nat /\ n <= pipe[u]
    BY <1>1, SmallerOfTwo
  <2>2. /\ pipe' = [pipe EXCEPT ![u] = @ - n] /\ held' = [held EXCEPT ![u] = 1 + n]
        /\ pc[u] = "read" /\ pc' = [pc EXCEPT ![u] = "load"]
        /\ UNCHANGED <<produced, uploaded, writeEnd, session>>
    BY <1>4 DEF ReadsData
  <2> HIDE DEF n
  <2> QED
    BY <1>1, <2>1, <2>2 DEF BytesInv, BytesTyped, HeldOK, Conserved, UploadPlace
<1>5. CASE ReadsEnd(u)
  BY <1>1, <1>5 DEF ReadsEnd, BytesInv, BytesTyped, HeldOK, Conserved, UploadPlace
<1>6. CASE NextSeqLoads(u)
  BY <1>1, <1>6 DEF NextSeqLoads, BytesInv, BytesTyped, HeldOK, Conserved, UploadPlace
<1>7. CASE NextSeqSwaps(u)
  BY <1>1, <1>7 DEF NextSeqSwaps, BytesInv, BytesTyped, HeldOK, Conserved, UploadPlace
<1>8. CASE UploadSends(u)
  <2>1. /\ held' = [held EXCEPT ![u] = 0] /\ pc[u] = "send"
        /\ UNCHANGED <<pipe, produced, writeEnd, session>>
        /\ \/ uploaded' = [uploaded EXCEPT ![u] = @ + held[u]] /\ pc' = [pc EXCEPT ![u] = "wait"]
           \/ session # "up" /\ uploaded' = uploaded /\ pc' = [pc EXCEPT ![u] = "wait"]
           \/ session # "up" /\ uploaded' = uploaded /\ pc' = [pc EXCEPT ![u] = "done"]
    BY <1>8 DEF UploadSends, ctxDone
  <2>2. BytesTyped' /\ HeldOK'
    BY <1>1, <2>1 DEF BytesInv, BytesTyped, HeldOK, UploadPlace
  <2>3. Conserved'
    BY <1>1, <2>1 DEF BytesInv, Conserved
  <2> QED
    BY <2>2, <2>3 DEF BytesInv
<1> QED
  BY <1>2, <1>3, <1>4, <1>5, <1>6, <1>7, <1>8 DEF UploadStep

LEMMA BytesStep == IInv /\ BytesInv /\ [Next]_vars => BytesInv'
<1> SUFFICES ASSUME IInv, BytesInv, [Next]_vars PROVE BytesInv'
  OBVIOUS
<1> USE ProcFacts
<1>0. pc \in [Proc -> Place]
  BY DEF IInv, Typed
<1>1. CASE MainStep
  BY <1>0, <1>1, BytesStay
  DEF MainStep, Starts, LogsStarts, Collects, ClosesOutputs, Joins, NextSeqLoads, NextSeqSwaps,
      LastSent, Goto
<1>2. CASE ExecStep \/ SessionLost \/ Cancelled \/ UNCHANGED vars
  BY <1>0, <1>2, BytesStay
  DEF ExecStep, LogsReturns, ExecReturns, ExecReports, ExecCloses, SessionLost, Cancelled, vars,
      Goto
<1>3. ASSUME NEW u \in Uploader, Produces(u) PROVE BytesInv'
  <2>1. /\ writeEnd /\ UNCHANGED <<pc, held, uploaded, writeEnd, session>>
        /\ pipe' = [pipe EXCEPT ![u] = @ + 1] /\ produced' = [produced EXCEPT ![u] = @ + 1]
    BY <1>3 DEF Produces
  <2>2. BytesTyped' /\ HeldOK'
    BY <2>1 DEF BytesInv, BytesTyped, HeldOK
  <2>3. Conserved'
    BY <2>1 DEF IInv, Typed, BytesInv, BytesTyped, HeldOK, Conserved
  <2> QED
    BY <2>2, <2>3 DEF BytesInv
<1>4. ASSUME NEW u \in Uploader, UploadStep(u) PROVE BytesInv'
  BY <1>4, BytesMove
<1> QED
  BY <1>1, <1>2, <1>3, <1>4 DEF Next
-----------------------------------------------------------------------------
(***************************************************************************)
(* The result of the operation.  While its session is up an error is on    *)
(* its way to the operation as long as the executing goroutine, the error  *)
(* channel or the operation itself has it.                                 *)
(***************************************************************************)
ResultTyped ==
    /\ pc[Main] \in Place \ {"wait", "read"}
    /\ errCh \in [buf : 0 .. 1, closed : BOOLEAN]
    /\ failed \in BOOLEAN /\ err \in BOOLEAN

OnItsWay ==
    session = "up" =>
        /\ pc[Main] = "start" =>
              ~failed /\ ~err /\ errCh.buf = 0 /\ ~errCh.closed /\ exec \in {"idle", "logs"}
        /\ pc[Main] = "collect" =>
              /\ failed <=> exec = "report" \/ errCh.buf = 1 \/ err
              /\ errCh.closed => exec = "done"
              /\ exec \in {"running", "report", "close", "done"}
        /\ pc[Main] \notin {"start", "collect"} =>
              (failed <=> err) /\ exec \in {"report", "close", "done"}

Told ==
    session = "up" /\ pc[Main] = "done" =>
        Len(sent) > 0 /\ sent[Len(sent)].kind = IF err THEN "error" ELSE "fin"

ResultInv == ResultTyped /\ OnItsWay /\ Told

LEMMA ResultInit == Init => ResultInv
<1> SUFFICES ASSUME Init PROVE ResultInv
  OBVIOUS
<1>1. failed \in BOOLEAN /\ err \in BOOLEAN /\ ~failed /\ ~err
  BY Zenon DEF Init
<1>2. pc[Main] = "start" /\ errCh = [buf |-> 0, closed |-> FALSE] /\ exec = "idle"
  BY ProcFacts DEF Init
<1>3. errCh \in [buf : 0 .. 1, closed : BOOLEAN] /\ errCh.buf = 0 /\ ~errCh.closed
  BY <1>2
<1> QED
  BY <1>1, <1>2, <1>3 DEF ResultInv, ResultTyped, OnItsWay, Told, Place

\* The executing goroutine and the session.
LEMMA ResultExec ==
    ASSUME IInv, ResultInv,
           \/ ExecReturns \/ ExecReports \/ ExecCloses \/ SessionLost \/ Cancelled \/ UNCHANGED vars
           \/ \E u \in Uploader : Produces(u)
    PROVE  ResultInv'
<1>1. CASE ExecReturns
  <2>1. /\ exec = "running" /\ UNCHANGED <<pc, errCh, err, sent, session>>
        /\ failed' \in BOOLEAN
        /\ (exec' = "close" /\ (failed' <=> failed)) \/ (exec' = "report" /\ failed')
    <3>1. CASE exec' = "close" /\ failed' = failed
      BY <1>1, <3>1 DEF ExecReturns, ResultInv, ResultTyped
    <3>2. CASE exec' = "report" /\ failed' = TRUE
      <4>1. failed' \in BOOLEAN /\ failed'
        BY <3>2, Zenon
      <4> QED
        BY <1>1, <3>2, <4>1 DEF ExecReturns
    <3> QED
      BY <1>1, <3>1, <3>2 DEF ExecReturns
  <2> QED
    BY <2>1 DEF ResultInv, ResultTyped, OnItsWay, Told
<1>2. CASE ExecReports
  <2>1. ResultTyped' /\ Told'
    BY <1>2 DEF ExecReports, ResultInv, ResultTyped, Told
  <2>2. OnItsWay'
    BY <1>2 DEF ExecReports, ctxDone, ResultInv, ResultTyped, OnItsWay
  <2> QED
    BY <2>1, <2>2 DEF ResultInv
<1>3. CASE ExecCloses
  BY <1>3 DEF ExecCloses, ResultInv, ResultTyped, OnItsWay, Told
<1>4. CASE SessionLost \/ Cancelled \/ UNCHANGED vars \/ \E u \in Uploader : Produces(u)
  BY <1>4 DEF SessionLost, Cancelled, vars, Produces, ResultInv, ResultTyped, OnItsWay, Told
<1> QED
  BY <1>1, <1>2, <1>3, <1>4

\* The operation.
LEMMA ResultMain ==
    ASSUME IInv, ResultInv, MainStep \/ LogsReturns
    PROVE  ResultInv'
<1> USE ProcFacts DEF Goto
<1>0. pc \in [Proc -> Place] /\ pc[Main] \in Place /\ sent \in Seq(Message)
  BY DEF IInv, Typed
<1>1. CASE Starts
  <2>1. /\ failed' \in BOOLEAN /\ err' \in BOOLEAN
        /\ \/ exec' = "running" /\ Goto(Main, "collect") /\ UNCHANGED <<failed, err>>
           \/ exec' \in {"done", "report"} /\ Goto(Main, "close") /\ failed' /\ err'
    BY <1>1, Zenon DEF Starts, ResultInv, ResultTyped
  <2>2. pc[Main] = "start" /\ UNCHANGED <<errCh, session>>
    BY <1>1 DEF Starts
  <2> QED
    BY <1>0, <2>1, <2>2 DEF ResultInv, ResultTyped, OnItsWay, Told, Place
<1>2. CASE LogsStarts
  BY <1>0, <1>2 DEF LogsStarts, ResultInv, ResultTyped, OnItsWay, Told, Place
<1>3. CASE LogsReturns
  BY <1>0, <1>3 DEF LogsReturns, ResultInv, ResultTyped, OnItsWay, Told, Place
<1>4. CASE Collects
  <2>1. ResultTyped' /\ Told'
    <3>1. err' \in BOOLEAN
      BY <1>4, Zenon DEF Collects, ResultInv, ResultTyped
    <3>2. /\ pc'[Main] \in {"collect", "close"} /\ UNCHANGED <<failed, session>>
          /\ errCh' = errCh \/ errCh' = [errCh EXCEPT !.buf = 0]
      BY <1>0, <1>4 DEF Collects
    <3> QED
      BY <3>1, <3>2 DEF ResultInv, ResultTyped, Told, Place
  <2>2. OnItsWay'
    BY <1>0, <1>4 DEF Collects, ctxDone, ResultInv, ResultTyped, OnItsWay
  <2> QED
    BY <2>1, <2>2 DEF ResultInv
<1>5. CASE ClosesOutputs \/ Joins
  BY <1>0, <1>5 DEF ClosesOutputs, Joins, ResultInv, ResultTyped, OnItsWay, Told, Place
<1>6. CASE NextSeqLoads(Main) \/ NextSeqSwaps(Main)
  BY <1>0, <1>6 DEF NextSeqLoads, NextSeqSwaps, ResultInv, ResultTyped, OnItsWay, Told, Place
<1>7. CASE LastSent
  <2> DEFINE m == [from |-> Main, ack |-> loc[Main], kind |-> IF err THEN "error" ELSE "fin"]
  <2>1. /\ pc[Main] = "send" /\ pc'[Main] = "done"
        /\ sent' = Append(sent, m) \/ session # "up"
        /\ UNCHANGED <<exec, errCh, failed, err, session>>
    BY <1>0, <1>7 DEF LastSent
  <2>2. m.kind = IF err THEN "error" ELSE "fin"
    OBVIOUS
  <2> HIDE DEF m
  <2>3. m \in Message => Told'
    BY <1>0, <2>1, <2>2 DEF Told
  <2>4. m \in Message
    BY DEF m, IInv, Typed, Message
  <2>5. ResultTyped' /\ OnItsWay'
    BY <1>0, <2>1 DEF ResultInv, ResultTyped, OnItsWay, Place
  <2> QED
    BY <2>3, <2>4, <2>5 DEF ResultInv
<1> QED
  BY <1>1, <1>2, <1>3, <1>4, <1>5, <1>6, <1>7 DEF MainStep

\* The uploaders: they are done before the last message is sent.
LEMMA ResultUpload ==
    ASSUME IInv, ResultInv, NEW u \in Uploader, UploadStep(u)
    PROVE  ResultInv'
<1> USE ProcFacts
<1>1. /\ pc'[Main] = pc[Main] /\ pc[u] # "done"
      /\ UNCHANGED <<exec, errCh, failed, err, session>>
  <2>1. pc \in [Proc -> Place]
    BY DEF IInv, Typed
  <2> QED
    BY <2>1
    DEF UploadStep, WaitForData, WaitForDataStops, ReadsData, ReadsEnd, NextSeqLoads, NextSeqSwaps,
        UploadSends, Goto
<1>2. pc[Main] # "done"
  BY <1>1 DEF IInv, Joined
<1> QED
  BY <1>1, <1>2 DEF ResultInv, ResultTyped, OnItsWay, Told

LEMMA ResultStep == IInv /\ ResultInv /\ [Next]_vars => ResultInv'
BY ResultExec, ResultMain, ResultUpload DEF Next, ExecStep
-----------------------------------------------------------------------------
\* The messages of a stream operation are numbered without a duplicate, whatever
\* the number of uploaders that call nextSeq at the same time.
THEOREM NumberedOnce == Spec => []AcksDistinct
<1>1. IInv => AcksDistinct
  BY DEF IInv
<1> QED
  BY <1>1, InitEstablishes, StepPreserves, PTL DEF Spec

\* They are numbered without a gap as long as the session is up.
THEOREM NumberedWithoutGap == Spec => []AcksGapFree
<1>1. IInv => AcksGapFree
  BY DEF IInv
<1> QED
  BY <1>1, InitEstablishes, StepPreserves, PTL DEF Spec

\* No output follows the message that ends an operation, and none has a larger
\* number, for any number of outputs.
THEOREM EndIsLast == Spec => []EndComesLast
<1>1. IInv => EndComesLast
  BY DEF IInv
<1> QED
  BY <1>1, InitEstablishes, StepPreserves, PTL DEF Spec

\* Whatever the number of outputs and the amount of output, and however its
\* uploaders interleave with the command and the operation: an operation whose
\* session stays up ends with its pipes empty and all but at most one byte of
\* each output sent.
THEOREM OutputIsDrained == Spec => []OutputDrained
<1> DEFINE Both == IInv /\ BytesInv
<1>1. Init => Both
  BY InitEstablishes, BytesInit
<1>2. Both /\ [Next]_vars => Both'
  BY StepPreserves, BytesStep
<1>3. Both => OutputDrained
  BY DEF IInv, Typed, Joined, BytesInv, BytesTyped, Conserved, OutputDrained, OverInSession
<1> QED
  BY <1>1, <1>2, <1>3, PTL DEF Spec

\* The last message of an operation whose session stays up says whether it
\* failed, however the report of an error races the end of the command and the
\* closing of errCh.
THEOREM EndTellsTheResult == Spec => []EndTellsResult
<1> DEFINE Both == IInv /\ ResultInv
<1>1. Init => Both
  BY InitEstablishes, ResultInit
<1>2. Both /\ [Next]_vars => Both'
  BY StepPreserves, ResultStep
<1>3. Both => EndTellsResult
  BY DEF IInv, Typed, ResultInv, ResultTyped, OnItsWay, Told, EndTellsResult, OverInSession
<1> QED
  BY <1>1, <1>2, <1>3, PTL DEF Spec
=============================================================================
