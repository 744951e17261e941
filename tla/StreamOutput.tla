---------------------------- MODULE StreamOutput ----------------------------
(***************************************************************************)
(* The output side of exec, attach and logs: handleStreamOperation with    *)
(* one uploader goroutine per output, the goroutine that executes the      *)
(* command and reports its error on errCh, and collectStreamErrors.  All   *)
(* messages of an operation are numbered by nextSeq from one counter.      *)
(*                                                                         *)
(* Output is counted in bytes, because the reader of a pipe takes its      *)
(* first byte alone and the bytes behind it with a second read.            *)
(***************************************************************************)
EXTENDS Naturals, Sequences, FiniteSetsExt

CONSTANTS
    Uploader,   \* the outputs in use: stdout, stderr
    Main,       \* the goroutine of the operation
    MaxData,    \* bound: bytes the command writes to one output
    MaxPayload  \* bytes of output one message holds

ASSUME StreamOutputAssumption ==
    /\ Main \notin Uploader
    /\ MaxData \in Nat
    /\ MaxPayload \in Nat \ {0}

Proc == Uploader \cup {Main}

VARIABLES
    seq,        \* the counter of nextSeq
    pc,         \* where the operation and its uploaders are
    loc,        \* the local variable of nextSeq, then the number it returned
    pipe,       \* output -> bytes in its pipe
    held,       \* output -> bytes its uploader has read and not sent
    produced,   \* output -> bytes the command wrote to it
    uploaded,   \* output -> bytes of it in the messages sent (a history variable)
    writeEnd,   \* the write ends of the pipes are open
    exec,       \* where the executing goroutine is
    errCh,      \* its error channel of capacity 1: [buf, closed]
    failed,     \* the command, or its start, failed
    err,        \* the operation has an error to report
    sent,       \* messages sent: [from, ack, kind]
    session     \* "up"; "lost": its channel is closed and messages are
                \*   dropped; "done": its context is cancelled as well

vars == <<seq, pc, loc, pipe, held, produced, uploaded, writeEnd, exec, errCh, failed, err,
          sent, session>>

Message == [from : Proc, ack : Nat, kind : {"data", "fin", "error"}]

Place == {"start", "collect", "close", "join", "wait", "read", "load", "cas", "send", "done"}

TypeOK ==
    /\ seq \in Nat
    /\ pc \in [Proc -> Place]
    /\ loc \in [Proc -> Nat]
    /\ pipe \in [Uploader -> 0 .. MaxData]
    /\ held \in [Uploader -> 0 .. MaxPayload]
    /\ produced \in [Uploader -> 0 .. MaxData] /\ uploaded \in [Uploader -> 0 .. MaxData]
    /\ writeEnd \in BOOLEAN
    /\ exec \in {"idle", "logs", "running", "report", "close", "done"}
    /\ errCh \in [buf : 0 .. 1, closed : BOOLEAN]
    /\ failed \in BOOLEAN /\ err \in BOOLEAN
    /\ sent \in Seq(Message)
    /\ session \in {"up", "lost", "done"}

\* createTerminalStream has started the uploaders.
Init ==
    /\ seq = 0
    /\ pc = [p \in Proc |-> IF p = Main THEN "start" ELSE "wait"]
    /\ loc = [p \in Proc |-> 0]
    /\ pipe = [u \in Uploader |-> 0] /\ held = [u \in Uploader |-> 0]
    /\ produced = [u \in Uploader |-> 0] /\ uploaded = [u \in Uploader |-> 0]
    /\ writeEnd = TRUE
    /\ exec = "idle"
    /\ errCh = [buf |-> 0, closed |-> FALSE]
    /\ failed = FALSE /\ err = FALSE
    /\ sent = << >>
    /\ session = "up"

Goto(p, l) == pc' = [pc EXCEPT ![p] = l]
ctxDone == session = "done"
-----------------------------------------------------------------------------
(***************************************************************************)
(* nextSeq: load the counter, then compare-and-swap until it succeeds.     *)
(***************************************************************************)
NextSeqLoads(p) ==
    /\ pc[p] = "load"
    /\ loc' = [loc EXCEPT ![p] = seq]
    /\ Goto(p, "cas")
    /\ UNCHANGED <<seq, pipe, held, produced, uploaded, writeEnd, exec, errCh, failed, err,
                   sent, session>>

NextSeqStores(p) ==
    /\ pc[p] = "cas"
    /\ seq' = loc[p] + 1
    /\ Goto(p, "send")
    /\ UNCHANGED <<loc, pipe, held, produced, uploaded, writeEnd, exec, errCh, failed, err,
                   sent, session>>

NextSeqReturnsNew(p) ==
    /\ pc[p] = "cas"
    /\ \/ loc[p] = seq /\ seq' = seq + 1 /\ loc' = [loc EXCEPT ![p] = seq + 1] /\ Goto(p, "send")
       \/ loc[p] # seq /\ seq' = seq /\ loc' = [loc EXCEPT ![p] = @ + 1] /\ pc' = pc
    /\ UNCHANGED <<pipe, held, produced, uploaded, writeEnd, exec, errCh, failed, err,
                   sent, session>>

NextSeqSwaps(p) ==
    /\ pc[p] = "cas"
    /\ \/ loc[p] = seq /\ seq' = seq + 1 /\ loc' = loc /\ Goto(p, "send")
       \/ loc[p] # seq /\ seq' = seq /\ loc' = [loc EXCEPT ![p] = @ + 1] /\ pc' = pc
    /\ UNCHANGED <<pipe, held, produced, uploaded, writeEnd, exec, errCh, failed, err,
                   sent, session>>
-----------------------------------------------------------------------------
(***************************************************************************)
(* The executing goroutine; its command writes to the output pipes.        *)
(***************************************************************************)
Produces(u) ==
    /\ exec \in {"running", "logs"} /\ writeEnd /\ produced[u] < MaxData
    /\ pipe' = [pipe EXCEPT ![u] = @ + 1]
    /\ produced' = [produced EXCEPT ![u] = @ + 1]
    /\ UNCHANGED <<seq, pc, loc, held, uploaded, writeEnd, exec, errCh, failed, err,
                   sent, session>>

ExecReturns ==
    /\ exec = "running"
    /\ \/ exec' = "close" /\ failed' = failed
       \/ exec' = "report" /\ failed' = TRUE
    /\ UNCHANGED <<seq, pc, loc, pipe, held, produced, uploaded, writeEnd, errCh, err,
                   sent, session>>

\* The error is sent, or dropped when the context is done.
ExecReports ==
    /\ exec = "report"
    /\ \/ errCh.buf = 0 /\ errCh' = [errCh EXCEPT !.buf = 1]
       \/ ctxDone /\ errCh' = errCh
    /\ exec' = "close"
    /\ UNCHANGED <<seq, pc, loc, pipe, held, produced, uploaded, writeEnd, failed, err,
                   sent, session>>

ExecLeavesOpen ==
    /\ exec = "close"
    /\ exec' = "done"
    /\ UNCHANGED <<seq, pc, loc, pipe, held, produced, uploaded, writeEnd, errCh, failed, err,
                   sent, session>>

ExecCloses ==
    /\ exec = "close"
    /\ errCh' = [errCh EXCEPT !.closed = TRUE]
    /\ exec' = "done"
    /\ UNCHANGED <<seq, pc, loc, pipe, held, produced, uploaded, writeEnd, failed, err,
                   sent, session>>
-----------------------------------------------------------------------------
(***************************************************************************)
(* An uploader waits for a first byte, reads what is behind it within its  *)
(* timeout, numbers the data and sends it.                                 *)
(***************************************************************************)
WaitForData(u) ==
    /\ pc[u] = "wait" /\ pipe[u] > 0
    /\ pipe' = [pipe EXCEPT ![u] = @ - 1]
    /\ held' = [held EXCEPT ![u] = 1]
    /\ Goto(u, "read")
    /\ UNCHANGED <<seq, loc, produced, uploaded, writeEnd, exec, errCh, failed, err,
                   sent, session>>

\* It stops at the end of the data, and when the context is done it may.
WaitForDataStopsAtClose(u) ==
    /\ pc[u] = "wait"
    /\ ~ writeEnd \/ ctxDone
    /\ Goto(u, "done")
    /\ UNCHANGED <<seq, loc, pipe, held, produced, uploaded, writeEnd, exec, errCh, failed, err,
                   sent, session>>

WaitForDataStops(u) ==
    /\ pc[u] = "wait"
    /\ (pipe[u] = 0 /\ ~ writeEnd) \/ ctxDone
    /\ Goto(u, "done")
    /\ UNCHANGED <<seq, loc, pipe, held, produced, uploaded, writeEnd, exec, errCh, failed, err,
                   sent, session>>

\* The second read finds data, or times out.
ReadsData(u) ==
    /\ pc[u] = "read" /\ (pipe[u] > 0 \/ writeEnd \/ MaxPayload = 1)
    /\ LET n == Min({pipe[u], MaxPayload - 1})
       IN /\ pipe' = [pipe EXCEPT ![u] = @ - n]
          /\ held' = [held EXCEPT ![u] = 1 + n]
    /\ Goto(u, "load")
    /\ UNCHANGED <<seq, loc, produced, uploaded, writeEnd, exec, errCh, failed, err,
                   sent, session>>

\* It finds the pipe closed: Read returns the first byte together with io.EOF,
\* and the uploader returns.
ReadsEnd(u) ==
    /\ pc[u] = "read" /\ pipe[u] = 0 /\ ~ writeEnd /\ MaxPayload > 1
    /\ Goto(u, "done")
    /\ UNCHANGED <<seq, loc, pipe, held, produced, uploaded, writeEnd, exec, errCh, failed, err,
                   sent, session>>

\* SendMsg drops the message of a session that is lost; it fails when the
\* context of the controller is done.
UploadSends(u) ==
    /\ pc[u] = "send"
    /\ held' = [held EXCEPT ![u] = 0]
    /\ \/ /\ sent' = Append(sent, [from |-> u, ack |-> loc[u], kind |-> "data"])
          /\ uploaded' = [uploaded EXCEPT ![u] = @ + held[u]]
          /\ Goto(u, "wait")
       \/ session # "up" /\ UNCHANGED <<sent, uploaded>> /\ Goto(u, "wait")
       \/ ctxDone /\ UNCHANGED <<sent, uploaded>> /\ Goto(u, "done")
    /\ UNCHANGED <<seq, loc, pipe, produced, writeEnd, exec, errCh, failed, err, session>>
-----------------------------------------------------------------------------
(***************************************************************************)
(* The operation.                                                          *)
(***************************************************************************)
\* Exec or Attach returned an error channel, or an error.  The goroutine of Attach
\* assigns its error to the result of Attach: a goroutine that fails at once may
\* have Attach return that error, too.
Starts ==
    /\ pc[Main] = "start" /\ exec = "idle"
    /\ \/ exec' = "running" /\ Goto(Main, "collect") /\ UNCHANGED <<failed, err>>
       \/ exec' \in {"done", "report"} /\ Goto(Main, "close") /\ failed' = TRUE /\ err' = TRUE
    /\ UNCHANGED <<seq, loc, pipe, held, produced, uploaded, writeEnd, errCh, sent, session>>

\* Logs writes the output itself and returns an error or none.
LogsStarts ==
    /\ pc[Main] = "start" /\ exec = "idle"
    /\ exec' = "logs"
    /\ UNCHANGED <<seq, pc, loc, pipe, held, produced, uploaded, writeEnd, errCh, failed, err,
                   sent, session>>

LogsReturns ==
    /\ pc[Main] = "start" /\ exec = "logs"
    /\ exec' = "done"
    /\ Goto(Main, "close")
    /\ \E e \in BOOLEAN : failed' = e /\ err' = e
    /\ UNCHANGED <<seq, loc, pipe, held, produced, uploaded, writeEnd, errCh, sent, session>>

\* The channel is closed, so there is no error.
CollectsOnce ==
    /\ pc[Main] = "collect"
    /\ \/ /\ errCh.buf > 0
          /\ errCh' = [errCh EXCEPT !.buf = 0] /\ err' = TRUE /\ pc' = pc
       \/ /\ errCh.closed
          /\ Goto(Main, "close") /\ UNCHANGED <<errCh, err>>
       \/ /\ ctxDone
          /\ err' = TRUE /\ Goto(Main, "close") /\ errCh' = errCh
    /\ UNCHANGED <<seq, loc, pipe, held, produced, uploaded, writeEnd, exec, failed,
                   sent, session>>

\* collectStreamErrors drains errCh until it is closed or the context is done.
Collects ==
    /\ pc[Main] = "collect"
    /\ \/ /\ errCh.buf > 0
          /\ errCh' = [errCh EXCEPT !.buf = 0] /\ err' = TRUE /\ pc' = pc
       \/ /\ errCh.buf = 0 /\ errCh.closed
          /\ Goto(Main, "close") /\ UNCHANGED <<errCh, err>>
       \/ /\ ctxDone
          /\ err' = TRUE /\ Goto(Main, "close") /\ errCh' = errCh
    /\ UNCHANGED <<seq, loc, pipe, held, produced, uploaded, writeEnd, exec, failed,
                   sent, session>>

\* The deferred closeStream.
ClosesOutputs ==
    /\ pc[Main] = "close"
    /\ writeEnd' = FALSE
    /\ Goto(Main, "join")
    /\ UNCHANGED <<seq, loc, pipe, held, produced, uploaded, exec, errCh, failed, err,
                   sent, session>>

JoinsNobody ==
    /\ pc[Main] = "join"
    /\ Goto(Main, "load")
    /\ UNCHANGED <<seq, loc, pipe, held, produced, uploaded, writeEnd, exec, errCh, failed, err,
                   sent, session>>

\* wg.Wait
Joins ==
    /\ pc[Main] = "join"
    /\ \A u \in Uploader : pc[u] = "done"
    /\ Goto(Main, "load")
    /\ UNCHANGED <<seq, loc, pipe, held, produced, uploaded, writeEnd, exec, errCh, failed, err,
                   sent, session>>

LastSent ==
    /\ pc[Main] = "send"
    /\ \/ sent' = Append(sent, [from |-> Main, ack |-> loc[Main],
                                kind |-> IF err THEN "error" ELSE "fin"])
       \/ session # "up" /\ sent' = sent
    /\ Goto(Main, "done")
    /\ UNCHANGED <<seq, loc, pipe, held, produced, uploaded, writeEnd, exec, errCh, failed, err,
                   session>>

SessionLost ==
    /\ session = "up"
    /\ session' = "lost"
    /\ UNCHANGED <<seq, pc, loc, pipe, held, produced, uploaded, writeEnd, exec, errCh, failed, err,
                   sent>>

Cancelled ==
    /\ session = "lost"
    /\ session' = "done"
    /\ UNCHANGED <<seq, pc, loc, pipe, held, produced, uploaded, writeEnd, exec, errCh, failed, err,
                   sent>>
-----------------------------------------------------------------------------
ExecStep == LogsReturns \/ ExecReturns \/ ExecReports \/ ExecCloses
UploadStep(u) ==
    \/ WaitForData(u) \/ WaitForDataStops(u) \/ ReadsData(u) \/ ReadsEnd(u)
    \/ NextSeqLoads(u) \/ NextSeqSwaps(u) \/ UploadSends(u)
MainStep ==
    \/ Starts \/ LogsStarts \/ Collects \/ ClosesOutputs \/ Joins
    \/ NextSeqLoads(Main) \/ NextSeqSwaps(Main) \/ LastSent

Next ==
    \/ MainStep \/ ExecStep \/ SessionLost \/ Cancelled
    \/ \E u \in Uploader : UploadStep(u) \/ Produces(u)

Spec == Init /\ [][Next]_vars

\* Goroutines that can go on do; the command need not end, or be cancelled.
FairSpec ==
    /\ Spec
    /\ WF_vars(MainStep) /\ WF_vars(ExecReports) /\ WF_vars(ExecCloses)
    /\ \A u \in Uploader : WF_vars(UploadStep(u))
-----------------------------------------------------------------------------
\* No two messages of an operation carry the same number, however the calls of
\* nextSeq by its goroutines interleave.
AcksDistinct ==
    \A i, j \in 1 .. Len(sent) : sent[i].ack = sent[j].ack => i = j

\* No number is skipped: each one that nextSeq gave out is that of a message sent
\* or about to be, so the hub can wait for the messages in order.
AcksGapFree ==
    session = "up" =>
        \A k \in 0 .. seq - 1 :
            \/ \E i \in 1 .. Len(sent) : sent[i].ack = k
            \/ \E p \in Proc : pc[p] = "send" /\ loc[p] = k

\* The message that ends the operation is sent after all output, and its number
\* is the largest: output never follows the end.
EndComesLast ==
    \A i \in 1 .. Len(sent) :
        sent[i].from = Main => /\ i = Len(sent)
                               /\ \A j \in 1 .. i - 1 : sent[j].ack < sent[i].ack

\* The operation is over and its session was up all the time.
OverInSession == pc[Main] = "done" /\ session = "up"

\* An operation ends with an error message exactly if it failed: an error that
\* races the closing of errCh is not overlooked.
EndTellsResult ==
    OverInSession => sent # << >> /\ sent[Len(sent)].kind = IF failed THEN "error" ELSE "fin"

\* When an operation ends nothing is left in its pipes, and all but a last byte
\* of each output, which ReadsEnd may drop, was sent.
OutputDrained ==
    OverInSession =>
        \A u \in Uploader : pipe[u] = 0 /\ uploaded[u] \in {produced[u] - 1, produced[u]}

\* All that a command wrote was sent to the hub: an uploader pipes the received
\* data to the extension hub.
OutputComplete == OverInSession => \A u \in Uploader : uploaded[u] = produced[u]

\* An operation whose command returned, or whose session is over, ends: neither
\* an error nobody reads nor an output nobody writes holds it.
OperationEnds == exec = "done" \/ (ctxDone /\ pc[Main] # "start") ~> pc[Main] = "done"
=============================================================================
