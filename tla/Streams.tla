------------------------------ MODULE Streams -------------------------------
(***************************************************************************)
(* The input side of stream operations (exec, attach, port-forward): the   *)
(* StreamManager, its lock and its streams, the goroutine of each operation*)
(* that adds its stream, runs and deletes it, and the controller, which    *)
(* handles input commands itself and so waits for them.                    *)
(*                                                                         *)
(* Input reaches a process through a pipe that holds PipeCap chunks.  The  *)
(* read end of an operation that is over is closed by its finalizer once   *)
(* nothing refers to it: the stream of a port-forward does.                *)
(***************************************************************************)
EXTENDS SeqQueue

CONSTANTS
    Op,        \* the stream operations, by session ID
    Forward,   \* those that are port-forwards; the others are exec or attach
    Input,     \* the input commands: [sid, seq, kind], kind "data" or "close"
    PipeCap,   \* chunks a pipe holds
    NoOp       \* the manager's lock is free

ASSUME StreamsAssumption ==
    /\ Forward \subseteq Op
    /\ Input \subseteq [sid : Op, seq : SeqNo, kind : {"data", "close"}]
    /\ PipeCap \in Nat \ {0}
    /\ NoOp \notin Op

VARIABLES
    lock,       \* who holds the manager's lock for writing
    sessions,   \* the operations whose stream is in the manager's map
    stream,     \* operation -> its stream
    op,         \* operation -> where its goroutine is
    ctrl,       \* the controller: where it is, its command, the chunks to write
    inbox,      \* input commands the hub has not sent yet
    stdin       \* operation -> the chunks written to its pipe, in order

vars == <<lock, sessions, stream, op, ctrl, inbox, stdin>>

NewStream ==
    [q |-> NewSeqQueue, working |-> FALSE, pipe |-> 0, writeEnd |-> TRUE, readEnd |-> TRUE]

OpPC == {"idle", "create", "run", "over", "close", "done"}

TypeOK ==
    /\ lock \in Op \cup {NoOp}
    /\ sessions \subseteq Op
    /\ stream \in [Op -> [q : [next : Nat, max : Nat, data : Seq(SeqNo)],
                          working : BOOLEAN, pipe : 0 .. PipeCap,
                          writeEnd : BOOLEAN, readEnd : BOOLEAN]]
    /\ op \in [Op -> OpPC]
    /\ ctrl.pc \in {"idle", "lookup", "lock", "write"}
    /\ inbox \subseteq Input
    /\ stdin \in [Op -> Seq(SeqNo)]

Init ==
    /\ lock = NoOp
    /\ sessions = {}
    /\ stream = [o \in Op |-> NewStream]
    /\ op = [o \in Op |-> "idle"]
    /\ ctrl = [pc |-> "idle"]
    /\ inbox = Input
    /\ stdin = [o \in Op |-> << >>]
-----------------------------------------------------------------------------
(***************************************************************************)
(* The goroutine of an operation.                                          *)
(***************************************************************************)
\* StreamManager.Add takes the lock and holds it while it starts the process.
AddLocks(o) ==
    /\ op[o] = "idle" /\ lock = NoOp
    /\ lock' = o
    /\ op' = [op EXCEPT ![o] = "create"]
    /\ UNCHANGED <<sessions, stream, ctrl, inbox, stdin>>

Created(o) ==
    /\ op[o] = "create"
    /\ op' = [op EXCEPT ![o] = "run"]
    /\ sessions' = sessions \cup {o}
    /\ lock' = NoOp
    /\ UNCHANGED <<stream, ctrl, inbox, stdin>>

CreateFailsLocked(o) ==
    /\ op[o] = "create"
    /\ op' = [op EXCEPT ![o] = "over"]
    /\ UNCHANGED <<lock, sessions, stream, ctrl, inbox, stdin>>

CreateFails(o) ==
    /\ op[o] = "create"
    /\ op' = [op EXCEPT ![o] = "over"]
    /\ lock' = NoOp
    /\ UNCHANGED <<sessions, stream, ctrl, inbox, stdin>>

ProcessReads(o) ==
    /\ op[o] = "run" /\ stream[o].pipe > 0
    /\ stream' = [stream EXCEPT ![o].pipe = @ - 1]
    /\ UNCHANGED <<lock, sessions, op, ctrl, inbox, stdin>>

\* The process ends or the context of the session is cancelled.
RunEnds(o) ==
    /\ op[o] = "run"
    /\ op' = [op EXCEPT ![o] = "over"]
    /\ UNCHANGED <<lock, sessions, stream, ctrl, inbox, stdin>>

ReadEndFinalized(o) ==
    /\ op[o] \in {"over", "close", "done"} /\ stream[o].readEnd
    /\ o \in Forward => o \notin sessions
    /\ stream' = [stream EXCEPT ![o].readEnd = FALSE]
    /\ UNCHANGED <<lock, sessions, op, ctrl, inbox, stdin>>

\* A port-forward closes the write end of its pipe before it deletes its stream.
ForwardClosesPipe(o) ==
    /\ op[o] = "over" /\ o \in Forward /\ stream[o].writeEnd
    /\ stream' = [stream EXCEPT ![o].writeEnd = FALSE]
    /\ UNCHANGED <<lock, sessions, op, ctrl, inbox, stdin>>

\* StreamManager.Del takes the lock and closes the stream, which spins until no
\* write is working on it.
DelLocks(o) ==
    /\ op[o] = "over" /\ lock = NoOp
    /\ o \in Forward => ~ stream[o].writeEnd
    /\ IF o \in sessions THEN lock' = o /\ op' = [op EXCEPT ![o] = "close"]
                         ELSE lock' = lock /\ op' = [op EXCEPT ![o] = "done"]
    /\ UNCHANGED <<sessions, stream, ctrl, inbox, stdin>>

DelClosesAtOnce(o) ==
    /\ op[o] = "close"
    /\ stream' = [stream EXCEPT ![o].writeEnd = FALSE]
    /\ sessions' = sessions \ {o}
    /\ lock' = NoOp
    /\ op' = [op EXCEPT ![o] = "done"]
    /\ UNCHANGED <<ctrl, inbox, stdin>>

DelCloses(o) ==
    /\ op[o] = "close" /\ ~ stream[o].working
    /\ stream' = [stream EXCEPT ![o].writeEnd = FALSE]
    /\ sessions' = sessions \ {o}
    /\ lock' = NoOp
    /\ op' = [op EXCEPT ![o] = "done"]
    /\ UNCHANGED <<ctrl, inbox, stdin>>
-----------------------------------------------------------------------------
(***************************************************************************)
(* The controller handles one input command after the other.               *)
(***************************************************************************)
CtrlReceives(i) ==
    /\ ctrl.pc = "idle" /\ i \in inbox
    /\ ctrl' = [pc |-> "lookup", in |-> i]
    /\ inbox' = inbox \ {i}
    /\ UNCHANGED <<lock, sessions, stream, op, stdin>>

\* StreamManager.Write looks the stream up under the read lock; without one the
\* input is dropped.
CtrlLooksUp ==
    /\ ctrl.pc = "lookup" /\ lock = NoOp
    /\ ctrl' = IF ctrl.in.sid \in sessions THEN [ctrl EXCEPT !.pc = "lock"] ELSE [pc |-> "idle"]
    /\ UNCHANGED <<lock, sessions, stream, op, inbox, stdin>>

CtrlOffersInput ==
    /\ ctrl.pc = "lock" /\ ctrl.in.kind = "data"
    /\ LET o == ctrl.in.sid
           r == Offer(stream[o].q, ctrl.in.seq)
       IN /\ ~ stream[o].working
          /\ stream' = [stream EXCEPT ![o].working = TRUE, ![o].q = r.q]
          /\ ctrl' = [pc |-> "write", in |-> ctrl.in, out |-> <<ctrl.in.seq>>]
    /\ UNCHANGED <<lock, sessions, op, inbox, stdin>>

\* stream.write spins until it may work on the stream.  The end of the input
\* is only recorded: the function returns and goes on working.
CtrlOffers ==
    /\ ctrl.pc = "lock" /\ ctrl.in.kind = "data"
    /\ LET o == ctrl.in.sid
           r == Offer(stream[o].q, ctrl.in.seq)
       IN /\ ~ stream[o].working
          /\ stream' = [stream EXCEPT ![o].working = TRUE, ![o].q = r.q]
          /\ ctrl' = [pc |-> "write", in |-> ctrl.in, out |-> r.out]
    /\ UNCHANGED <<lock, sessions, op, inbox, stdin>>

CtrlEndsInput ==
    /\ ctrl.pc = "lock" /\ ctrl.in.kind = "close"
    /\ LET o == ctrl.in.sid
       IN /\ ~ stream[o].working
          /\ stream' = [stream EXCEPT ![o].working = TRUE,
                                      ![o].q = SetMaxSeq(@, ctrl.in.seq).q]
    /\ ctrl' = [pc |-> "idle"]
    /\ UNCHANGED <<lock, sessions, op, inbox, stdin>>

CtrlWritesFirst ==
    /\ ctrl.pc = "write" /\ ctrl.out # << >>
    /\ LET o == ctrl.in.sid
       IN \/ /\ stream[o].writeEnd /\ stream[o].readEnd /\ stream[o].pipe < PipeCap
             /\ stream' = [stream EXCEPT ![o].pipe = @ + 1]
             /\ stdin' = [stdin EXCEPT ![o] = Append(@, Head(ctrl.out))]
          \/ /\ ~ (stream[o].writeEnd /\ stream[o].readEnd)
             /\ UNCHANGED <<stream, stdin>>
    /\ ctrl' = [ctrl EXCEPT !.out = << >>]
    /\ UNCHANGED <<lock, sessions, op, inbox>>

\* A write to the pipe waits for room, and fails when one of its ends is closed.
CtrlWrites ==
    /\ ctrl.pc = "write" /\ ctrl.out # << >>
    /\ LET o == ctrl.in.sid
       IN \/ /\ stream[o].writeEnd /\ stream[o].readEnd /\ stream[o].pipe < PipeCap
             /\ stream' = [stream EXCEPT ![o].pipe = @ + 1]
             /\ stdin' = [stdin EXCEPT ![o] = Append(@, Head(ctrl.out))]
          \/ /\ ~ (stream[o].writeEnd /\ stream[o].readEnd)
             /\ UNCHANGED <<stream, stdin>>
    /\ ctrl' = [ctrl EXCEPT !.out = Tail(@)]
    /\ UNCHANGED <<lock, sessions, op, inbox>>

CtrlReturnsWorking ==
    /\ ctrl.pc = "write" /\ ctrl.out = << >>
    /\ ctrl' = [pc |-> "idle"]
    /\ UNCHANGED <<lock, sessions, stream, op, inbox, stdin>>

CtrlReturns ==
    /\ ctrl.pc = "write" /\ ctrl.out = << >>
    /\ stream' = [stream EXCEPT ![ctrl.in.sid].working = FALSE]
    /\ ctrl' = [pc |-> "idle"]
    /\ UNCHANGED <<lock, sessions, op, inbox, stdin>>
-----------------------------------------------------------------------------
OpStep(o) ==
    \/ AddLocks(o) \/ Created(o) \/ CreateFails(o) \/ RunEnds(o)
    \/ ForwardClosesPipe(o) \/ DelLocks(o) \/ DelCloses(o)

CtrlStep ==
    \/ \E i \in Input : CtrlReceives(i)
    \/ CtrlLooksUp \/ CtrlOffers \/ CtrlEndsInput \/ CtrlWrites \/ CtrlReturns

Next ==
    \/ CtrlStep
    \/ \E o \in Op : OpStep(o) \/ ProcessReads(o) \/ ReadEndFinalized(o)

\* Every goroutine that can go on does, an operation ends some time, and so does
\* the life of a pipe nobody refers to.  A process need not read its input.
Fairness ==
    /\ WF_vars(CtrlStep)
    /\ \A o \in Op : WF_vars(OpStep(o)) /\ WF_vars(ReadEndFinalized(o))

Spec == Init /\ [][Next]_vars /\ Fairness
-----------------------------------------------------------------------------
\* A process gets the chunks of its input in order and without a gap, whatever
\* the order of the input commands.
StdinInOrder == \A o \in Op : \A n \in 1 .. Len(stdin[o]) : stdin[o][n] = n - 1

\* A process that runs has been written every chunk the queue handed out: none is
\* skipped while the pipe is full.
StdinComplete ==
    \A o \in Op : op[o] = "run" /\ ~ (ctrl.pc = "write" /\ ctrl.in.sid = o)
                    => Len(stdin[o]) = stream[o].q.next

\* Del never closes the input of a process in the middle of a write to it.
NoCloseDuringWrite ==
    [][\A o \in Op \ Forward : stream[o].writeEnd /\ ~ stream'[o].writeEnd
                        => ~ (ctrl.pc = "write" /\ ctrl.in.sid = o)]_vars

\* stream.write returns after SetMaxSeq without resetting working: from then on
\* Del spins on this stream with the manager's lock held.
EndRecorded == \E o \in Op : stream[o].q.max # MaxUint64

\* An operation that is over gets its stream closed and deleted, so no more input
\* is delivered to it; the end of some input is the one thing that prevents it.
OperationsEnd == \A o \in Op : op[o] = "over" ~> op[o] = "done" \/ EndRecorded

\* The controller returns from every input command, also when the process does
\* not read and its pipe is full, and handles the commands behind it; again only
\* the end of some input can hold it up.
ControllerGoesOn == ctrl.pc # "idle" ~> ctrl.pc = "idle" \/ EndRecorded
=============================================================================
