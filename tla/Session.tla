------------------------------ MODULE Session -------------------------------
(***************************************************************************)
(* The connection of the extension to the hub: the main loop of run with   *)
(* Client.ProcessNewStream and its reader and writer, the controller's     *)
(* handleSession, and the goroutines HandleCmd starts for runtime commands.*)
(* They meet in channel bundles; bundle b belongs to the b-th call of      *)
(* RefreshChannels.                                                        *)
(*                                                                         *)
(* Connecting may fail, a connection may be lost and the process may be    *)
(* told to stop, as far as Faults says.  The last of MaxSession sessions   *)
(* is neither refused nor lost.                                            *)
(***************************************************************************)
EXTENDS Naturals, Sequences

CONSTANTS
    Cmd,          \* the commands the hub sends, each of them once
    Async,        \* those handled in a goroutine of their own
    Unknown,      \* those answered with an error at once
    MaxSession,   \* bound: calls of RefreshChannels
    Faults        \* subset of {"dial", "lost", "shutdown"}

ASSUME SessionAssumption ==
    /\ Async \subseteq Cmd /\ Unknown \subseteq Cmd \ Async
    /\ MaxSession \in Nat \ {0}
    /\ Faults \subseteq {"dial", "lost", "shutdown"}

Bundle == 1 .. MaxSession
NoCmd == "no command"

VARIABLES
    run,        \* where the main loop is
    cur,        \* its current bundle (currentCB), 0 before the first
    refreshed,  \* the channel chRefreshed of capacity 1
    cmdCh, msgCh,   \* the channels of each bundle, of capacity 1
    cmdClosed, msgClosed, closed,   \* bundles whose channels were closed
    ctrl,       \* handleSession: where it is, its bundle and its command
    sendFunc,   \* the bundle of the stored message send function, 0 if none
    reader, writer,   \* the goroutines of ProcessNewStream
    hd,         \* command -> the goroutine handling it and its send bundle
    todo,       \* commands the hub has not sent yet
    answered,   \* commands the hub has an answer to
    lost,       \* bundles whose connection failed or broke
    refused,    \* history: a connection was refused while the process was to run
    appDone,    \* the application context is done
    crashed     \* a goroutine panicked, which ends the process

bundleVars == <<cmdCh, msgCh, cmdClosed, msgClosed, closed>>
envVars == <<todo, lost, refused, appDone>>
vars == <<run, cur, refreshed, bundleVars, ctrl, sendFunc, reader, writer, hd,
          answered, envVars, crashed>>

RunPC == {"top", "refresh", "close", "closeMsg", "dial", "wait", "exited"}
CtrlPC == {"select", "set", "range", "send", "close", "closeMsg", "done"}
HdPC == {"idle", "running", "send", "done"}

TypeOK ==
    /\ run \in RunPC /\ cur \in 0 .. MaxSession
    /\ refreshed \in {<< >>} \cup {<<b>> : b \in Bundle}
    /\ cmdCh \in [Bundle -> {<< >>} \cup {<<c>> : c \in Cmd}]
    /\ msgCh \in [Bundle -> {<< >>} \cup {<<c>> : c \in Cmd}]
    /\ cmdClosed \subseteq Bundle /\ msgClosed \subseteq Bundle /\ closed \subseteq Bundle
    /\ ctrl \in [pc : CtrlPC, cb : 0 .. MaxSession, cmd : Cmd \cup {NoCmd}]
    /\ sendFunc \in 0 .. MaxSession
    /\ reader \in [pc : {"decode", "ping", "put", "done"}, cmd : Cmd \cup {NoCmd}]
    /\ writer \in {"loop", "done"}
    /\ hd \in [Cmd -> [pc : HdPC, cb : 0 .. MaxSession]]
    /\ todo \subseteq Cmd /\ answered \subseteq Cmd /\ lost \subseteq Bundle
    /\ refused \in BOOLEAN /\ appDone \in BOOLEAN /\ crashed \in BOOLEAN

Init ==
    /\ run = "top" /\ cur = 0 /\ refreshed = << >>
    /\ cmdCh = [b \in Bundle |-> << >>] /\ msgCh = [b \in Bundle |-> << >>]
    /\ cmdClosed = {} /\ msgClosed = {} /\ closed = {}
    /\ ctrl = [pc |-> "select", cb |-> 0, cmd |-> NoCmd]
    /\ sendFunc = 0
    /\ reader = [pc |-> "done", cmd |-> NoCmd] /\ writer = "done"
    /\ hd = [c \in Cmd |-> [pc |-> "idle", cb |-> 0]]
    /\ todo = Cmd /\ answered = {} /\ lost = {}
    /\ refused = FALSE /\ appDone = FALSE /\ crashed = FALSE

\* The process runs until run returns or a goroutine panics.
Alive == ~ crashed /\ run # "exited"
-----------------------------------------------------------------------------
(***************************************************************************)
(* The main loop and RefreshChannels.                                      *)
(***************************************************************************)
Top ==
    /\ Alive
    /\ run = "top"
    /\ run' = IF appDone THEN "exited" ELSE "refresh"
    /\ UNCHANGED <<cur, refreshed, bundleVars, ctrl, sendFunc, reader, writer,
                   hd, answered, envVars, crashed>>

\* The select takes ctx.Done: nil channels, with which dialing fails at once.
RefreshDone ==
    /\ Alive
    /\ run = "refresh"
    /\ appDone
    /\ run' = "top"
    /\ UNCHANGED <<cur, refreshed, bundleVars, ctrl, sendFunc, reader, writer,
                   hd, answered, envVars, crashed>>

RefreshKeepsOld ==
    /\ Alive
    /\ run = "refresh"
    /\ refreshed = << >> /\ cur < MaxSession
    /\ refreshed' = <<cur + 1>>
    /\ cur' = cur + 1
    /\ run' = "dial"
    /\ UNCHANGED <<bundleVars, ctrl, sendFunc, reader, writer,
                   hd, answered, envVars, crashed>>

Refresh ==
    /\ Alive
    /\ run = "refresh"
    /\ refreshed = << >> /\ cur < MaxSession
    /\ refreshed' = <<cur + 1>>
    /\ cur' = IF cur = 0 THEN 1 ELSE cur
    /\ run' = IF cur = 0 THEN "dial" ELSE "close"
    /\ UNCHANGED <<bundleVars, ctrl, sendFunc, reader, writer,
                   hd, answered, envVars, crashed>>

\* The two steps of channelBundle.Close; closing a closed channel panics.
CloseDone(b) ==
    /\ closed' = closed \cup {b}
    /\ crashed' = (b \in closed)
    /\ UNCHANGED <<cmdCh, msgCh, cmdClosed, msgClosed>>

CloseMsgCh(b) ==
    /\ msgClosed' = msgClosed \cup {b}
    /\ crashed' = (b \in msgClosed)
    /\ UNCHANGED <<cmdCh, msgCh, cmdClosed, closed>>

RefreshClose ==
    /\ Alive
    /\ \/ run = "close" /\ run' = "closeMsg" /\ CloseDone(cur) /\ cur' = cur
       \/ run = "closeMsg" /\ run' = "dial" /\ CloseMsgCh(cur) /\ cur' = cur + 1
    /\ UNCHANGED <<refreshed, ctrl, sendFunc, reader, writer, hd, answered, envVars>>

\* createConnection and the registration message.
DialFails ==
    /\ Alive
    /\ run = "dial"
    /\ appDone \/ ("dial" \in Faults /\ cur < MaxSession)
    /\ run' = "top"
    /\ lost' = lost \cup {cur}
    /\ refused' = (refused \/ ~ appDone)
    /\ UNCHANGED <<cur, refreshed, bundleVars, ctrl, sendFunc, reader, writer,
                   hd, answered, todo, appDone, crashed>>

Dial ==
    /\ Alive
    /\ run = "dial"
    /\ run' = "wait"
    /\ reader' = [pc |-> "decode", cmd |-> NoCmd]
    /\ writer' = "loop"
    /\ UNCHANGED <<cur, refreshed, bundleVars, ctrl, sendFunc, hd, answered,
                   envVars, crashed>>

StreamEnds ==
    /\ Alive
    /\ run = "wait"
    /\ reader.pc = "done" /\ writer = "done"
    /\ run' = "top"
    /\ UNCHANGED <<cur, refreshed, bundleVars, ctrl, sendFunc, reader, writer,
                   hd, answered, envVars, crashed>>
-----------------------------------------------------------------------------
(***************************************************************************)
(* Reader and writer of a stream.                                          *)
(***************************************************************************)
\* The context of their errgroup.
StreamDone == appDone \/ reader.pc = "done" \/ writer = "done"

ConnUpAfterWriter == run = "wait" /\ cur \notin lost

ConnUp == run = "wait" /\ cur \notin lost /\ writer # "done"

DecodeCmd ==
    /\ Alive
    /\ reader.pc = "decode" /\ ConnUp
    /\ \E c \in todo :
          /\ reader' = [pc |-> "put", cmd |-> c]
          /\ todo' = todo \ {c}
    /\ UNCHANGED <<run, cur, refreshed, bundleVars, ctrl, sendFunc, writer, hd,
                   answered, lost, refused, appDone, crashed>>

DecodePing ==
    /\ Alive
    /\ reader.pc = "decode" /\ ConnUp
    /\ reader' = [reader EXCEPT !.pc = "ping"]
    /\ UNCHANGED <<run, cur, refreshed, bundleVars, ctrl, sendFunc, writer, hd,
                   answered, envVars, crashed>>

\* The decoder fails or the context is done: the reader closes its channels.
ReaderReturnsOpen ==
    /\ Alive
    /\ \/ reader.pc = "decode" /\ ~ ConnUp
       \/ reader.pc \in {"ping", "put"} /\ StreamDone
    /\ reader' = [pc |-> "done", cmd |-> NoCmd]
    /\ UNCHANGED <<run, cur, refreshed, bundleVars, ctrl, sendFunc,
                   writer, hd, answered, envVars, crashed>>

ReaderReturns ==
    /\ Alive
    /\ \/ reader.pc = "decode" /\ ~ ConnUp
       \/ reader.pc \in {"ping", "put"} /\ StreamDone
    /\ reader' = [pc |-> "done", cmd |-> NoCmd]
    /\ cmdClosed' = cmdClosed \cup {cur}
    /\ UNCHANGED <<run, cur, refreshed, cmdCh, msgCh, msgClosed, closed, ctrl,
                   sendFunc, writer, hd, answered, envVars, crashed>>

PutCmd ==
    /\ Alive
    /\ reader.pc = "put"
    /\ cmdCh[cur] = << >>
    /\ cmdCh' = [cmdCh EXCEPT ![cur] = <<reader.cmd>>]
    /\ reader' = [pc |-> "decode", cmd |-> NoCmd]
    /\ UNCHANGED <<run, cur, refreshed, msgCh, cmdClosed, msgClosed, closed, ctrl,
                   sendFunc, writer, hd, answered, envVars, crashed>>

\* keepaliveCh is unbuffered: the writer takes the ping from the reader.
Pong ==
    /\ Alive
    /\ reader.pc = "ping" /\ writer = "loop"
    /\ reader' = [reader EXCEPT !.pc = "decode"]
    /\ writer' = IF ConnUp THEN "loop" ELSE "done"
    /\ UNCHANGED <<run, cur, refreshed, bundleVars, ctrl, sendFunc, hd, answered,
                   envVars, crashed>>

WriteMsg ==
    /\ Alive
    /\ writer = "loop"
    /\ msgCh[cur] # << >>
    /\ msgCh' = [msgCh EXCEPT ![cur] = << >>]
    /\ answered' = IF ConnUp THEN answered \cup {Head(msgCh[cur])} ELSE answered
    /\ writer' = IF ConnUp THEN "loop" ELSE "done"
    /\ UNCHANGED <<run, cur, refreshed, cmdCh, cmdClosed, msgClosed, closed, ctrl,
                   sendFunc, reader, hd, envVars, crashed>>

\* keepaliveCh or msgCh is closed or the context is done; the writer closes the
\* connection.
WriterReturns ==
    /\ Alive
    /\ writer = "loop"
    /\ StreamDone \/ (cur \in msgClosed /\ msgCh[cur] = << >>)
    /\ writer' = "done"
    /\ UNCHANGED <<run, cur, refreshed, bundleVars, ctrl, sendFunc, reader, hd,
                   answered, envVars, crashed>>
-----------------------------------------------------------------------------
(***************************************************************************)
(* sendMsg of bundle b with message m: a select between the closed channel,*)
(* the message channel and the application context, which picks any case   *)
(* that is ready.  Sending on a closed message channel panics.  A caller   *)
(* the select has put to sleep is woken by the close of `closed`; one that *)
(* comes to it later finds both channels closed.                           *)
(***************************************************************************)
SendDropped(b) == b \in closed /\ UNCHANGED <<bundleVars, crashed>>

SendPut(b, m) ==
    /\ b \notin msgClosed /\ msgCh[b] = << >>
    /\ msgCh' = [msgCh EXCEPT ![b] = <<m>>]
    /\ UNCHANGED <<cmdCh, cmdClosed, msgClosed, closed, crashed>>

SendPanics(b) == b \in msgClosed /\ crashed' = TRUE /\ UNCHANGED bundleVars

SendDone == appDone /\ UNCHANGED <<bundleVars, crashed>>
-----------------------------------------------------------------------------
(***************************************************************************)
(* handleSession.                                                          *)
(***************************************************************************)
CtrlTake ==
    /\ Alive
    /\ ctrl.pc = "select"
    /\ refreshed # << >>
    /\ ctrl' = [pc |-> "set", cb |-> Head(refreshed), cmd |-> NoCmd]
    /\ refreshed' = << >>
    /\ UNCHANGED <<run, cur, bundleVars, sendFunc, reader, writer, hd, answered,
                   envVars, crashed>>

CtrlQuits ==
    /\ Alive
    /\ ctrl.pc = "select"
    /\ appDone
    /\ ctrl' = [ctrl EXCEPT !.pc = "done"]
    /\ UNCHANGED <<run, cur, refreshed, bundleVars, sendFunc, reader, writer, hd,
                   answered, envVars, crashed>>

CtrlSetsOnce ==
    /\ Alive
    /\ ctrl.pc = "set"
    /\ sendFunc' = IF sendFunc = 0 THEN ctrl.cb ELSE sendFunc
    /\ ctrl' = [ctrl EXCEPT !.pc = "range"]
    /\ UNCHANGED <<run, cur, refreshed, bundleVars, reader, writer, hd, answered,
                   envVars, crashed>>

CtrlSets ==
    /\ Alive
    /\ ctrl.pc = "set"
    /\ sendFunc' = ctrl.cb
    /\ ctrl' = [ctrl EXCEPT !.pc = "range"]
    /\ UNCHANGED <<run, cur, refreshed, bundleVars, reader, writer, hd, answered,
                   envVars, crashed>>

\* HandleCmd: a goroutine for a runtime command, an error for an unknown one,
\* nothing to answer for stream input.
CtrlHandles ==
    /\ Alive
    /\ ctrl.pc = "range"
    /\ cmdCh[ctrl.cb] # << >>
    /\ LET c == Head(cmdCh[ctrl.cb])
       IN /\ cmdCh' = [cmdCh EXCEPT ![ctrl.cb] = << >>]
          /\ ctrl' = IF c \in Unknown THEN [ctrl EXCEPT !.pc = "send", !.cmd = c] ELSE ctrl
          /\ hd' = IF c \in Async THEN [hd EXCEPT ![c].pc = "running"] ELSE hd
    /\ UNCHANGED <<run, cur, refreshed, msgCh, cmdClosed, msgClosed, closed,
                   sendFunc, reader, writer, answered, envVars, crashed>>

CtrlLoopEndsAtClose ==
    /\ Alive
    /\ ctrl.pc = "range"
    /\ ctrl.cb \in cmdClosed
    /\ ctrl' = [ctrl EXCEPT !.pc = "select"]
    /\ UNCHANGED <<run, cur, refreshed, bundleVars, sendFunc, reader, writer, hd,
                   answered, envVars, crashed>>

CtrlLoopEnds ==
    /\ Alive
    /\ ctrl.pc = "range"
    /\ cmdCh[ctrl.cb] = << >> /\ ctrl.cb \in cmdClosed
    /\ ctrl' = [ctrl EXCEPT !.pc = "select"]
    /\ UNCHANGED <<run, cur, refreshed, bundleVars, sendFunc, reader, writer, hd,
                   answered, envVars, crashed>>

\* The error of an aborted send makes the session close its bundle.
CtrlSends ==
    /\ Alive
    /\ ctrl.pc = "send"
    /\ \/ /\ SendDropped(ctrl.cb) \/ SendPut(ctrl.cb, ctrl.cmd) \/ SendPanics(ctrl.cb)
          /\ ctrl' = [ctrl EXCEPT !.pc = "range", !.cmd = NoCmd]
       \/ SendDone /\ ctrl' = [ctrl EXCEPT !.pc = "close", !.cmd = NoCmd]
    /\ UNCHANGED <<run, cur, refreshed, sendFunc, reader, writer, hd, answered, envVars>>

CtrlCloses ==
    /\ Alive
    /\ \/ ctrl.pc = "close" /\ CloseDone(ctrl.cb) /\ ctrl' = [ctrl EXCEPT !.pc = "closeMsg"]
       \/ ctrl.pc = "closeMsg" /\ CloseMsgCh(ctrl.cb) /\ ctrl' = [ctrl EXCEPT !.pc = "select"]
    /\ UNCHANGED <<run, cur, refreshed, sendFunc, reader, writer, hd, answered, envVars>>
-----------------------------------------------------------------------------
(***************************************************************************)
(* The goroutine of a runtime command: SendMsg loads the stored function   *)
(* when the command is done, and calls it.                                 *)
(***************************************************************************)
HandlerLoads(c) ==
    /\ Alive
    /\ hd[c].pc = "running"
    /\ hd' = [hd EXCEPT ![c] = [pc |-> "send", cb |-> sendFunc]]
    /\ UNCHANGED <<run, cur, refreshed, bundleVars, ctrl, sendFunc, reader, writer,
                   answered, envVars, crashed>>

HandlerSends(c) ==
    /\ Alive
    /\ hd[c].pc = "send"
    /\ \/ SendDropped(hd[c].cb) \/ SendPut(hd[c].cb, c)
       \/ SendPanics(hd[c].cb) \/ SendDone
    /\ hd' = [hd EXCEPT ![c].pc = "done"]
    /\ UNCHANGED <<run, cur, refreshed, ctrl, sendFunc, reader, writer, answered, envVars>>
-----------------------------------------------------------------------------
ConnLost ==
    /\ Alive
    /\ "lost" \in Faults /\ ConnUp /\ cur < MaxSession
    /\ lost' = lost \cup {cur}
    /\ UNCHANGED <<run, cur, refreshed, bundleVars, ctrl, sendFunc, reader, writer,
                   hd, answered, todo, refused, appDone, crashed>>

ShutdownAsked ==
    /\ Alive
    /\ "shutdown" \in Faults /\ ~ appDone
    /\ appDone' = TRUE
    /\ UNCHANGED <<run, cur, refreshed, bundleVars, ctrl, sendFunc, reader, writer,
                   hd, answered, todo, lost, refused, crashed>>

MainStep == Top \/ RefreshDone \/ Refresh \/ RefreshClose \/ DialFails \/ Dial \/ StreamEnds
ReaderStep == DecodeCmd \/ ReaderReturns \/ PutCmd
CtrlStep == CtrlTake \/ CtrlQuits \/ CtrlSets \/ CtrlHandles \/ CtrlLoopEnds \/ CtrlSends \/ CtrlCloses
HandlerStep(c) == HandlerLoads(c) \/ HandlerSends(c)

Next ==
    \/ MainStep \/ ReaderStep \/ DecodePing \/ Pong \/ WriteMsg \/ WriterReturns
    \/ CtrlStep \/ \E c \in Async : HandlerStep(c)
    \/ ConnLost \/ ShutdownAsked

\* The Go scheduler runs every goroutine that can go on, and the hub keeps
\* sending and reading; faults and pings need not happen.
Fairness ==
    /\ WF_vars(MainStep) /\ WF_vars(ReaderStep) /\ WF_vars(Pong)
    /\ WF_vars(WriteMsg) /\ WF_vars(WriterReturns) /\ WF_vars(CtrlStep)
    /\ \A c \in Async : WF_vars(HandlerStep(c))

Spec == Init /\ [][Next]_vars

FairSpec == Spec /\ Fairness
-----------------------------------------------------------------------------
Halted == appDone \/ crashed

\* Once RefreshChannels has superseded a session, handleSession stops waiting for
\* its commands and gets to the next one.  A refused connection is the exception:
\* it has no reader, so nobody closes the session's command channel.
SupersededSessionEnds ==
    \A b \in Bundle : cur > b
        ~> Halted \/ refused \/ ~ (ctrl.cb = b /\ ctrl.pc \in {"range", "send"})

\* A command that the reader has queued is taken up by handleSession, unless a
\* refused connection holds that up.
QueuedCommandsHandled ==
    \A b \in Bundle : cmdCh[b] # << >> ~> Halted \/ refused \/ cmdCh[b] = << >>

\* A command that runs while handleSession serves session b is answered, unless
\* that session's connection is lost: also one that an earlier session brought.
AnsweredUnlessLost ==
    \A c \in Async, b \in Bundle :
        hd[c].pc = "running" /\ ctrl.pc = "range" /\ ctrl.cb = b
            ~> c \in answered \/ b \in lost \/ Halted

\* A goroutine never stays blocked in sendMsg, not even on a lost session.
SendersReturn == \A c \in Async : hd[c].pc = "send" ~> hd[c].pc = "done" \/ ~ Alive

\* The process ends when its context is done, whatever was refused or lost before.
ShutdownEnds == appDone ~> run = "exited" \/ crashed

\* Sending the answer of an operation that ends after its session was superseded
\* does not panic.
NoPanic == ~ crashed
=============================================================================
