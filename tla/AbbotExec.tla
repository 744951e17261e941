----------------------------- MODULE AbbotExec -----------------------------
(***************************************************************************)
(* Commands the runtime runs in containers and waits for: the abbot        *)
(* command behind every network operation (handleAbbotExec, under          *)
(* networkutil.Client) and the exec hooks of a container (doHookAction).   *)
(*                                                                         *)
(* Both use execInContainer: a goroutine runs libpod's Exec, puts an error *)
(* on a channel of capacity 1 unless the context is done, and closes the   *)
(* channel; the caller selects on that channel and on the context.  When   *)
(* both sides are ready, the choice is arbitrary.                          *)
(*                                                                         *)
(* Kinds of call, with the context each one runs under:                    *)
(*   "replace"  createPauseContainer's deletePod of the pod that holds the *)
(*              name: Client.Delete, the deadline of PodActionContext      *)
(*   "delete"   every other deletePod: Client.Delete, context.TODO()       *)
(*   "do"       createPauseContainer's Client.Do, with the deadline        *)
(*   "hook"     EnsurePod's post-start hook, with the deadline             *)
(* The two deletes go on to RemovePod when they are answered "ok".         *)
(***************************************************************************)
EXTENDS Naturals

CONSTANTS
    Call,   \* the calls made, each in its own command's goroutine
    Kinds   \* the kinds of call made

ASSUME AbbotExecAssumption ==
    Kinds \subseteq {"replace", "delete", "do", "hook"}

VARIABLES
    pc,         \* call -> where its caller is
    kind,       \* call -> its kind
    exec,       \* call -> where the goroutine of execInContainer is
    given,      \* call -> the environment and stdin its command runs with:
                \*   "nil", or the "request" the network client made
    buffered,   \* call -> errors in errCh (capacity 1)
    closed,     \* call -> errCh is closed
    stderr,     \* call -> something was written to errBuf
    succeeded,  \* call -> the command has succeeded
    expired,    \* call -> ctx is done
    result,     \* call -> the answer of Delete, Do or doHookAction
    removed,    \* call -> RemovePod was called
    abbot       \* the abbot container: "none", "exited" or "running"

execVars == <<exec, given, buffered, closed, stderr, succeeded>>
callerVars == <<pc, kind, expired, result, removed, abbot>>
vars == <<pc, kind, exec, given, buffered, closed, stderr, succeeded, expired,
          result, removed, abbot>>

Idle == "idle"
Deletes(c) == kind[c] \in {"replace", "delete"}
Timed(c) == kind[c] \in {"replace", "do", "hook"}

Init ==
    /\ pc = [c \in Call |-> Idle]
    /\ kind = [c \in Call |-> "none"]
    /\ exec = [c \in Call |-> Idle]
    /\ given = [c \in Call |-> "nil"]
    /\ buffered = [c \in Call |-> 0]
    /\ closed = [c \in Call |-> FALSE]
    /\ stderr = [c \in Call |-> FALSE]
    /\ succeeded = [c \in Call |-> FALSE]
    /\ expired = [c \in Call |-> FALSE]
    /\ result = [c \in Call |-> "none"]
    /\ removed = [c \in Call |-> FALSE]
    /\ abbot \in {"none", "exited", "running"}

\* Answer(c, r): the call returns r.  After an "ok" a delete has RemovePod left.
Answer(c, r) ==
    /\ result' = [result EXCEPT ![c] = r]
    /\ pc' = [pc EXCEPT ![c] =
                 IF r = "ok" /\ Deletes(c) THEN "remove" ELSE "done"]

Goto(c, place) == pc' = [pc EXCEPT ![c] = place] /\ UNCHANGED result
-----------------------------------------------------------------------------
(***************************************************************************)
(* handleAbbotExec and doHookAction up to the start of the command.        *)
(***************************************************************************)
\* A hook runs in a container EnsurePod has just started; a network
\* operation looks for the abbot container first.
Begins(c, k) ==
    /\ pc[c] = Idle
    /\ kind' = [kind EXCEPT ![c] = k]
    /\ Goto(c, IF k = "hook" THEN "exec" ELSE "find")
    /\ UNCHANGED <<execVars, expired, removed, abbot>>

\* findAbbotContainer
Finds(c) ==
    /\ pc[c] = "find"
    /\ IF abbot = "none" THEN Answer(c, "err") ELSE Goto(c, "state")
    /\ UNCHANGED <<execVars, kind, expired, removed, abbot>>

\* ctr.State(): an error when the container is gone by now
ChecksState(c) ==
    /\ pc[c] = "state"
    /\ CASE abbot = "none"    -> Answer(c, "err")
         [] abbot = "running" -> Goto(c, "exec")
         [] abbot = "exited"  -> Goto(c, "start")
    /\ UNCHANGED <<execVars, kind, expired, removed, abbot>>

\* ctr.Start(ctx, true); it refuses a container that runs already
StartsAbbot(c) ==
    /\ pc[c] = "start"
    /\ abbot = "exited"
    /\ abbot' = "running"
    /\ Goto(c, "recheck")
    /\ UNCHANGED <<execVars, kind, expired, removed>>

StartRefused(c) ==
    /\ pc[c] = "start"
    /\ Answer(c, "err")
    /\ UNCHANGED <<execVars, kind, expired, removed, abbot>>

\* After the sleep the state is read again and not looked at.
Rechecks(c) ==
    /\ pc[c] = "recheck"
    /\ IF abbot = "none" THEN Answer(c, "err") ELSE Goto(c, "exec")
    /\ UNCHANGED <<execVars, kind, expired, removed, abbot>>

\* execInContainer(ctx, ctr, nil, stdout, stderr, cmd, false, nil): env and
\* stdin, parameters of handleAbbotExec, are not handed on.
Execs(c) ==
    /\ pc[c] = "exec"
    /\ Goto(c, "select")
    /\ given' = [given EXCEPT ![c] = "nil"]
    /\ exec' = [exec EXCEPT ![c] = "running"]
    /\ UNCHANGED <<kind, buffered, closed, stderr, succeeded, expired, removed,
                   abbot>>
-----------------------------------------------------------------------------
(***************************************************************************)
(* The goroutine of execInContainer.                                       *)
(***************************************************************************)
\* Exec returns no error.  The exit code is dropped: a hook that ran counts
\* as a success, and abbot's failure is known by what it wrote to stderr.
CommandSucceeds(c) ==
    /\ exec[c] = "running"
    /\ kind[c] # "hook" => abbot = "running"
    /\ succeeded' = [succeeded EXCEPT ![c] = TRUE]
    /\ exec' = [exec EXCEPT ![c] = "close"]
    /\ UNCHANGED <<callerVars, given, buffered, closed, stderr>>

CommandFails(c) ==
    /\ exec[c] = "running"
    /\ kind[c] # "hook"
    /\ abbot = "running"
    /\ stderr' = [stderr EXCEPT ![c] = TRUE]
    /\ exec' = [exec EXCEPT ![c] = "close"]
    /\ UNCHANGED <<callerVars, given, buffered, closed, succeeded>>

\* Exec returns an error, before the command ran or after (ExecRemove).
ExecFails(c) ==
    /\ exec[c] = "running"
    /\ \E ran \in BOOLEAN : succeeded' = [succeeded EXCEPT ![c] = ran]
    /\ exec' = [exec EXCEPT ![c] = "error"]
    /\ UNCHANGED <<callerVars, given, buffered, closed, stderr>>

\* select: the two cases
ExecReports(c) ==
    /\ exec[c] = "error"
    /\ buffered[c] < 1
    /\ buffered' = [buffered EXCEPT ![c] = @ + 1]
    /\ exec' = [exec EXCEPT ![c] = "close"]
    /\ UNCHANGED <<callerVars, given, closed, stderr, succeeded>>

ExecDrops(c) ==
    /\ exec[c] = "error"
    /\ expired[c]
    /\ exec' = [exec EXCEPT ![c] = "close"]
    /\ UNCHANGED <<callerVars, given, buffered, closed, stderr, succeeded>>

ExecCloses(c) ==
    /\ exec[c] = "close"
    /\ closed' = [closed EXCEPT ![c] = TRUE]
    /\ exec' = [exec EXCEPT ![c] = "over"]
    /\ UNCHANGED <<callerVars, given, buffered, stderr, succeeded>>
-----------------------------------------------------------------------------
(***************************************************************************)
(* The caller's select, and what follows it.                               *)
(***************************************************************************)
\* err := <-errCh with an error in it
SelectsError(c) ==
    /\ pc[c] = "select"
    /\ buffered[c] > 0
    /\ buffered' = [buffered EXCEPT ![c] = @ - 1]
    /\ Answer(c, "err")
    /\ UNCHANGED <<kind, exec, given, closed, stderr, succeeded, expired, removed,
                   abbot>>

\* The answer does not look at stderr.
SelectsClosedOnly(c) ==
    /\ pc[c] = "select"
    /\ buffered[c] = 0
    /\ closed[c]
    /\ Answer(c, "ok")
    /\ UNCHANGED <<execVars, kind, expired, removed, abbot>>

\* nil from the closed channel; the network client then looks at errBuf.
SelectsClosed(c) ==
    /\ pc[c] = "select"
    /\ buffered[c] = 0
    /\ closed[c]
    /\ Answer(c, IF stderr[c] THEN "err" ELSE "ok")
    /\ UNCHANGED <<execVars, kind, expired, removed, abbot>>

\* ctx is looked at once the command is over.
SelectsExpiredLate(c) ==
    /\ pc[c] = "select"
    /\ expired[c]
    /\ exec[c] = "over"
    /\ Answer(c, "err")
    /\ UNCHANGED <<execVars, kind, expired, removed, abbot>>

SelectsExpired(c) ==
    /\ pc[c] = "select"
    /\ expired[c]
    /\ Answer(c, "err")
    /\ UNCHANGED <<execVars, kind, expired, removed, abbot>>

\* RemovePod(context.Background(), pod, true, true)
Removes(c) ==
    /\ pc[c] = "remove"
    /\ removed' = [removed EXCEPT ![c] = TRUE]
    /\ Goto(c, "done")
    /\ UNCHANGED <<execVars, kind, expired, abbot>>
-----------------------------------------------------------------------------
\* The deadline of the command's context.
Expires(c) ==
    /\ pc[c] \notin {Idle, "done"}
    /\ Timed(c)
    /\ ~expired[c]
    /\ expired' = [expired EXCEPT ![c] = TRUE]
    /\ UNCHANGED <<execVars, pc, kind, result, removed, abbot>>

\* The abbot container exits, is restarted by its policy, is removed.
AbbotExits == abbot = "running" /\ abbot' = "exited"
AbbotRestarts == abbot = "exited" /\ abbot' = "running"
AbbotRemoved == abbot # "none" /\ abbot' = "none"

AbbotChanges ==
    /\ AbbotExits \/ AbbotRestarts \/ AbbotRemoved
    /\ UNCHANGED <<execVars, pc, kind, expired, result, removed>>

CallerStep(c) ==
    \/ Finds(c) \/ ChecksState(c) \/ StartsAbbot(c) \/ StartRefused(c)
    \/ Rechecks(c) \/ Execs(c) \/ SelectsError(c) \/ SelectsClosed(c)
    \/ SelectsExpired(c) \/ Removes(c)

ReportStep(c) == ExecReports(c) \/ ExecDrops(c) \/ ExecCloses(c)

CommandStep(c) == CommandSucceeds(c) \/ CommandFails(c) \/ ExecFails(c)

CallStep(c) ==
    \/ \E k \in Kinds : Begins(c, k)
    \/ CallerStep(c)
    \/ CommandStep(c)
    \/ ReportStep(c)
    \/ Expires(c)

Next == AbbotChanges \/ \E c \in Call : CallStep(c)

Spec == Init /\ [][Next]_vars

\* The goroutines of the process are scheduled; a command may run forever.
FairSpec ==
    Spec /\ \A c \in Call : WF_vars(CallerStep(c)) /\ WF_vars(ReportStep(c))
-----------------------------------------------------------------------------
TypeOK ==
    /\ pc \in [Call -> {Idle, "find", "state", "start", "recheck", "exec",
                        "select", "remove", "done"}]
    /\ kind \in [Call -> Kinds \cup {"none"}]
    /\ exec \in [Call -> {Idle, "running", "error", "close", "over"}]
    /\ given \in [Call -> {"nil", "request"}]
    /\ buffered \in [Call -> 0..1]
    /\ closed \in [Call -> BOOLEAN]
    /\ stderr \in [Call -> BOOLEAN]
    /\ succeeded \in [Call -> BOOLEAN]
    /\ expired \in [Call -> BOOLEAN]
    /\ result \in [Call -> {"none", "ok", "err"}]
    /\ removed \in [Call -> BOOLEAN]
    /\ abbot \in {"none", "exited", "running"}

(* Every call is answered once, and "ok" before the deadline means that the
   command succeeded: handleAbbotExec with the client's look at errBuf, and
   doHookAction, implement NetworkCall. *)
NC == INSTANCE NetworkCall

ImplementsNetworkCall == NC!NCSpec

(* A pod whose deletion has no deadline is removed only after abbot's command
   succeeded, however the command, the abbot container and the goroutine of
   execInContainer interleave (deletePod under context.TODO()). *)
RemovedWhenReleased ==
    \A c \in Call : kind[c] = "delete" /\ removed[c] => succeeded[c]

(* A caller whose deadline passes returns, even when the command in the
   container never ends (the ctx.Done() cases of the two selects). *)
ReturnsByDeadline ==
    \A c \in Call : expired[c] ~> pc[c] = "done"

(* deletePod: "refuse to delete pod if network not deleted" - whichever
   context it was called with. *)
RefusesUnreleased ==
    \A c \in Call : removed[c] => succeeded[c]

(* AbbotExecFunc: "execute abbot command with provided environment variables
   and io channels" - the abbot command runs with the request it is to serve. *)
RequestHandedOn ==
    \A c \in Call :
        exec[c] = "running" /\ kind[c] # "hook" => given[c] = "request"
=============================================================================
