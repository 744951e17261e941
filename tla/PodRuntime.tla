----------------------------- MODULE PodRuntime -----------------------------
(***************************************************************************)
(* pkg/runtime: EnsurePod, DeletePod and ListPods, with the helpers they   *)
(* share (createPauseContainer, createContainer, deletePod,                *)
(* deleteContainer, the lookups, the calls to abbot), as they run on the   *)
(* goroutines the command handler starts: one goroutine per command, no    *)
(* lock between them.                                                      *)
(*                                                                         *)
(* A worker is such a goroutine.  It takes one step per libpod, abbot or   *)
(* file-system call; its record keeps the local variables of the handler   *)
(* that are used after a later call.  deletePod is the one helper called   *)
(* from several places, so its return point is kept in `ret`.              *)
(***************************************************************************)
EXTENDS Libpod

CONSTANTS
    Worker,    \* goroutines that may serve a command at the same time
    Requests,  \* the commands that may arrive
    Exclusive, \* TRUE: the peer sends no command while one that conflicts
               \*   with it is being served; FALSE: it sends them as it likes
    Faults,    \* what may go wrong around the runtime, see FaultKind
    NoPod      \* a nil *libpod.Pod or *libpod.Container

FaultKind == {
    "lookup",   \* a read of libpod's database fails
    "create",   \* NewPod, NewContainer, an image or a volume fails
    "start",    \* Start, State, ExitCode, Inspect or a hook fails
    "remove",   \* RemovePod fails, having done nothing, a part, or all
    "abbot",    \* abbot fails, or its answer is lost or late (ctx.Done)
    "data",     \* the pod directory cannot be removed
    "exit",     \* a container exits
    "pause",    \* an operator pauses a container
    "foreign",  \* an operator creates a pod
    "crash" }   \* the process dies and is started again

\* One shape for the three commands.  ctrs: the containers to create, or to
\* delete (none: the whole pod).  A list has uid = NoUID (all pods) or asks for
\* the pods with the name of pod uid.
Request == [op : {"ensure", "delete", "list"}, uid : PodUID \cup {NoUID},
            ctrs : SUBSET Ctr, wait : BOOLEAN]

ASSUME RuntimeAssumption ==
    /\ NoPod \notin PodID
    /\ Exclusive \in BOOLEAN
    /\ Faults \subseteq FaultKind
    /\ Requests \subseteq Request
    /\ \A r \in Requests : r.op # "list" => r.uid \in PodUID
    /\ \A r \in Requests : r.op = "ensure" => r.ctrs \subseteq WorkCtr

EnsureLabel == {"findPod", "findPause", "lookupPrev", "checkAbbot", "newPod",
    "newPause", "startPause", "checkPause", "netDo", "inspect", "restartPause",
    "unpausePause", "prepare", "newCtr", "startCtr", "waitCtr", "check"}
DeleteLabel == {"deleteFindPod", "deleteFindPause", "deleteListed"}
DeletePodLabel == {"delFind", "delNetwork", "delGuard", "delRemove"}
ListLabel == {"listFind", "listNext", "listRemove"}
Label == EnsureLabel \cup DeleteLabel \cup DeletePodLabel \cup ListLabel
            \cup {"idle", "cleanup", "reply"}

VARIABLES
    net,   \* pod ID -> the pod network abbot holds for its pause container:
           \*   "none", "up" (acknowledged), "maybe" (an answer was lost)
    data,  \* the UIDs with a pod directory on disk
    wk     \* worker -> its local state

vars == <<pods, labels, ctrs, net, data, wk>>

WorkerState ==
    [pc : Label,
     req : Request,
     pod : PodID \cup {NoPod},   \* the pod the handler works on
     ctr : PodID \cup {NoPod},   \* the pod whose pause container it holds
     dpod : PodID \cup {NoPod},  \* argument of deletePod
     ret : {"prev", "unwind", "fail", "delete", "list"},
     todo : SUBSET Ctr,          \* containers left in the current loop
     lst : SUBSET PodID,         \* pods left in the loop of ListPods
     resp : {"ok", "err", "panic"}]

NoRequest == [op |-> "list", uid |-> NoUID, ctrs |-> {}, wait |-> FALSE]

Idle == [pc |-> "idle", req |-> NoRequest, pod |-> NoPod, ctr |-> NoPod,
         dpod |-> NoPod, ret |-> "fail", todo |-> {}, lst |-> {}, resp |-> "ok"]

\* The type invariant.
TypeOK ==
    /\ LibpodTypeOK
    /\ net \in [PodID -> {"none", "maybe", "up"}]
    /\ data \in SUBSET PodUID
    /\ wk \in [Worker -> WorkerState]

Init ==
    /\ LibpodInit
    /\ net = [id \in PodID |-> "none"]
    /\ data = {}
    /\ wk = [w \in Worker |-> Idle]
-----------------------------------------------------------------------------
(***************************************************************************)
(* Control: how a worker moves on.                                         *)
(***************************************************************************)
Step(w, r) == wk' = [wk EXCEPT ![w] = r]

Goto(w, label) == [wk[w] EXCEPT !.pc = label]

\* The handler is done but for what follows label; its locals are dead.
Finish(w, label, resp) == [Idle EXCEPT !.req = wk[w].req, !.pc = label, !.resp = resp]

\* The deferred CleanupPodData is not registered.
FailedNoCleanup(w) == Finish(w, "reply", "err")

\* `return nil, err`: the deferred CleanupPodData is all that is left to run.
Failed(w) == Finish(w, "cleanup", "err")

CallDeletePod(w, id, ret) ==
    [wk[w] EXCEPT !.pc = "delFind", !.dpod = id, !.ret = ret]

\* `return nil, err` with a deferred deletePod registered for the worker's pod.
Rollback(w, ret) ==
    [CallDeletePod(w, wk[w].pod, ret) EXCEPT !.ctr = NoPod, !.todo = {}, !.resp = "err"]

\* The deferred function assigns deletePod's result to err instead of err2.
ReturnedErrReused(w, ok) ==
    LET ret == wk[w].ret
        back(label) == [wk[w] EXCEPT !.pc = label, !.dpod = NoPod, !.ctr = NoPod,
                                     !.ret = "fail"]
    IN  CASE ret = "prev" /\ ok    -> back("checkAbbot")
          [] ret = "prev" /\ ~ok   -> Failed(w)
          [] ret = "unwind"        -> Rollback(w, "fail")
          [] ret = "fail"          -> IF ok THEN Finish(w, "reply", "ok") ELSE Failed(w)
          [] ret = "delete"        -> Finish(w, "cleanup", IF ok THEN "ok" ELSE "err")
          [] ret = "list"          -> back("listNext")

\* deletePod returned, with or without an error, to the place that called it:
\* createPauseContainer for a previous pod; the second, then the first deferred
\* function of createPauseContainer; any other rollback; DeletePod; ListPods.
Returned(w, ok) ==
    LET ret == wk[w].ret
        back(label) == [wk[w] EXCEPT !.pc = label, !.dpod = NoPod, !.ctr = NoPod,
                                     !.ret = "fail"]
    IN  CASE ret = "prev" /\ ok    -> back("checkAbbot")
          [] ret = "prev" /\ ~ok   -> Failed(w)
          [] ret = "unwind"        -> Rollback(w, "fail")
          [] ret = "fail"          -> Failed(w)
          [] ret = "delete"        -> Finish(w, "cleanup", IF ok THEN "ok" ELSE "err")
          [] ret = "list"          -> back("listNext")

Fault(kind) == kind \in Faults

\* The pod objects a worker can still use.  A new pod gets an ID that none of
\* them has: libpod's IDs are random and never come back.
Held(w) == {wk[w].pod, wk[w].ctr, wk[w].dpod} \cup wk[w].lst

FreshID == {id \in PodID \ pods : net[id] = "none" /\ \A w \in Worker : id \notin Held(w)}

\* The containers of a request are handled in order.
Current(w, c) == c \in wk[w].todo /\ \A d \in wk[w].todo : c <= d
-----------------------------------------------------------------------------
(***************************************************************************)
(* Abbot, the network provider: handleAbbotExec runs a command in the      *)
(* abbot container, which it starts when it is stopped.                    *)
(***************************************************************************)
AbbotReady(id) == ctrs[id][Abbot] = "running" \/ CanStartAll(id, Abbot)

AbbotExecOK ==
    \E id \in AbbotContainers :
        \/ ctrs[id][Abbot] = "running" /\ UNCHANGED libpodVars
        \/ StartAll(id, Abbot)

\* The command was not run, or it is not known whether it was.
AbbotExecFails ==
    \/ /\ \/ AbbotContainers = {}
          \/ \E id \in AbbotContainers : ~AbbotReady(id)
          \/ Fault("abbot")
       /\ UNCHANGED libpodVars
    \/ /\ Fault("abbot")
       /\ \E id \in AbbotContainers : StartAll(id, Abbot)

Exited(id, c) == ~Exists(id, c) \/ ctrs[id][c] = "exited"

\* Do failed: abbot may have set the network up all the same, if there was a
\* network namespace to set it up in.
MaybeConfigured(id) ==
    \/ UNCHANGED net
    \/ /\ Fault("abbot") /\ AbbotContainers # {} /\ ~Exited(id, Pause)
       /\ net' = [net EXCEPT ![id] = "maybe"]

\* Delete failed: abbot may have taken the network down all the same.
MaybeReleased(id) ==
    \/ UNCHANGED net
    \/ /\ Fault("abbot") /\ AbbotContainers # {} /\ net[id] = "up"
       /\ net' = [net EXCEPT ![id] = "maybe"]
-----------------------------------------------------------------------------
(***************************************************************************)
(* A command arrives: HandleCmd starts a goroutine for it, whatever the    *)
(* others are doing.  That a careful peer waits for the answer to one      *)
(* command before it sends a conflicting one is an assumption (Exclusive), *)
(* not something the code enforces.                                        *)
(***************************************************************************)
\* The commands are about one pod name, or one of them is about all pods.
Conflict(r, s) ==
    r.op = "list" \/ s.op = "list" \/ PodName[r.uid] = PodName[s.uid]

Entry(op) == CASE op = "ensure" -> "findPod"
               [] op = "delete" -> "deleteFindPod"
               [] op = "list"   -> "listFind"

Accept(w) ==
    /\ wk[w].pc = "idle"
    /\ \E r \in Requests :
          /\ Exclusive => \A v \in Worker : wk[v].pc # "idle" => ~Conflict(r, wk[v].req)
          /\ Step(w, [Idle EXCEPT !.req = r, !.pc = Entry(r.op)])
    /\ UNCHANGED <<libpodVars, net, data>>
-----------------------------------------------------------------------------
(***************************************************************************)
(* EnsurePod.                                                              *)
(***************************************************************************)
EnsureFindPod(w) ==
    /\ wk[w].pc = "findPod"
    /\ LET found == PodsWithUID(wk[w].req.uid)
       IN  \/ found = {} /\ Step(w, Goto(w, "lookupPrev"))
           \/ \E id \in found :
                 found = {id} /\ Step(w, [Goto(w, "findPause") EXCEPT !.pod = id])
           \/ /\ Fault("lookup") \/ \E a, b \in found : a # b
              /\ Step(w, Failed(w))
    /\ UNCHANGED <<libpodVars, net, data>>

\* The pod is there; without its pause container it is invalid.
FindPause(w) ==
    /\ wk[w].pc = "findPause"
    /\ LET found == ContainersOf(wk[w].req.uid, Pause)
       IN  \/ \E id \in found : Step(w, [Goto(w, "inspect") EXCEPT !.ctr = id])
           \/ (found = {} \/ Fault("lookup")) /\ Step(w, Rollback(w, "fail"))
    /\ UNCHANGED <<libpodVars, net, data>>

\* The previous pod is looked up without a name.
LookupPrevAny(w) ==
    /\ wk[w].pc = "lookupPrev"
    /\ \/ \E id \in pods : Step(w, CallDeletePod(w, id, "prev"))
       \/ (pods = {} \/ Fault("lookup")) /\ Step(w, Goto(w, "checkAbbot"))
    /\ UNCHANGED <<libpodVars, net, data>>

\* createPauseContainer: a pod of the same name is deleted first.  An error of
\* LookupPod is ignored.
LookupPrev(w) ==
    /\ wk[w].pc = "lookupPrev"
    /\ LET prev == PodsNamed(PodName[wk[w].req.uid])
       IN  \/ \E id \in prev : Step(w, CallDeletePod(w, id, "prev"))
           \/ (prev = {} \/ Fault("lookup")) /\ Step(w, Goto(w, "checkAbbot"))
    /\ UNCHANGED <<libpodVars, net, data>>

\* A pod on the cluster network needs abbot; then the pause image is looked up.
CheckAbbot(w) ==
    /\ wk[w].pc = "checkAbbot"
    /\ LET needed == wk[w].req.uid \notin HostNetwork
       IN  \/ /\ needed => AbbotContainers # {}
              /\ Step(w, Goto(w, "newPod"))
           \/ /\ \/ needed /\ (AbbotContainers = {} \/ Fault("lookup"))
                 \/ Fault("create")
              /\ Step(w, Failed(w))
    /\ UNCHANGED <<libpodVars, net, data>>

CreatePod(w) ==
    /\ wk[w].pc = "newPod"
    /\ LET uid == wk[w].req.uid
       IN  \/ \E id \in FreshID :
                 NewPod(id, uid) /\ Step(w, [Goto(w, "newPause") EXCEPT !.pod = id])
           \/ /\ PodsNamed(PodName[uid]) # {} \/ Fault("create")
              /\ Step(w, Failed(w))
              /\ UNCHANGED libpodVars
    /\ UNCHANGED <<net, data>>

\* On an error the first deferred deletePod runs.
CreatePause(w) ==
    /\ wk[w].pc = "newPause"
    /\ LET id == wk[w].pod
       IN  \/ /\ NewContainer(id, Pause, id)
              /\ Step(w, [Goto(w, "startPause") EXCEPT !.ctr = id])
           \/ /\ ~CanCreate(id, Pause, id) \/ Fault("create")
              /\ Step(w, Rollback(w, "fail"))
              /\ UNCHANGED libpodVars
    /\ UNCHANGED <<net, data>>

\* From here on two deferred functions of createPauseContainer call deletePod.
StartPause(w) ==
    /\ wk[w].pc = "startPause"
    /\ LET id == wk[w].ctr
       IN  \/ StartAll(id, Pause) /\ Step(w, Goto(w, "checkPause"))
           \/ /\ ~CanStartAll(id, Pause) \/ Fault("start")
              /\ Step(w, Rollback(w, "unwind"))
              /\ UNCHANGED libpodVars
    /\ UNCHANGED <<net, data>>

\* The pod is taken for one on the host network.
CheckPauseNoNetwork(w) ==
    /\ wk[w].pc = "checkPause"
    /\ \/ /\ ~Exited(wk[w].ctr, Pause)
          /\ Step(w, Goto(w, "inspect"))
       \/ /\ Exited(wk[w].ctr, Pause) \/ Fault("start")
          /\ Step(w, Rollback(w, "unwind"))
    /\ UNCHANGED <<libpodVars, net, data>>

CheckPause(w) ==
    /\ wk[w].pc = "checkPause"
    /\ \/ /\ ~Exited(wk[w].ctr, Pause)
          /\ Step(w, Goto(w, IF wk[w].req.uid \in HostNetwork THEN "inspect" ELSE "netDo"))
       \/ /\ Exited(wk[w].ctr, Pause) \/ Fault("start")
          /\ Step(w, Rollback(w, "unwind"))
    /\ UNCHANGED <<libpodVars, net, data>>

\* Abbot's command fails for a pause container that does not run any more.
ConfigureNetwork(w) ==
    /\ wk[w].pc = "netDo"
    /\ \/ /\ ~Exited(wk[w].ctr, Pause)
          /\ AbbotExecOK
          /\ net' = [net EXCEPT ![wk[w].ctr] = "up"]
          /\ Step(w, Goto(w, "inspect"))
       \/ /\ AbbotExecFails
          /\ MaybeConfigured(wk[w].ctr)
          /\ Step(w, Rollback(w, "unwind"))
       \/ /\ Exited(wk[w].ctr, Pause)
          /\ AbbotExecOK
          /\ Step(w, Rollback(w, "unwind"))
          /\ UNCHANGED net
    /\ UNCHANGED data

\* Back in EnsurePod: the loops over options.Containers begin once the pause
\* container runs.
BeginContainers(w) ==
    [wk[w] EXCEPT !.pc = IF wk[w].req.ctrs = {} THEN "check" ELSE "prepare",
                  !.todo = wk[w].req.ctrs]

InspectPause(w) ==
    /\ wk[w].pc = "inspect"
    /\ LET id == wk[w].ctr
       IN  \/ Startable(id, Pause) /\ Step(w, Goto(w, "restartPause"))
           \/ /\ Exists(id, Pause) /\ ctrs[id][Pause] = "paused"
              /\ Step(w, Goto(w, "unpausePause"))
           \/ /\ Exists(id, Pause) /\ ctrs[id][Pause] = "running"
              /\ Step(w, BeginContainers(w))
           \/ /\ ~Exists(id, Pause) \/ Fault("start")
              /\ Step(w, Rollback(w, "fail"))
    /\ UNCHANGED <<libpodVars, net, data>>

RestartPause(w) ==
    /\ wk[w].pc = "restartPause"
    /\ LET id == wk[w].ctr
       IN  \/ Start(id, Pause) /\ Step(w, BeginContainers(w))
           \/ /\ ~CanStart(id, Pause) \/ Fault("start")
              /\ Step(w, Rollback(w, "fail"))
              /\ UNCHANGED libpodVars
    /\ UNCHANGED <<net, data>>

UnpausePause(w) ==
    /\ wk[w].pc = "unpausePause"
    /\ LET id == wk[w].ctr
       IN  \/ Unpause(id, Pause) /\ Step(w, BeginContainers(w))
           \/ /\ ~(Exists(id, Pause) /\ ctrs[id][Pause] = "paused") \/ Fault("start")
              /\ Step(w, Rollback(w, "fail"))
              /\ UNCHANGED libpodVars
    /\ UNCHANGED <<net, data>>

\* createContainer, up to NewContainer: volumes are resolved, mounted and
\* written below the pod directory, the image is looked up.
PrepareContainer(w) ==
    /\ wk[w].pc = "prepare"
    /\ \/ /\ data' = data \cup {wk[w].req.uid}
          /\ Step(w, Goto(w, "newCtr"))
       \/ /\ Fault("create")
          /\ data' \in {data, data \cup {wk[w].req.uid}}
          /\ Step(w, Rollback(w, "fail"))
    /\ UNCHANGED <<libpodVars, net>>

\* The loop variable moves on; after the last container the next loop begins.
NextContainer(w, c, again, after, rest) ==
    LET left == wk[w].todo \ {c}
    IN  IF left # {} THEN [wk[w] EXCEPT !.pc = again, !.todo = left]
                     ELSE [wk[w] EXCEPT !.pc = after, !.todo = rest]

\* The deferred deletePod of EnsurePod is not registered.
CreateContainerNoRollback(w) ==
    /\ wk[w].pc = "newCtr"
    /\ \E c \in Ctr :
          /\ Current(w, c)
          /\ \/ /\ NewContainer(wk[w].pod, c, wk[w].ctr)
                /\ Step(w, NextContainer(w, c, "prepare", "startCtr", wk[w].req.ctrs))
             \/ /\ ~CanCreate(wk[w].pod, c, wk[w].ctr) \/ Fault("create")
                /\ Step(w, Failed(w))
                /\ UNCHANGED libpodVars
    /\ UNCHANGED <<net, data>>

CreateContainer(w) ==
    /\ wk[w].pc = "newCtr"
    /\ \E c \in Ctr :
          /\ Current(w, c)
          /\ \/ /\ NewContainer(wk[w].pod, c, wk[w].ctr)
                /\ Step(w, NextContainer(w, c, "prepare", "startCtr", wk[w].req.ctrs))
             \/ /\ ~CanCreate(wk[w].pod, c, wk[w].ctr) \/ Fault("create")
                /\ Step(w, Rollback(w, "fail"))
                /\ UNCHANGED libpodVars
    /\ UNCHANGED <<net, data>>

\* Start and the post-start hook.
StartContainer(w) ==
    /\ wk[w].pc = "startCtr"
    /\ \E c \in Ctr :
          /\ Current(w, c)
          /\ \/ /\ Start(wk[w].pod, c)
                /\ \/ Step(w, IF wk[w].req.wait THEN Goto(w, "waitCtr")
                              ELSE NextContainer(w, c, "startCtr", "check", {}))
                   \/ Fault("start") /\ Step(w, Rollback(w, "fail"))
             \/ /\ ~CanStart(wk[w].pod, c) \/ Fault("start")
                /\ Step(w, Rollback(w, "fail"))
                /\ UNCHANGED libpodVars
    /\ UNCHANGED <<net, data>>

\* WaitWithInterval keeps polling a container that is gone.
WaitContainerForever(w) ==
    /\ wk[w].pc = "waitCtr"
    /\ \E c \in Ctr :
          /\ Current(w, c)
          /\ \/ /\ Startable(wk[w].pod, c)
                /\ Step(w, NextContainer(w, c, "startCtr", "check", {}))
             \/ ~Exists(wk[w].pod, c) /\ Step(w, wk[w])
    /\ UNCHANGED <<libpodVars, net, data>>

\* WaitWithInterval: returns once the container has stopped, whatever the
\* deadline of the context.
WaitContainer(w) ==
    /\ wk[w].pc = "waitCtr"
    /\ \E c \in Ctr :
          /\ Current(w, c)
          /\ \/ /\ Startable(wk[w].pod, c)
                /\ Step(w, NextContainer(w, c, "startCtr", "check", {}))
             \/ /\ ~Exists(wk[w].pod, c) \/ Fault("start")
                /\ Step(w, Rollback(w, "fail"))
    /\ UNCHANGED <<libpodVars, net, data>>

\* After the sleep: a container that was not waited for must still run; then
\* the status of every container is read.
CheckContainers(w) ==
    /\ wk[w].pc = "check"
    /\ LET bad(c) == IF wk[w].req.wait THEN ~Exists(wk[w].pod, c) ELSE Exited(wk[w].pod, c)
       IN  \/ /\ \A c \in wk[w].req.ctrs : ~bad(c)
              /\ Step(w, Finish(w, "reply", "ok"))
           \/ /\ Fault("start") \/ \E c \in wk[w].req.ctrs : bad(c)
              /\ Step(w, Rollback(w, "fail"))
    /\ UNCHANGED <<libpodVars, net, data>>
-----------------------------------------------------------------------------
(***************************************************************************)
(* DeletePod.                                                              *)
(***************************************************************************)
DeleteFindPod(w) ==
    /\ wk[w].pc = "deleteFindPod"
    /\ LET found == PodsWithUID(wk[w].req.uid)
       IN  \/ \E id \in found :
                 /\ found = {id}
                 /\ Step(w, [IF wk[w].req.ctrs = {} THEN CallDeletePod(w, id, "delete")
                             ELSE Goto(w, "deleteFindPause") EXCEPT !.pod = id])
           \/ /\ found = {} \/ Fault("lookup") \/ \E a, b \in found : a # b
              /\ Step(w, Failed(w))
    /\ UNCHANGED <<libpodVars, net, data>>

\* Containers were named: the pause container of the pod must be there.
DeleteFindPause(w) ==
    /\ wk[w].pc = "deleteFindPause"
    /\ \/ Exists(wk[w].pod, Pause) /\ Step(w, Goto(w, "deleteListed"))
       \/ (~Exists(wk[w].pod, Pause) \/ Fault("lookup")) /\ Step(w, Failed(w))
    /\ UNCHANGED <<libpodVars, net, data>>

\* deleteContainer for each name.  For a container that exists it refuses
\* (abbot is in use) or, the container having a pod-uid label, returns without
\* deleting anything.  For one that does not exist it dereferences nil.
DeleteListed(w) ==
    /\ wk[w].pc = "deleteListed"
    /\ LET uid == wk[w].req.uid
           found == {c \in wk[w].req.ctrs : ContainersOf(uid, c) # {}}
           denied == uid \in AbbotPod \cap HostNetwork /\ ClusterPauses # {}
       IN  \/ /\ found = wk[w].req.ctrs /\ ~denied /\ Exists(wk[w].pod, Pause)
              /\ Step(w, Finish(w, "cleanup", "ok"))
           \/ /\ \/ found # {} /\ denied
                 \/ found = wk[w].req.ctrs /\ ~Exists(wk[w].pod, Pause)
                 \/ Fault("lookup")
              /\ Step(w, Failed(w))
           \/ /\ found # wk[w].req.ctrs
              /\ Step(w, Finish(w, "cleanup", "panic"))
    /\ UNCHANGED <<libpodVars, net, data>>
-----------------------------------------------------------------------------
(***************************************************************************)
(* deletePod.                                                              *)
(***************************************************************************)
\* A pod without a pod-uid label is removed at once.  The pause container is
\* looked up by UID, not by pod.
DelFind(w) ==
    /\ wk[w].pc = "delFind"
    /\ LET uid == labels[wk[w].dpod]
           next == IF uid \notin HostNetwork THEN "delNetwork"
                   ELSE IF uid \in AbbotPod THEN "delGuard" ELSE "delRemove"
       IN  \/ uid = NoUID /\ Step(w, Goto(w, "delRemove"))
           \/ /\ uid # NoUID
              /\ \E id \in ContainersOf(uid, Pause) :
                    Step(w, [Goto(w, next) EXCEPT !.ctr = id])
           \/ /\ uid # NoUID
              /\ ContainersOf(uid, Pause) = {} \/ Fault("lookup")
              /\ Step(w, Returned(w, FALSE))
    /\ UNCHANGED <<libpodVars, net, data>>

\* "delete pod network (best effort)": an error of abbot is ignored.
DelNetworkBestEffort(w) ==
    /\ wk[w].pc = "delNetwork"
    /\ \/ /\ AbbotExecOK
          /\ net' = [net EXCEPT ![wk[w].ctr] = "none"]
       \/ /\ AbbotExecFails
          /\ MaybeReleased(wk[w].ctr)
    /\ Step(w, Goto(w, "delRemove"))
    /\ UNCHANGED data

DelNetwork(w) ==
    /\ wk[w].pc = "delNetwork"
    /\ \/ /\ AbbotExecOK
          /\ net' = [net EXCEPT ![wk[w].ctr] = "none"]
          /\ Step(w, Goto(w, "delRemove"))
       \/ /\ AbbotExecFails
          /\ MaybeReleased(wk[w].ctr)
          /\ Step(w, Returned(w, FALSE))
    /\ UNCHANGED data

\* The abbot pod is deleted like any other.
DelGuardDropped(w) ==
    /\ wk[w].pc = "delGuard"
    /\ Step(w, Goto(w, "delRemove"))
    /\ UNCHANGED <<libpodVars, net, data>>

\* The abbot pod stays while a pause container uses the cluster network.
DelGuard(w) ==
    /\ wk[w].pc = "delGuard"
    /\ \/ ClusterPauses = {} /\ Step(w, Goto(w, "delRemove"))
       \/ (ClusterPauses # {} \/ Fault("lookup")) /\ Step(w, Returned(w, FALSE))
    /\ UNCHANGED <<libpodVars, net, data>>

\* The outcomes of Runtime.RemovePod.
RemoveFails(id) ==
    \/ (id \notin pods \/ Fault("remove")) /\ UNCHANGED libpodVars
    \/ Fault("remove") /\ (RemovePod(id) \/ RemovePodContainers(id))

DelRemove(w) ==
    /\ wk[w].pc = "delRemove"
    /\ \/ RemovePod(wk[w].dpod) /\ Step(w, Returned(w, TRUE))
       \/ RemoveFails(wk[w].dpod) /\ Step(w, Returned(w, FALSE))
    /\ UNCHANGED <<net, data>>
-----------------------------------------------------------------------------
(***************************************************************************)
(* ListPods.                                                               *)
(***************************************************************************)
ListFind(w) ==
    /\ wk[w].pc = "listFind"
    /\ LET uid == wk[w].req.uid
           found == IF uid = NoUID THEN pods ELSE PodsNamed(PodName[uid])
       IN  \/ Step(w, [Goto(w, "listNext") EXCEPT !.lst = found])
           \/ Fault("lookup") /\ Step(w, Finish(w, "reply", "err"))
    /\ UNCHANGED <<libpodVars, net, data>>

\* The status of a pod: for a host-network pod abbot is queried, which may
\* start the abbot container; its error is only logged.
Queried(uid) ==
    \/ uid \in HostNetwork /\ (AbbotExecOK \/ AbbotExecFails)
    \/ uid \notin HostNetwork /\ UNCHANGED libpodVars

\* After a pod that has gone away the loop tries it again.
ListNextRetries(w) ==
    /\ wk[w].pc = "listNext"
    /\ \/ /\ wk[w].lst = {}
          /\ Step(w, Finish(w, "reply", "ok"))
          /\ UNCHANGED libpodVars
       \/ \E id \in wk[w].lst :
             LET rest == IF id \in pods THEN wk[w].lst \ {id} ELSE wk[w].lst
             IN  \/ /\ ContainersOf(labels[id], Pause) = {} /\ id \in pods
                    /\ Step(w, [Goto(w, "listRemove") EXCEPT !.dpod = id, !.lst = rest])
                    /\ UNCHANGED libpodVars
                 \/ /\ ContainersOf(labels[id], Pause) # {} \/ id \notin pods
                    /\ Queried(labels[id])
                    /\ Step(w, [wk[w] EXCEPT !.lst = rest])
    /\ UNCHANGED <<net, data>>

ListNext(w) ==
    /\ wk[w].pc = "listNext"
    /\ \/ /\ wk[w].lst = {}
          /\ Step(w, Finish(w, "reply", "ok"))
          /\ UNCHANGED libpodVars
       \/ \E id \in wk[w].lst :
             LET uid == labels[id]
                 found == ContainersOf(uid, Pause)
                 rest == wk[w].lst \ {id}
             IN  \/ /\ uid = NoUID
                    /\ Step(w, [CallDeletePod(w, id, "list") EXCEPT !.lst = rest])
                    /\ UNCHANGED libpodVars
                 \/ /\ uid # NoUID /\ (found = {} \/ Fault("lookup"))
                    /\ Step(w, [Goto(w, "listRemove") EXCEPT !.dpod = id, !.lst = rest])
                    /\ UNCHANGED libpodVars
                 \/ /\ uid # NoUID /\ found # {} /\ Queried(uid)
                    /\ \/ id \in pods /\ Step(w, [wk[w] EXCEPT !.lst = rest])
                       \/ (id \notin pods \/ Fault("start")) /\ Step(w, Finish(w, "reply", "err"))
    /\ UNCHANGED <<net, data>>

\* A pod whose pause container was not found is removed without deletePod.
ListRemove(w) ==
    /\ wk[w].pc = "listRemove"
    /\ \/ /\ RemovePod(wk[w].dpod)
          /\ Step(w, [Goto(w, "listNext") EXCEPT !.dpod = NoPod])
       \/ RemoveFails(wk[w].dpod) /\ Step(w, Finish(w, "reply", "err"))
    /\ UNCHANGED <<net, data>>
-----------------------------------------------------------------------------
(***************************************************************************)
(* The end of a handler.                                                   *)
(***************************************************************************)
\* The deferred CleanupPodData of EnsurePod (on an error) and of DeletePod (in
\* every case, a panic included, which then ends the process).
Cleanup(w) ==
    /\ wk[w].pc = "cleanup"
    /\ \/ data' = data \ {wk[w].req.uid}
       \/ Fault("data") /\ UNCHANGED data
    /\ wk' = IF wk[w].resp = "panic" THEN [v \in Worker |-> Idle]
             ELSE [wk EXCEPT ![w] = Goto(w, "reply")]
    /\ UNCHANGED <<libpodVars, net>>

Reply(w) ==
    /\ wk[w].pc = "reply"
    /\ Step(w, Idle)
    /\ UNCHANGED <<libpodVars, net, data>>

\* The process dies; libpod, abbot and the disk keep what they have.
Crash ==
    /\ Fault("crash")
    /\ \E w \in Worker : wk[w].pc # "idle"
    /\ wk' = [w \in Worker |-> Idle]
    /\ UNCHANGED <<libpodVars, net, data>>
-----------------------------------------------------------------------------
EnsurePod(w) ==
    \/ EnsureFindPod(w) \/ FindPause(w) \/ LookupPrev(w) \/ CheckAbbot(w)
    \/ CreatePod(w) \/ CreatePause(w) \/ StartPause(w) \/ CheckPause(w)
    \/ ConfigureNetwork(w) \/ InspectPause(w) \/ RestartPause(w) \/ UnpausePause(w)
    \/ PrepareContainer(w) \/ CreateContainer(w) \/ StartContainer(w)
    \/ WaitContainer(w) \/ CheckContainers(w)

DeletePod(w) == DeleteFindPod(w) \/ DeleteFindPause(w) \/ DeleteListed(w)

deletePod(w) == DelFind(w) \/ DelNetwork(w) \/ DelGuard(w) \/ DelRemove(w)

ListPods(w) == ListFind(w) \/ ListNext(w) \/ ListRemove(w)

Handle(w) ==
    EnsurePod(w) \/ DeletePod(w) \/ deletePod(w) \/ ListPods(w) \/ Cleanup(w) \/ Reply(w)

\* A bound: one pod without a UID at a time.
NoForeignPod == PodsWithUID(NoUID) = {}

Engine ==
    /\ \/ \E id \in PodID, c \in Ctr : Fault("exit") /\ ContainerExits(id, c)
       \/ \E id \in PodID, c \in Ctr : Fault("exit") /\ ContainerRestarts(id, c)
       \/ \E id \in PodID, c \in Ctr : Fault("pause") /\ (ContainerPaused(id, c) \/ Unpause(id, c))
       \/ \E id \in FreshID : Fault("foreign") /\ NoForeignPod /\ ForeignPodCreated(id)
    /\ UNCHANGED <<net, data, wk>>

Next == (\E w \in Worker : Accept(w) \/ Handle(w)) \/ Engine \/ Crash

Spec == Init /\ [][Next]_vars

\* A started goroutine keeps running; nothing obliges the peer to send another
\* command, a container to exit or an operator to act.
FairSpec == Spec /\ \A w \in Worker : WF_vars(Handle(w))
-----------------------------------------------------------------------------
(***************************************************************************)
(* Properties that hold however commands interleave.                       *)
(***************************************************************************)
\* findPod never meets its "unexpected multiple pods for single pod uid" error.
OnePodPerUID ==
    \A a, b \in pods : labels[a] = labels[b] /\ labels[a] # NoUID => a = b

\* The pods a step takes out of libpod are removed by a worker that serves a
\* command they belong to.
RemovalStep ==
    \A id \in pods \ pods' :
        \E w \in Worker :
            /\ wk[w].dpod = id /\ wk'[w] # wk[w]
            /\ IF wk[w].req.op = "list"
               THEN labels[id] = NoUID \/ wk[w].pc = "listRemove"
               ELSE /\ wk[w].pc = "delRemove" /\ labels[id] # NoUID
                    /\ PodName[labels[id]] = PodName[wk[w].req.uid]

\* A command for one pod never removes another: the pod a RemovePod call takes
\* away has the name the command is about, even when the worker looked the pod
\* up long before.  Only ListPods removes other pods: those without a pod-uid
\* label, and those whose pause container it did not find.
RemovesOnlyItsPod == [][RemovalStep]_vars

\* Every command is answered, whatever the other workers do to the pod it is
\* about; EnsurePod with options.Wait is the one exception.
EveryCommandAnswered ==
    \A w \in Worker :
        wk[w].pc # "idle" /\ ~wk[w].req.wait ~> wk[w].pc = "idle"

\* EnsurePod with options.Wait blocks in WaitWithInterval, which knows no
\* deadline; deleting the pod is a way to end it.
WaitEndsWithPod ==
    \A w \in Worker :
        wk[w].pc = "waitCtr" /\ wk[w].pod \notin pods ~> wk[w].pc = "idle"
-----------------------------------------------------------------------------
(***************************************************************************)
(* Properties that hold while conflicting commands are not served at the   *)
(* same time.                                                              *)
(***************************************************************************)
\* A pod on the cluster network leaves libpod only once abbot has confirmed
\* that its network is gone ("refuse to delete pod if network not deleted").
NetworkReleased ==
    \A id \in PodID : net[id] # "none" => id \in pods

\* Abbot is there for as long as some pause container needs it ("deny abbot pod
\* deletion if having cluster network containers").
AbbotKept == ClusterPauses # {} => AbbotContainers # {}

\* What a successful EnsurePod reports is there: the pod with this UID, its
\* pause container, each container asked for, and their volumes.
EnsuredPodIsWhole ==
    \A w \in Worker :
        wk[w].pc = "reply" /\ wk[w].resp = "ok" /\ wk[w].req.op = "ensure" =>
            /\ \A c \in wk[w].req.ctrs \cup {Pause} : ContainersOf(wk[w].req.uid, c) # {}
            /\ wk[w].req.ctrs # {} => wk[w].req.uid \in data

\* A pod on the cluster network is reported only with its network configured.
EnsuredPodIsNetworked ==
    \A w \in Worker :
        /\ wk[w].pc = "reply" /\ wk[w].resp = "ok" /\ wk[w].req.op = "ensure"
        /\ wk[w].req.uid \notin HostNetwork
        => \A id \in PodsWithUID(wk[w].req.uid) : net[id] = "up"

\* An EnsurePod that fails takes its containers down again: what may stay is
\* an empty pod, or the abbot pod when other pods need it.
FailedEnsureLeavesNoContainer ==
    \A w \in Worker :
        /\ wk[w].pc = "reply" /\ wk[w].resp = "err" /\ wk[w].req.op = "ensure"
        /\ wk[w].req.uid \in AbbotPod => ClusterPauses = {}
        => \A id \in PodsWithUID(wk[w].req.uid) : ctrs[id] = NoContainers

\* Volume data on disk belongs to a pod that exists or is being handled, or to
\* one whose name another UID has taken over: createPauseContainer deletes the
\* previous pod but not its data, which stays until a DeletePod for that UID.
DataHasOwner ==
    \A u \in data :
        \/ PodsWithUID(u) # {}
        \/ \E w \in Worker : wk[w].pc # "idle" /\ wk[w].req.uid = u
        \/ \E v \in PodUID \ {u} : PodName[v] = PodName[u]
-----------------------------------------------------------------------------
(***************************************************************************)
(* What comments say and the code does not do.                             *)
(***************************************************************************)
\* "pod is there, pause container should present" (EnsurePod).
PausePresent ==
    \A w \in Worker :
        wk[w].pc = "findPause" => ContainersOf(wk[w].req.uid, Pause) # {}

\* "DeletePod kills all containers": a successful DeletePod that names
\* containers leaves none of them.
ListedContainersDeleted ==
    \A w \in Worker :
        wk[w].pc = "reply" /\ wk[w].resp = "ok" /\ wk[w].req.op = "delete" =>
            \A c \in wk[w].req.ctrs \ {Pause} : ContainersOf(wk[w].req.uid, c) = {}

(* ListPods asks abbot only about pods off the host network ("looking up pod ip
   for non-host network pod"): a step that visits a host-network pod does not
   run handleAbbotExec, which would start a stopped abbot container. *)
OnlyClusterPodsQueried ==
    [][\A w \in Worker :
          wk[w].pc = "listNext" /\ wk'[w] # wk[w] /\ ctrs' # ctrs =>
              \A id \in wk[w].lst \ wk'[w].lst : labels[id] \notin HostNetwork]_vars
=============================================================================
