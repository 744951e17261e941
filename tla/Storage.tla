------------------------------ MODULE Storage -------------------------------
(***************************************************************************)
(* The remote volumes of a pod: the storage client, which runs one mounter *)
(* process per mount point and a goroutine that waits for its exit, the    *)
(* handler that mounts a volume again, and the goroutine that creates the  *)
(* pod, mounts its volumes, removes the pod and cleans its data up.        *)
(*                                                                         *)
(* Mount always gets context.TODO(), which is never done.  A critical      *)
(* section of the client is one step; `stuck` says that its lock was not   *)
(* released.  The unmount command detaches the file system at once and the *)
(* mounter exits some time later.                                          *)
(***************************************************************************)
EXTENDS Naturals, FiniteSets

CONSTANTS
    Vol,        \* the mount points of the remote volumes a pod may have
    MaxCmd,     \* bound: mounter processes that are started
    MaxRound,   \* rounds of CleanupPodData
    Drivers,    \* the drivers configured: "nop", the one of an empty
                \*   configuration, which has no commands, or "exec"
    Faults      \* what happens: "exit", "start", "unmount", "lookup"

ASSUME StorageAssumption ==
    /\ MaxCmd \in Nat /\ MaxRound \in Nat
    /\ Drivers \subseteq {"nop", "exec"}
    /\ Faults \subseteq {"exit", "start", "unmount", "lookup"}

Cmd == 1 .. MaxCmd
None == 0
\* Mount is called by the goroutine of the pod and by those that wait for a mounter.
Pod == 0
Caller == {Pod} \cup Cmd

VARIABLES
    stuck,     \* the client's lock is held for good
    mounted,   \* mount point -> its mounter (None: no entry)
    proc,      \* mounter -> its process
    vol,       \* mounter -> the mount point it was started for
    waiting,   \* mounters whose success wait is not over
    passed,    \* mounters whose errCh was closed after the success wait
    mon,       \* mounter -> where its goroutine is
    call,      \* caller -> its call of Mount
    pod,       \* the goroutine of the pod: [pc, todo, round, err]
    podUp,     \* the pause container of the pod exists
    driver,    \* the driver of the storage client
    vols       \* the remote volumes of the pod

config == <<driver, vols>>
vars == <<stuck, mounted, proc, vol, waiting, passed, mon, call, pod, podUp, config>>

Exited == {"exited", "failed"}
NoCall == [pc |-> "idle", vol |-> None, cmd |-> None]
PodPC == {"idle", "mount", "mounting", "up", "remove", "clean", "unmount", "unmounting", "sleep"}

TypeOK ==
    /\ stuck \in BOOLEAN
    /\ mounted \in [Vol -> Cmd \cup {None}]
    /\ proc \in [Cmd -> {"none", "running", "detached"} \cup Exited]
    /\ vol \in [Cmd -> Vol \cup {None}]
    /\ waiting \subseteq Cmd /\ passed \subseteq Cmd
    /\ mon \in [Cmd -> {"none", "wait", "delete", "deleteH", "handler", "mounting", "done"}]
    /\ call \in [Caller -> [pc : {"idle", "mount", "wait", "unmark", "ok", "failed"},
                            vol : Vol \cup {None}, cmd : Cmd \cup {None}]]
    /\ pod \in [pc : PodPC, todo : SUBSET Vol, round : 0 .. MaxRound, err : BOOLEAN]
    /\ podUp \in BOOLEAN
    /\ driver \in Drivers /\ vols \in SUBSET Vol

Init ==
    /\ stuck = FALSE
    /\ mounted = [v \in Vol |-> None]
    /\ proc = [c \in Cmd |-> "none"] /\ vol = [c \in Cmd |-> None]
    /\ waiting = {} /\ passed = {}
    /\ mon = [c \in Cmd |-> "none"]
    /\ call = [k \in Caller |-> NoCall]
    /\ pod = [pc |-> "idle", todo |-> {}, round |-> 0, err |-> FALSE]
    /\ podUp = FALSE
    /\ driver \in Drivers /\ vols \in SUBSET Vol

Nop == driver = "nop"
-----------------------------------------------------------------------------
(***************************************************************************)
(* Client.Mount                                                            *)
(***************************************************************************)
InUse(v) == mounted[v] # None
InProcess(v) == \E c \in waiting : vol[c] = v
Fresh == {c \in Cmd : proc[c] = "none" /\ \A d \in 1 .. c - 1 : proc[d] # "none"}

MountRefusedLocked(k) ==
    /\ call[k].pc = "mount" /\ ~ stuck
    /\ InUse(call[k].vol) \/ InProcess(call[k].vol)
    /\ call' = [call EXCEPT ![k].pc = "failed"]
    /\ stuck' = TRUE
    /\ UNCHANGED <<mounted, proc, vol, waiting, passed, mon, pod, podUp, config>>

MountRefused(k) ==
    /\ call[k].pc = "mount" /\ ~ stuck
    /\ InUse(call[k].vol) \/ InProcess(call[k].vol)
    /\ call' = [call EXCEPT ![k].pc = "failed"]
    /\ UNCHANGED <<stuck, mounted, proc, vol, waiting, passed, mon, pod, podUp, config>>

\* An empty mount command is an error, and the lock is not released.
MountNoCommand(k) ==
    /\ call[k].pc = "mount" /\ ~ stuck
    /\ ~ InUse(call[k].vol) /\ ~ InProcess(call[k].vol) /\ Nop
    /\ stuck' = TRUE
    /\ call' = [call EXCEPT ![k].pc = "failed"]
    /\ UNCHANGED <<mounted, proc, vol, waiting, passed, mon, pod, podUp, config>>

MountStartFails(k) ==
    /\ call[k].pc = "mount" /\ ~ stuck
    /\ ~ InUse(call[k].vol) /\ ~ InProcess(call[k].vol) /\ ~ Nop
    /\ "start" \in Faults \/ Fresh = {}
    /\ call' = [call EXCEPT ![k].pc = "failed"]
    /\ UNCHANGED <<stuck, mounted, proc, vol, waiting, passed, mon, pod, podUp, config>>

MountStarts(k) ==
    /\ call[k].pc = "mount" /\ ~ stuck
    /\ ~ InUse(call[k].vol) /\ ~ InProcess(call[k].vol) /\ ~ Nop
    /\ \E c \in Fresh :
          /\ proc' = [proc EXCEPT ![c] = "running"]
          /\ vol' = [vol EXCEPT ![c] = call[k].vol]
          /\ waiting' = waiting \cup {c}
          /\ mounted' = [mounted EXCEPT ![call[k].vol] = c]
          /\ mon' = [mon EXCEPT ![c] = "wait"]
          /\ call' = [call EXCEPT ![k].pc = "wait", ![k].cmd = c]
    /\ UNCHANGED <<stuck, passed, pod, podUp, config>>

\* routine closes errCh when the success wait is over.
SuccessWaitOver(c) ==
    /\ c \in waiting
    /\ waiting' = waiting \ {c}
    /\ passed' = passed \cup {c}
    /\ UNCHANGED <<stuck, mounted, proc, vol, mon, call, pod, podUp, config>>

MountPassed(k) ==
    /\ call[k].pc = "wait" /\ call[k].cmd \in passed
    /\ call' = [call EXCEPT ![k].pc = "ok"]
    /\ UNCHANGED <<stuck, mounted, proc, vol, waiting, passed, mon, pod, podUp, config>>

\* The mounter exits during the wait: its goroutine sends what Wait returned,
\* which is nil for exit code 0.
MountSeesExit(k) ==
    /\ call[k].pc = "wait"
    /\ LET c == call[k].cmd
       IN /\ c \notin passed /\ mon[c] = "wait" /\ proc[c] \in Exited
          /\ mon' = [mon EXCEPT ![c] = "delete"]
          /\ call' = [call EXCEPT ![k].pc = IF proc[c] = "failed" THEN "unmark" ELSE "ok"]
    /\ UNCHANGED <<stuck, mounted, proc, vol, waiting, passed, pod, podUp, config>>

MountUnmarks(k) ==
    /\ call[k].pc = "unmark" /\ ~ stuck
    /\ mounted' = [mounted EXCEPT ![call[k].vol] = None]
    /\ call' = [call EXCEPT ![k].pc = "failed"]
    /\ UNCHANGED <<stuck, proc, vol, waiting, passed, mon, pod, podUp, config>>
-----------------------------------------------------------------------------
(***************************************************************************)
(* The mounter and the goroutine that waits for it.                        *)
(***************************************************************************)
MounterExits(c) ==
    /\ \/ proc[c] = "running" /\ "exit" \in Faults
       \/ proc[c] = "detached"
    /\ \E e \in Exited : proc' = [proc EXCEPT ![c] = e]
    /\ UNCHANGED <<stuck, mounted, vol, waiting, passed, mon, call, pod, podUp, config>>

\* errCh is closed: the send panics, and the panic is recovered.
MonitorPanics(c) ==
    /\ mon[c] = "wait" /\ proc[c] \in Exited /\ c \in passed
    /\ mon' = [mon EXCEPT ![c] = "deleteH"]
    /\ UNCHANGED <<stuck, mounted, proc, vol, waiting, passed, call, pod, podUp, config>>

MonitorForgets(c) ==
    /\ mon[c] \in {"delete", "deleteH"} /\ ~ stuck
    /\ mon' = [mon EXCEPT ![c] = IF mon[c] = "deleteH" THEN "handler" ELSE "done"]
    /\ UNCHANGED <<stuck, mounted, proc, vol, waiting, passed, call, pod, podUp, config>>

MonitorDeletes(c) ==
    /\ mon[c] \in {"delete", "deleteH"} /\ ~ stuck
    /\ mounted' = [mounted EXCEPT ![vol[c]] = None]
    /\ mon' = [mon EXCEPT ![c] = IF mon[c] = "deleteH" THEN "handler" ELSE "done"]
    /\ UNCHANGED <<stuck, proc, vol, waiting, passed, call, pod, podUp, config>>

HandlerGivesUpAtError(c) ==
    /\ mon[c] = "handler"
    /\ mon' = [mon EXCEPT ![c] = "done"]
    /\ UNCHANGED <<stuck, mounted, proc, vol, waiting, passed, call, pod, podUp, config>>

\* handleStorageFailure gives up when the pause container is not found; any other
\* error of the lookup does not stop it.
HandlerGivesUp(c) ==
    /\ mon[c] = "handler" /\ ~ podUp
    /\ mon' = [mon EXCEPT ![c] = "done"]
    /\ UNCHANGED <<stuck, mounted, proc, vol, waiting, passed, call, pod, podUp, config>>

HandlerMounts(c) ==
    /\ mon[c] = "handler" /\ (podUp \/ "lookup" \in Faults)
    /\ mon' = [mon EXCEPT ![c] = "mounting"]
    /\ call' = [call EXCEPT ![c] = [pc |-> "mount", vol |-> vol[c], cmd |-> None]]
    /\ UNCHANGED <<stuck, mounted, proc, vol, waiting, passed, pod, podUp, config>>

\* An error of Mount is logged.
HandlerReturns(c) ==
    /\ mon[c] = "mounting" /\ call[c].pc \in {"ok", "failed"}
    /\ mon' = [mon EXCEPT ![c] = "done"]
    /\ call' = [call EXCEPT ![c] = NoCall]
    /\ UNCHANGED <<stuck, mounted, proc, vol, waiting, passed, pod, podUp, config>>
-----------------------------------------------------------------------------
(***************************************************************************)
(* The goroutine of the pod.                                               *)
(***************************************************************************)
PodCreated ==
    /\ pod.pc = "idle"
    /\ podUp' = TRUE
    /\ pod' = [pc |-> "mount", todo |-> vols, round |-> 0, err |-> FALSE]
    /\ UNCHANGED <<stuck, mounted, proc, vol, waiting, passed, mon, call, config>>

PodMounts ==
    /\ pod.pc = "mount"
    /\ \E v \in pod.todo :
          /\ call' = [call EXCEPT ![Pod] = [pc |-> "mount", vol |-> v, cmd |-> None]]
          /\ pod' = [pod EXCEPT !.pc = "mounting", !.todo = @ \ {v}]
    /\ UNCHANGED <<stuck, mounted, proc, vol, waiting, passed, mon, podUp, config>>

\* A volume that cannot be mounted fails EnsurePod, which removes the pod.
PodMountReturns ==
    /\ pod.pc = "mounting" /\ call[Pod].pc \in {"ok", "failed"}
    /\ pod' = [pod EXCEPT !.pc = IF call[Pod].pc = "ok" THEN "mount" ELSE "remove"]
    /\ call' = [call EXCEPT ![Pod] = NoCall]
    /\ UNCHANGED <<stuck, mounted, proc, vol, waiting, passed, mon, podUp, config>>

PodRuns ==
    /\ pod.pc = "mount" /\ pod.todo = {}
    /\ pod' = [pod EXCEPT !.pc = "up"]
    /\ UNCHANGED <<stuck, mounted, proc, vol, waiting, passed, mon, call, podUp, config>>

PodDeleteAsked ==
    /\ pod.pc = "up"
    /\ pod' = [pod EXCEPT !.pc = "remove"]
    /\ UNCHANGED <<stuck, mounted, proc, vol, waiting, passed, mon, call, podUp, config>>

\* The pod goes first, the deferred CleanupPodData follows.
PodRemoved ==
    /\ pod.pc = "remove"
    /\ podUp' = FALSE
    /\ pod' = [pod EXCEPT !.pc = "clean", !.round = 0]
    /\ UNCHANGED <<stuck, mounted, proc, vol, waiting, passed, mon, call, config>>

\* RemoveAllOneFilesystem fails on a directory where a file system is mounted.
Removable == \A c \in Cmd : proc[c] # "running"

CleanRemoves ==
    /\ pod.pc = "clean"
    /\ pod' = IF Removable \/ pod.round = MaxRound
              THEN [pod EXCEPT !.pc = "idle"]
              ELSE [pod EXCEPT !.pc = "unmount", !.todo = vols, !.err = TRUE]
    /\ UNCHANGED <<stuck, mounted, proc, vol, waiting, passed, mon, call, podUp, config>>

\* Client.Unmount forgets the mounter, then runs the unmount command.
CleanUnmounts ==
    /\ pod.pc = "unmount" /\ ~ stuck
    /\ \E v \in pod.todo :
          /\ pod' = [pod EXCEPT !.todo = @ \ {v},
                                !.pc = IF InUse(v) THEN "unmounting" ELSE "unmount",
                                !.err = FALSE]
          /\ call' = [call EXCEPT ![Pod] = [pc |-> "idle", vol |-> v, cmd |-> mounted[v]]]
          /\ mounted' = [mounted EXCEPT ![v] = None]
    /\ UNCHANGED <<stuck, proc, vol, waiting, passed, mon, podUp, config>>

CleanUnmountCmd ==
    /\ pod.pc = "unmounting"
    /\ LET c == call[Pod].cmd
       IN \/ /\ ~ Nop
             /\ proc' = [proc EXCEPT ![c] = IF @ = "running" THEN "detached" ELSE @]
             /\ pod' = [pod EXCEPT !.pc = "unmount"]
          \/ /\ Nop \/ "unmount" \in Faults
             /\ pod' = [pod EXCEPT !.pc = "unmount", !.err = TRUE]
             /\ proc' = proc
    /\ call' = [call EXCEPT ![Pod] = NoCall]
    /\ UNCHANGED <<stuck, mounted, vol, waiting, passed, mon, podUp, config>>

CleanRoundUncounted ==
    /\ pod.pc = "unmount" /\ pod.todo = {}
    /\ pod' = IF pod.err THEN [pod EXCEPT !.todo = vols] ELSE [pod EXCEPT !.pc = "clean"]
    /\ call' = [call EXCEPT ![Pod] = NoCall]
    /\ UNCHANGED <<stuck, mounted, proc, vol, waiting, passed, mon, podUp, config>>

\* The directory is only tried again when the last unmount of the round was fine.
CleanRoundEnds ==
    /\ pod.pc = "unmount" /\ pod.todo = {}
    /\ pod' = IF pod.err /\ pod.round + 1 < MaxRound
              THEN [pod EXCEPT !.round = @ + 1, !.todo = vols]
              ELSE [pod EXCEPT !.pc = "clean", !.round = @ + 1]
    /\ call' = [call EXCEPT ![Pod] = NoCall]
    /\ UNCHANGED <<stuck, mounted, proc, vol, waiting, passed, mon, podUp, config>>
-----------------------------------------------------------------------------
MountStep(k) ==
    \/ MountRefused(k) \/ MountNoCommand(k) \/ MountStartFails(k) \/ MountStarts(k)
    \/ MountPassed(k) \/ MountSeesExit(k) \/ MountUnmarks(k)

MonitorStep(c) ==
    \/ MonitorPanics(c) \/ MonitorDeletes(c)
    \/ HandlerGivesUp(c) \/ HandlerMounts(c) \/ HandlerReturns(c)

PodStep ==
    \/ PodMounts \/ PodMountReturns \/ PodRuns \/ PodRemoved
    \/ CleanRemoves \/ CleanUnmounts \/ CleanUnmountCmd \/ CleanRoundEnds

Next ==
    \/ PodStep \/ PodCreated \/ PodDeleteAsked
    \/ \E k \in Caller : MountStep(k)
    \/ \E c \in Cmd : MonitorStep(c) \/ SuccessWaitOver(c) \/ MounterExits(c)

Spec == Init /\ [][Next]_vars

\* Goroutines that can go on do, and the timer of the success wait fires.  Nobody
\* need ask for a pod or its deletion, and a mounter need not exit.
FairSpec ==
    /\ Spec
    /\ WF_vars(PodStep)
    /\ \A k \in Caller : WF_vars(MountStep(k))
    /\ \A c \in Cmd : WF_vars(MonitorStep(c)) /\ WF_vars(SuccessWaitOver(c))
-----------------------------------------------------------------------------
\* A mount point is marked as mounted only while a goroutine waits for its
\* mounter: a stale mark would refuse every later Mount.
NoStaleMark ==
    \A v \in Vol : mounted[v] # None =>
        /\ vol[mounted[v]] = v
        /\ mon[mounted[v]] \in {"wait", "delete", "deleteH"}

\* With a driver that has commands every call of Mount returns: none waits for
\* the lock or for errCh forever.  Without commands MountNoCommand keeps the lock.
MountReturns ==
    \A k \in Caller : ~ Nop /\ call[k].pc \in {"mount", "wait", "unmark"}
                        ~> call[k].pc \in {"idle", "ok", "failed"}

\* A pod that is removed gets its data cleaned up, in a bounded number of rounds,
\* with either driver: one without commands has mounted nothing to wait for.
CleanupEnds == pod.pc = "remove" ~> pod.pc = "idle"

\* A mounter that exits after its success wait is mounted again while its pod is
\* there: handleStorageFailure calls Mount.
RemountTried ==
    \A c \in Cmd : proc[c] \in Exited /\ c \in passed /\ mon[c] = "wait"
                     ~> ~ podUp \/ mon[c] = "mounting"

\* Mount returns without an error only after the initial success wait.
SuccessMeansPassed == \A k \in Caller : call[k].pc = "ok" => call[k].cmd \in passed

\* Once the pod is not found there is no more remount action.
NoRemountOfRemovedPod ==
    [][\A c \in Cmd : proc[c] = "none" /\ proc'[c] # "none" => podUp]_vars

\* Only a mounter that has exited is marked as not mounted by the goroutine that
\* waited for it.
OnlyExitedUnmarked ==
    [][\A c \in Cmd : mon[c] \in {"delete", "deleteH"} /\ mon'[c] # mon[c] =>
          \A d \in Cmd : mounted[vol[c]] = d => mounted'[vol[c]] = d \/ proc[d] \in Exited]_vars
=============================================================================
