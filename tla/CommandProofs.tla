---------------------------- MODULE CommandProofs ---------------------------
(***************************************************************************)
(* What finished commands leave behind, for any set of pods, workers and   *)
(* requests: a successful EnsurePod leaves the whole pod, and abbot        *)
(* outlives every pod that needs it.                                       *)
(*                                                                         *)
(* The steps are first put into a plainer form by what they do to the pods *)
(* and containers of the database (SameObjects .. Lost).  The invariants   *)
(* are then proved label by label.                                         *)
(***************************************************************************)
EXTENDS NetworkProofs
-----------------------------------------------------------------------------
(***************************************************************************)
(* What the steps do to the pods and containers of the database.           *)
(***************************************************************************)
\* A work container has its pod's pause container beside it.
WorkHasPause == \A id \in PodID, c \in Ctr : Exists(id, c) => Exists(id, Pause)

\* No pod or container comes or goes.
SameObjects ==
    /\ pods' = pods /\ labels' = labels
    /\ \A id \in PodID, c \in Ctr : Exists(id, c)' <=> Exists(id, c)

\* A pod without containers comes.
Added(x, uid) ==
    /\ x \in PodID \ pods
    /\ pods' = pods \cup {x}
    /\ labels' = [labels EXCEPT ![x] = uid]
    /\ \A id \in PodID, c \in Ctr : Exists(id, c)' <=> Exists(id, c)

\* Container d of pod x comes.
Created(x, d) ==
    /\ x \in pods /\ ~Exists(x, d)
    /\ d # Pause => Exists(x, Pause)
    /\ pods' = pods /\ labels' = labels
    /\ \A id \in PodID, c \in Ctr : Exists(id, c)' <=> Exists(id, c) \/ (id = x /\ c = d)

\* The containers of pod x go, with the pod or without it.
Lost(x) ==
    /\ x \in pods
    /\ pods' \in {pods, pods \ {x}} /\ labels' = labels
    /\ \A id \in PodID, c \in Ctr : Exists(id, c)' <=> Exists(id, c) /\ id # x

\* The libpod calls do one of these.
LEMMA QuietCalls ==
    ASSUME TypeOK, WorkHasPause
    PROVE  /\ UNCHANGED libpodVars => SameObjects
           /\ \A id, c : c \in Ctr /\ (Start(id, c) \/ Unpause(id, c) \/ StartAll(id, c)) => SameObjects
           /\ AbbotExecOK \/ AbbotExecFails => SameObjects
  <1>0. Pause \in Ctr /\ Abbot \in Ctr
    BY LibpodAssumption DEF Pause, Abbot, Ctr
  <1>1. UNCHANGED libpodVars => SameObjects
    BY SMTT(60) DEF libpodVars, SameObjects, Exists
  <1>2. ASSUME NEW x, NEW d \in Ctr, Start(x, d) \/ Unpause(x, d) PROVE SameObjects
    <2>1. /\ x \in PodID /\ x \in pods /\ ctrs[x][d] # "none"
          /\ ctrs' = [ctrs EXCEPT ![x][d] = "running"] /\ pods' = pods /\ labels' = labels
      BY <1>2, SMTT(60) DEF Start, Unpause, CanStart, Startable, TypeOK, LibpodTypeOK
    <2>2. \A id \in PodID, c \in Ctr : ctrs'[id][c] = IF id = x /\ c = d THEN "running" ELSE ctrs[id][c]
      BY <2>1, SMTT(60) DEF TypeOK, LibpodTypeOK
    <2> QED
      BY <2>1, <2>2, SMTT(60) DEF SameObjects, Exists
  <1>3. ASSUME NEW x, NEW d \in Ctr, StartAll(x, d) PROVE SameObjects
    <2>1. /\ x \in PodID /\ x \in pods /\ ctrs[x][d] # "none"
          /\ ctrs' = [ctrs EXCEPT ![x][Pause] = "running", ![x][d] = "running"]
          /\ pods' = pods /\ labels' = labels
      BY <1>3, SMTT(60) DEF StartAll, CanStartAll, Startable, TypeOK, LibpodTypeOK
    <2>2. \A id \in PodID, c \in Ctr :
             ctrs'[id][c] = IF id = x /\ c \in {Pause, d} THEN "running" ELSE ctrs[id][c]
      BY <1>0, <2>1, SMTT(60) DEF TypeOK, LibpodTypeOK
    <2>3. ctrs[x][Pause] # "none"
      BY <2>1, <1>0, SMTT(60) DEF WorkHasPause, Exists
    <2>4. ASSUME NEW id \in PodID, NEW c \in Ctr
          PROVE  ctrs'[id][c] = "none" <=> ctrs[id][c] = "none"
      <3>1. CASE id = x /\ c \in {Pause, d}
        <4>1. ctrs'[id][c] = "running"
          BY <2>2, <3>1
        <4>2. ctrs[id][c] # "none"
          BY <2>1, <2>3, <3>1
        <4> QED
          BY <4>1, <4>2
      <3>2. CASE ~(id = x /\ c \in {Pause, d})
        BY <2>2, <3>2
      <3> QED
        BY <3>1, <3>2
    <2> QED
      BY <2>1, <2>4, Zenon DEF SameObjects, Exists
  <1>4. AbbotExecOK \/ AbbotExecFails => SameObjects
    BY <1>0, <1>1, <1>3, Zenon DEF AbbotExecOK, AbbotExecFails
  <1> QED
    BY <1>1, <1>2, <1>3, <1>4, Zenon

LEMMA ObjectCalls ==
    ASSUME TypeOK
    PROVE  /\ \A id \in PodID : \A uid : NewPod(id, uid) => Added(id, uid)
           /\ \A id \in PodID : ForeignPodCreated(id) => Added(id, NoUID)
           /\ \A id, c, dep : c \in Ctr /\ NewContainer(id, c, dep) => Created(id, c)
           /\ \A id : RemovePod(id) \/ RemovePodContainers(id) => Lost(id)
  <1>1. ASSUME NEW x \in PodID, NEW uid, NewPod(x, uid) \/ (uid = NoUID /\ ForeignPodCreated(x))
        PROVE  Added(x, uid)
    <2>1. /\ x \notin pods /\ pods' = pods \cup {x} /\ labels' = [labels EXCEPT ![x] = uid]
          /\ ctrs' = [ctrs EXCEPT ![x] = NoContainers]
      BY <1>1, SMTT(60) DEF NewPod, ForeignPodCreated
    <2>2. \A id \in PodID, c \in Ctr : ctrs'[id][c] = IF id = x THEN "none" ELSE ctrs[id][c]
      BY <2>1, SMTT(60) DEF TypeOK, LibpodTypeOK, NoContainers
    <2>3. \A id \in PodID, c \in Ctr : Exists(id, c)' <=> Exists(id, c)
      BY <2>1, <2>2, SMTT(60) DEF Exists
    <2> QED
      BY <2>1, <2>3, Zenon DEF Added
  <1>2. ASSUME NEW x, NEW d \in Ctr, NEW dep, NewContainer(x, d, dep) PROVE Created(x, d)
    <2>1. /\ x \in PodID /\ x \in pods /\ ctrs' = [ctrs EXCEPT ![x][d] = "created"]
          /\ pods' = pods /\ labels' = labels /\ (d # Pause => Exists(x, Pause))
          /\ ctrs[x][d] = "none"
      BY <1>2, SMTT(60) DEF NewContainer, CanCreate, TypeOK, LibpodTypeOK
    <2>2. \A id \in PodID, c \in Ctr : ctrs'[id][c] = IF id = x /\ c = d THEN "created" ELSE ctrs[id][c]
      BY <2>1, SMTT(60) DEF TypeOK, LibpodTypeOK
    <2> QED
      BY <2>1, <2>2, SMTT(60) DEF Created, Exists
  <1>3. ASSUME NEW x, RemovePod(x) \/ RemovePodContainers(x) PROVE Lost(x)
    <2>1. /\ x \in PodID /\ x \in pods /\ ctrs' = [ctrs EXCEPT ![x] = NoContainers]
          /\ pods' \in {pods, pods \ {x}} /\ labels' = labels
      BY <1>3, SMTT(60) DEF RemovePod, RemovePodContainers, TypeOK, LibpodTypeOK
    <2>2. \A id \in PodID, c \in Ctr : ctrs'[id][c] = IF id = x THEN "none" ELSE ctrs[id][c]
      BY <2>1, SMTT(60) DEF TypeOK, LibpodTypeOK, NoContainers
    <2> QED
      BY <2>1, <2>2, SMTT(60) DEF Lost, Exists
  <1> QED
    BY <1>1, <1>2, <1>3, Zenon

\* What a step of a handler does.
LEMMA HandleEffects ==
    ASSUME TypeOK, WorkHasPause, NEW w \in Worker, Handle(w)
    PROVE  \/ SameObjects
           \/ /\ CreatePod(w)
              /\ \E id \in FreshID : Added(id, wk[w].req.uid) /\ GoesWithPod(w, "newPause", id)
           \/ CreatePause(w) /\ Created(wk[w].pod, Pause) /\ wk'[w].pc = "startPause"
           \/ CreateContainer(w) /\ \E c \in Ctr : Created(wk[w].pod, c)
           \/ (DelRemove(w) \/ ListRemove(w)) /\ Lost(wk[w].dpod)
  <1>0. Pause \in Ctr /\ FreshID \subseteq PodID
    BY LibpodAssumption DEF Pause, Ctr, FreshID
  <1>1. CASE UNCHANGED libpodVars
    BY <1>1, QuietCalls, Zenon
  <1>2. CASE CreatePod(w)
    BY <1>0, <1>1, <1>2, PauseMoves, ObjectCalls, ZenonT(60)
  <1>3. CASE CreatePause(w)
    <2>1. GoesWithCtr(w, "startPause", wk[w].pod) => wk'[w].pc = "startPause"
      BY DEF GoesWithCtr
    <2> QED
      BY <1>0, <1>1, <1>3, <2>1, PauseMoves, ObjectCalls, ZenonT(60)
  <1>4. CASE CreateContainer(w)
    BY <1>1, <1>4, ContainerMoves, ObjectCalls, ZenonT(60)
  <1>5. CASE StartPause(w) \/ RestartPause(w) \/ UnpausePause(w)
    BY <1>0, <1>1, <1>5, PauseMoves, QuietCalls, ZenonT(60)
  <1>6. CASE StartContainer(w)
    BY <1>1, <1>6, ContainerMoves, QuietCalls, ZenonT(60)
  <1>7. CASE ConfigureNetwork(w) \/ DelNetwork(w)
    BY <1>7, PauseMoves, DeleteSteps, QuietCalls, ZenonT(60)
  <1>8. CASE DelRemove(w) \/ ListRemove(w)
    <2>1. UNCHANGED libpodVars \/ RemovePod(wk[w].dpod) \/ RemovePodContainers(wk[w].dpod)
      BY <1>8, ZenonT(60) DEF DelRemove, ListRemove, RemoveFails
    <2> QED
      BY <1>1, <1>8, <2>1, ObjectCalls, Zenon
  <1>9. CASE ListNext(w)
    BY <1>1, <1>9, QuietCalls, ZenonT(60) DEF ListNext, Queried
  <1>10. CASE \/ EnsureFindPod(w) \/ FindPause(w) \/ LookupPrev(w) \/ CheckAbbot(w) \/ CheckPause(w)
              \/ InspectPause(w) \/ PrepareContainer(w) \/ WaitContainer(w) \/ CheckContainers(w)
    BY <1>1, <1>10, ZenonT(60) DEF EnsureFindPod, FindPause, LookupPrev, CheckAbbot, CheckPause,
           InspectPause, PrepareContainer, WaitContainer, CheckContainers, libpodVars
  <1>11. CASE \/ DeletePod(w) \/ DelFind(w) \/ DelGuard(w) \/ ListFind(w) \/ Cleanup(w) \/ Reply(w)
    BY <1>1, <1>11, ZenonT(60) DEF DeletePod, DeleteFindPod, DeleteFindPause, DeleteListed,
           DelFind, DelGuard, ListFind, Cleanup, Reply, libpodVars
  <1> QED
    BY <1>2, <1>3, <1>4, <1>5, <1>6, <1>7, <1>8, <1>9, <1>10, <1>11, Zenon
       DEF Handle, EnsurePod, deletePod, ListPods

\* Every step is one of: a step of one worker; the engine's; the end of the
\* process, by a crash or by a panic; a stutter.
OthersKept(w) == \A v \in Worker : v # w => wk'[v] = wk[v]

LEMMA StepForms ==
    ASSUME TypeOK, WorkHasPause, [Next]_vars
    PROVE  \/ \E w \in Worker : Accept(w) /\ OthersKept(w) /\ SameObjects
           \/ \E w \in Worker : Handle(w) /\ OthersKept(w)
           \/ /\ SameObjects \/ (\E id \in FreshID : Added(id, NoUID))
              /\ UNCHANGED <<net, data, wk>>
           \/ /\ wk' = [w \in Worker |-> Idle] /\ SameObjects /\ UNCHANGED net
              /\ \/ Crash /\ UNCHANGED data
                 \/ \E w \in Worker : Cleanup(w)
  <1>0. FreshID \subseteq PodID
    BY DEF FreshID
  <1>1. CASE UNCHANGED vars
    BY <1>1, QuietCalls, Zenon DEF vars, libpodVars
  <1>2. CASE Crash
    BY <1>2, QuietCalls, Zenon DEF Crash
  <1>3. CASE Engine
    <2>1. \A id, c : ContainerRestarts(id, c) => Start(id, c)
      BY Zenon DEF ContainerRestarts
    <2>2. ASSUME NEW x \in PodID, NEW d \in Ctr, ContainerExits(x, d) \/ ContainerPaused(x, d)
          PROVE  SameObjects
      <3>1. PICK st \in {"exited", "paused"} :
               /\ ctrs' = [ctrs EXCEPT ![x][d] = st] /\ pods' = pods /\ labels' = labels
               /\ ctrs[x][d] # "none"
        BY <2>2, SMTT(60) DEF ContainerExits, ContainerPaused
      <3>2. \A id \in PodID, c \in Ctr : ctrs'[id][c] = IF id = x /\ c = d THEN st ELSE ctrs[id][c]
        BY <3>1, SMTT(60) DEF TypeOK, LibpodTypeOK
      <3> QED
        BY <3>1, <3>2, SMTT(60) DEF SameObjects, Exists
    <2>3. SameObjects \/ (\E id \in FreshID : Added(id, NoUID))
      BY <1>0, <1>3, <2>1, <2>2, QuietCalls, ObjectCalls, ZenonT(60) DEF Engine
    <2> QED
      BY <1>3, <2>3, Zenon DEF Engine
  <1>4. ASSUME NEW w \in Worker, Accept(w)
        PROVE  OthersKept(w) /\ SameObjects
    <2>1. UNCHANGED libpodVars /\ \E r : Step(w, r)
      BY <1>4, Zenon DEF Accept
    <2>2. OthersKept(w)
      BY <2>1, SMTT(60) DEF Step, OthersKept, TypeOK
    <2> QED
      BY <2>1, <2>2, QuietCalls, Zenon
  <1>5. ASSUME NEW w \in Worker, Handle(w), ~Cleanup(w)
        PROVE  OthersKept(w)
    <2>1. \E r : Step(w, r)
      <3>1. CASE EnsurePod(w)
        BY <3>1, ZenonT(60) DEF EnsurePod, EnsureFindPod, FindPause, LookupPrev, CheckAbbot, CreatePod,
             CreatePause, StartPause, CheckPause, ConfigureNetwork, InspectPause, RestartPause,
             UnpausePause, PrepareContainer, CreateContainer, StartContainer, WaitContainer,
             CheckContainers
      <3>2. CASE DeletePod(w) \/ deletePod(w)
        BY <3>2, ZenonT(60) DEF DeletePod, DeleteFindPod, DeleteFindPause, DeleteListed, deletePod, DelFind,
             DelNetwork, DelGuard, DelRemove
      <3>3. CASE ListPods(w) \/ Reply(w)
        BY <3>3, ZenonT(60) DEF ListPods, ListFind, ListNext, ListRemove, Reply
      <3> QED
        BY <1>5, <3>1, <3>2, <3>3, Zenon DEF Handle
    <2> QED
      BY <2>1, SMTT(60) DEF Step, OthersKept, TypeOK
  <1>6. ASSUME NEW w \in Worker, Cleanup(w)
        PROVE  \/ OthersKept(w)
               \/ wk' = [v \in Worker |-> Idle] /\ SameObjects /\ UNCHANGED net
    <2>1. UNCHANGED libpodVars /\ UNCHANGED net
      BY <1>6, Zenon DEF Cleanup, libpodVars
    <2>2. wk' = [v \in Worker |-> Idle] \/ \E r : Step(w, r)
      <3>1. CASE wk[w].resp = "panic"
        BY <1>6, <3>1, Zenon DEF Cleanup
      <3>2. CASE wk[w].resp # "panic"
        <4>1. Step(w, Goto(w, "reply"))
          BY <1>6, <3>2, Zenon DEF Cleanup, Step
        <4> QED
          BY <4>1, Zenon
      <3> QED
        BY <3>1, <3>2
    <2>3. (\E r : Step(w, r)) => OthersKept(w)
      BY SMTT(60) DEF Step, OthersKept, TypeOK
    <2> QED
      BY <2>1, <2>2, <2>3, QuietCalls, Zenon
  <1> QED
    BY <1>1, <1>2, <1>3, <1>4, <1>5, <1>6, Zenon DEF Next, Handle

\* Containers join the pause container of their pod, and go with it.
LEMMA PauseStep ==
    ASSUME TypeOK, WorkHasPause, [Next]_vars
    PROVE  WorkHasPause'
  <1>0. Pause \in Ctr
    BY LibpodAssumption DEF Pause, Ctr
  <1>1. CASE SameObjects
    BY <1>0, <1>1, SMTT(60) DEF SameObjects, WorkHasPause
  <1>2. ASSUME NEW x, NEW uid, Added(x, uid) PROVE WorkHasPause'
    BY <1>0, <1>2, SMTT(60) DEF Added, WorkHasPause
  <1>3. ASSUME NEW x, NEW d \in Ctr, Created(x, d) PROVE WorkHasPause'
    BY <1>0, <1>3, SMTT(60) DEF Created, WorkHasPause
  <1>4. ASSUME NEW x, Lost(x) PROVE WorkHasPause'
    BY <1>0, <1>4, SMTT(60) DEF Lost, WorkHasPause
  <1> QED
    BY <1>0, <1>1, <1>2, <1>3, <1>4, StepForms, HandleEffects, ZenonT(60)

\* What became of worker v.
LEMMA WorkerForms ==
    ASSUME TypeOK, WorkHasPause, [Next]_vars, NEW v \in Worker
    PROVE  \/ wk'[v] = Idle
           \/ wk'[v].pc \in {"findPod", "deleteFindPod", "listFind"}
           \/ Handle(v)
           \/ wk'[v] = wk[v]
  <1>1. ASSUME Accept(v) PROVE wk'[v].pc \in {"findPod", "deleteFindPod", "listFind"}
    <2>1. PICK r \in Requests : Step(v, [Idle EXCEPT !.req = r, !.pc = Entry(r.op)])
      BY <1>1, Zenon DEF Accept
    <2>2. Entry(r.op) \in {"findPod", "deleteFindPod", "listFind"}
      BY RuntimeAssumption DEF Entry, Request
    <2>3. wk'[v] = [Idle EXCEPT !.req = r, !.pc = Entry(r.op)]
      BY <2>1, PlainSteps, Zenon
    <2> QED
      BY <2>2, <2>3 DEF Idle
  <1>2. wk' = [w \in Worker |-> Idle] => wk'[v] = Idle
    OBVIOUS
  <1>3. UNCHANGED <<net, data, wk>> => wk'[v] = wk[v]
    BY Zenon
  <1> QED
    BY <1>1, <1>2, <1>3, StepForms, ZenonT(60) DEF OthersKept

\* A pod or a container that goes is removed by deletePod or by ListPods.
LEMMA ObjectsRemoved ==
    ASSUME TypeOK, WorkHasPause, [Next]_vars, NEW id \in pods,
           ~(id \in pods' /\ \A c \in Ctr : Exists(id, c) => Exists(id, c)')
    PROVE  \E w \in Worker : (DelRemove(w) \/ ListRemove(w)) /\ wk[w].dpod = id
  <1>0. id \in PodID
    BY DEF TypeOK, LibpodTypeOK
  <1>1. ~SameObjects
    BY <1>0, SMTT(60) DEF SameObjects
  <1>2. ASSUME NEW x, NEW uid PROVE ~Added(x, uid)
    BY <1>0, SMTT(60) DEF Added
  <1>3. ASSUME NEW x, NEW d PROVE ~Created(x, d)
    BY <1>0, SMTT(60) DEF Created
  <1>4. ASSUME NEW x, Lost(x) PROVE x = id
    BY <1>0, <1>4, SMTT(60) DEF Lost
  <1> QED
    BY <1>1, <1>2, <1>3, <1>4, StepForms, HandleEffects, ZenonT(60)

\* The label of a pod stays.
LEMMA LabelStays ==
    ASSUME TypeOK, WorkHasPause, [Next]_vars, NEW id \in pods
    PROVE  labels'[id] = labels[id]
  <1>0. id \in PodID /\ labels \in [PodID -> PodUID \cup {NoUID}]
    BY DEF TypeOK, LibpodTypeOK
  <1>1. SameObjects => labels'[id] = labels[id]
    BY Zenon DEF SameObjects
  <1>2. ASSUME NEW x, NEW uid, Added(x, uid) PROVE labels'[id] = labels[id]
    BY <1>0, <1>2, SMTT(60) DEF Added
  <1>3. ASSUME NEW x, NEW d, Created(x, d) PROVE labels'[id] = labels[id]
    BY <1>3, Zenon DEF Created
  <1>4. ASSUME NEW x, Lost(x) PROVE labels'[id] = labels[id]
    BY <1>4, Zenon DEF Lost
  <1> QED
    BY <1>1, <1>2, <1>3, <1>4, StepForms, HandleEffects, ZenonT(60)

\* Pod data goes in CleanupPodData.
LEMMA DataRemoved ==
    ASSUME TypeOK, WorkHasPause, [Next]_vars, NEW u \in data, u \notin data'
    PROVE  \E w \in Worker : Cleanup(w) /\ wk[w].req.uid = u
  <1>1. ~(UNCHANGED data)
    BY Zenon
  <1>2. ASSUME NEW w \in Worker, Handle(w) PROVE Cleanup(w)
    <2>1. CASE EnsurePod(w) /\ ~PrepareContainer(w)
      BY <1>1, <2>1, ZenonT(60) DEF EnsurePod, EnsureFindPod, FindPause, LookupPrev, CheckAbbot, CreatePod,
             CreatePause, StartPause, CheckPause, ConfigureNetwork, InspectPause, RestartPause,
             UnpausePause, CreateContainer, StartContainer, WaitContainer, CheckContainers
    <2>2. CASE PrepareContainer(w)
      BY <2>2 DEF PrepareContainer
    <2>3. CASE DeletePod(w) \/ deletePod(w) \/ ListPods(w) \/ Reply(w)
      BY <1>1, <2>3, ZenonT(60) DEF DeletePod, DeleteFindPod, DeleteFindPause, DeleteListed,
             deletePod, DelFind, DelNetwork, DelGuard, DelRemove, ListPods, ListFind, ListNext,
             ListRemove, Reply
    <2> QED
      BY <1>2, <2>1, <2>2, <2>3, Zenon DEF Handle
  <1>3. ASSUME NEW w \in Worker PROVE ~Accept(w)
    BY <1>1, Zenon DEF Accept
  <1>4. PICK w \in Worker : Cleanup(w)
    BY <1>1, <1>2, <1>3, StepForms, ZenonT(60)
  <1>5. wk[w].req.uid = u
    BY <1>1, <1>4, SMTT(60) DEF Cleanup
  <1> QED
    BY <1>4, <1>5
-----------------------------------------------------------------------------
(***************************************************************************)
(* A successful EnsurePod leaves the whole pod.                            *)
(***************************************************************************)
\* No command that conflicts with v's can take the pods or the data of the UID
\* that v serves.
LEMMA Protected ==
    ASSUME Inv, NoConflict, WorkHasPause, [Next]_vars, NEW v \in Worker,
           wk[v].req.op # "list",
           wk[v].pc \notin {"idle", "delRemove", "listRemove", "cleanup"}
    PROVE  /\ \A id \in PodsWithUID(wk[v].req.uid) :
                 /\ id \in pods' /\ labels'[id] = labels[id]
                 /\ \A c \in Ctr : Exists(id, c) => Exists(id, c)'
           /\ wk[v].req.uid \in data => wk[v].req.uid \in data'
  <1>0. TypeOK /\ ControlOK /\ HandlesOK
    BY DEF Inv
  <1>1. ASSUME NEW w \in Worker, w # v, wk[w].pc # "idle"
        PROVE  wk[w].req.op # "list" /\ PodName[wk[v].req.uid] # PodName[wk[w].req.uid]
    BY <1>1 DEF NoConflict, Busy, Conflict
  <1>2. ASSUME NEW id \in pods, labels[id] = wk[v].req.uid
        PROVE  id \in pods' /\ \A c \in Ctr : Exists(id, c) => Exists(id, c)'
    <2> SUFFICES ASSUME ~(id \in pods' /\ \A c \in Ctr : Exists(id, c) => Exists(id, c)')
                 PROVE  FALSE
      BY Zenon
    <2>1. PICK w \in Worker : (DelRemove(w) \/ ListRemove(w)) /\ wk[w].dpod = id
      BY <1>0, ObjectsRemoved, Zenon
    <2>2. wk[w].pc = "delRemove" \/ wk[w].pc = "listRemove"
      BY <2>1, Zenon DEF DelRemove, ListRemove
    <2>3. w # v /\ wk[w].pc # "idle"
      BY <2>2
    <2>4. wk[w].req.op # "list" /\ PodName[wk[v].req.uid] # PodName[wk[w].req.uid]
      BY <1>1, <2>3, Zenon
    <2>5. Control(wk[w]) /\ Handles(wk[w], labels)
      BY <1>0, Zenon DEF ControlOK, HandlesOK
    <2>6. wk[w].pc = "delRemove"
      BY <2>2, <2>4, <2>5, SMTT(60) DEF Control, ListLabel
    <2>7. PodName[labels[id]] = PodName[wk[w].req.uid]
      BY <2>1, <2>4, <2>5, <2>6 DEF Handles, DeletePodLabel, SameName
    <2> QED
      BY <1>2, <2>4, <2>7
  <1>3. ASSUME NEW id \in PodsWithUID(wk[v].req.uid)
        PROVE  /\ id \in pods' /\ labels'[id] = labels[id]
               /\ \A c \in Ctr : Exists(id, c) => Exists(id, c)'
    <2>1. id \in pods /\ labels[id] = wk[v].req.uid
      BY DEF PodsWithUID
    <2>2. labels'[id] = labels[id]
      BY <1>0, <2>1, LabelStays, Zenon
    <2>3. id \in pods' /\ \A c \in Ctr : Exists(id, c) => Exists(id, c)'
      BY <1>2, <2>1, Zenon
    <2> QED
      BY <2>2, <2>3, Zenon
  <1>4. ASSUME wk[v].req.uid \in data, wk[v].req.uid \notin data' PROVE FALSE
    <2>1. PICK w \in Worker : Cleanup(w) /\ wk[w].req.uid = wk[v].req.uid
      BY <1>0, <1>4, DataRemoved, Zenon
    <2>2. wk[w].pc = "cleanup"
      BY <2>1, Zenon DEF Cleanup
    <2> QED
      BY <1>1, <2>1, <2>2
  <1> QED
    BY <1>3, <1>4, Zenon

\* A pause container, and a handle, of a pod that EnsurePod found or made.
PauseLabel == {"startPause", "checkPause", "netDo", "inspect", "restartPause", "unpausePause"}
ContainerLabel == {"prepare", "newCtr", "startCtr", "waitCtr", "check"}

\* EnsurePod works on a pod of the database; the pause container it holds is
\* the one of that pod; it goes on to the other containers when that one is
\* there; and the pod directory is there from the first container on.
PodFound(w) == wk[w].pc = "findPause" => wk[w].pod \in pods
HoldsOwnPause(w) == wk[w].pc \in PauseLabel => wk[w].ctr = wk[w].pod
PauseThere(w) == wk[w].pc \in ContainerLabel => Exists(wk[w].pod, Pause)
DataThere(w) ==
    \/ wk[w].pc \in {"newCtr", "startCtr", "waitCtr"}
    \/ wk[w].pc = "check" /\ wk[w].req.ctrs # {}
    => wk[w].req.uid \in data

\* The deferred cleanup of EnsurePod runs for an error only.
CleansUpOnError(w) == wk[w].pc = "cleanup" /\ wk[w].req.op = "ensure" => wk[w].resp = "err"

\* The pod of an answered EnsurePod is whole.
Whole(w) ==
    wk[w].pc = "reply" /\ wk[w].resp = "ok" /\ wk[w].req.op = "ensure" =>
        \E id \in PodsWithUID(wk[w].req.uid) :
            /\ \A c \in wk[w].req.ctrs \cup {Pause} : Exists(id, c)
            /\ wk[w].req.ctrs # {} => wk[w].req.uid \in data

WholeOK ==
    \A w \in Worker :
        /\ PodFound(w) /\ HoldsOwnPause(w) /\ PauseThere(w) /\ DataThere(w)
        /\ CleansUpOnError(w) /\ Whole(w)

WholeInv == Inv /\ NoConflict /\ WorkHasPause /\ WholeOK

\* The pods and data that WholeOK is about stay while v waits.
LEMMA WholeKept ==
    ASSUME WholeInv, [Next]_vars, NEW v \in Worker, wk'[v] = wk[v]
    PROVE  /\ PodFound(v)' /\ HoldsOwnPause(v)' /\ PauseThere(v)' /\ DataThere(v)'
           /\ CleansUpOnError(v)' /\ Whole(v)'
  <1>0. /\ Inv /\ NoConflict /\ WorkHasPause /\ TypeOK
        /\ PodFound(v) /\ HoldsOwnPause(v) /\ PauseThere(v) /\ DataThere(v)
        /\ CleansUpOnError(v) /\ Whole(v)
    BY SMTT(60) DEF WholeInv, WholeOK, Inv
  <1>a. Control(wk[v]) /\ Handles(wk[v], labels) /\ wk[v].req \in Request /\ Pause \in Ctr
    BY <1>0, LibpodAssumption DEF Inv, ControlOK, HandlesOK, TypeOK, WorkerState, Pause, Ctr
  <1>b. wk[v].req.ctrs \subseteq Ctr
    BY <1>a, SMTT(60) DEF Request
  <1> DEFINE uid == wk[v].req.uid
             Safe == /\ \A id \in PodsWithUID(uid) :
                           /\ id \in pods' /\ labels'[id] = labels[id]
                           /\ \A c \in Ctr : Exists(id, c) => Exists(id, c)'
                     /\ uid \in data => uid \in data'
  <1>c. ASSUME wk[v].req.op = "ensure", wk[v].pc \in EnsureLabel \cup {"reply"}
        PROVE  Safe
    BY <1>0, <1>c, Protected DEF EnsureLabel
  <1>d. ASSUME wk[v].pc \in {"findPause"} \cup ContainerLabel
        PROVE  /\ Safe
               /\ wk[v].pod \in pods => wk[v].pod \in PodsWithUID(uid)
    <2>1. wk[v].pc \in EnsureLabel /\ wk[v].pc \in PodLabel /\ wk[v].req.op = "ensure"
      BY <1>a, <1>d DEF ContainerLabel, EnsureLabel, PodLabel, PodlessLabel, Control
    <2>2. labels[wk[v].pod] = uid
      BY <1>a, <2>1 DEF Handles
    <2> QED
      BY <1>c, <2>1, <2>2 DEF PodsWithUID
  <1>1. PodFound(v)'
    BY <1>0, <1>d DEF PodFound
  <1>2. HoldsOwnPause(v)'
    BY <1>0 DEF HoldsOwnPause
  <1>3. PauseThere(v)'
    <2> SUFFICES ASSUME wk[v].pc \in ContainerLabel PROVE Exists(wk[v].pod, Pause)'
      BY DEF PauseThere
    <2>1. Exists(wk[v].pod, Pause) /\ wk[v].pod \in pods
      BY <1>0, SMTT(60) DEF PauseThere, Exists
    <2> QED
      BY <1>a, <1>d, <2>1 DEF Exists
  <1>4. DataThere(v)'
    <2>1. wk[v].pc \in {"newCtr", "startCtr", "waitCtr", "check"} => Safe
      BY <1>d DEF ContainerLabel
    <2> QED
      BY <1>0, <2>1 DEF DataThere
  <1>5. CleansUpOnError(v)'
    BY <1>0, SMTT(60) DEF CleansUpOnError
  <1>6. Whole(v)'
    <2> SUFFICES ASSUME wk[v].pc = "reply", wk[v].resp = "ok", wk[v].req.op = "ensure"
                 PROVE  \E id \in pods' :
                            /\ labels'[id] = uid
                            /\ \A c \in wk[v].req.ctrs \cup {Pause} : Exists(id, c)'
                            /\ wk[v].req.ctrs # {} => uid \in data'
      BY DEF Whole, PodsWithUID, Exists
    <2>1. PICK id \in PodsWithUID(uid) :
             /\ \A c \in wk[v].req.ctrs \cup {Pause} : Exists(id, c)
             /\ wk[v].req.ctrs # {} => uid \in data
      BY <1>0 DEF Whole
    <2>2. Safe
      BY <1>c
    <2>3. labels[id] = uid
      BY DEF PodsWithUID
    <2> HIDE DEF uid
    <2> QED
      BY <1>a, <1>b, <2>1, <2>2, <2>3, SMTT(60)
  <1> QED
    BY <1>1, <1>2, <1>3, <1>4, <1>5, <1>6

\* v's own steps: up to the pause container.
LEMMA WholePauseStep ==
    ASSUME WholeInv, [Next]_vars, NEW v \in Worker, Handle(v)
    PROVE  PodFound(v)' /\ HoldsOwnPause(v)'
  <1>0. /\ Inv /\ TypeOK /\ PodFound(v) /\ HoldsOwnPause(v)
        /\ Control(wk[v]) /\ Handles(wk[v], labels) /\ NamesUnique
    BY DEF WholeInv, WholeOK, Inv, ControlOK, HandlesOK
  <1>1. PodFound(v)'
    <2> SUFFICES ASSUME wk'[v].pc = "findPause" PROVE wk'[v].pod \in pods'
      BY DEF PodFound
    <2>1. EnsureFindPod(v)
      BY <1>0, Arrivals, Zenon
    <2>2. PICK id \in PodsWithUID(wk[v].req.uid) : GoesWithPod(v, "findPause", id)
      BY <1>0, <2>1, PauseMoves, Zenon DEF Goes, Ends
    <2>3. pods' = pods
      BY <2>1, Zenon DEF EnsureFindPod, libpodVars
    <2> QED
      BY <2>2, <2>3 DEF GoesWithPod, PodsWithUID
  <1>2. HoldsOwnPause(v)'
    <2> SUFFICES ASSUME wk'[v].pc \in PauseLabel PROVE wk'[v].ctr = wk'[v].pod
      BY DEF HoldsOwnPause
    <2>1. \/ CreatePause(v) \/ StartPause(v) \/ CheckPause(v) \/ ConfigureNetwork(v)
          \/ InspectPause(v) \/ FindPause(v)
      BY <1>0, Arrivals, Zenon DEF PauseLabel
    <2>2. CASE StartPause(v) \/ CheckPause(v) \/ ConfigureNetwork(v) \/ InspectPause(v)
      <3>1. wk[v].ctr = wk[v].pod
        BY <1>0, <2>2, Zenon DEF StartPause, CheckPause, ConfigureNetwork, InspectPause, HoldsOwnPause,
               PauseLabel
      <3>2. \E l : Goes(v, l)
        <4>1. ~RollsBack(v, "fail") /\ ~RollsBack(v, "unwind")
          BY DEF RollsBack, Deletes, PauseLabel
        <4> QED
          BY <1>0, <2>2, <4>1, PauseMoves, ZenonT(60)
      <3> QED
        BY <3>1, <3>2 DEF Goes
    <2>3. CASE CreatePause(v)
      <3>1. GoesWithCtr(v, "startPause", wk[v].pod)
        BY <1>0, <2>3, PauseMoves, ZenonT(30) DEF RollsBack, Deletes, PauseLabel
      <3> QED
        BY <3>1 DEF GoesWithCtr
    <2>4. CASE FindPause(v)
      <3>1. PICK id \in ContainersOf(wk[v].req.uid, Pause) : GoesWithCtr(v, "inspect", id)
        BY <1>0, <2>4, PauseMoves, Zenon DEF RollsBack, Deletes, PauseLabel
      <3>2. wk[v].pc = "findPause" /\ wk[v].pod \in pods
        BY <1>0, <2>4 DEF FindPause, PodFound
      <3>3. wk[v].req.op = "ensure" /\ labels[wk[v].pod] = wk[v].req.uid
        BY <1>0, <3>2 DEF Control, Handles, EnsureLabel, PodLabel, PodlessLabel
      <3>4. wk[v].req.uid # NoUID
        BY <1>0, <3>3, LibpodAssumption DEF Control
      <3>5. id \in pods /\ labels[id] = wk[v].req.uid
        BY DEF ContainersOf, PodsWithUID
      <3>6. id = wk[v].pod
        BY <1>0, <3>2, <3>3, <3>4, <3>5 DEF NamesUnique
      <3> QED
        BY <3>1, <3>6 DEF GoesWithCtr
    <2> QED
      BY <2>1, <2>2, <2>3, <2>4
  <1> QED
    BY <1>1, <1>2

\* From the pause container on.
LEMMA WholeContainerStep ==
    ASSUME WholeInv, [Next]_vars, NEW v \in Worker, Handle(v)
    PROVE  PauseThere(v)' /\ DataThere(v)'
  <1>0. /\ Inv /\ TypeOK /\ NoConflict /\ WorkHasPause
        /\ HoldsOwnPause(v) /\ PauseThere(v) /\ DataThere(v)
        /\ Control(wk[v]) /\ Handles(wk[v], labels) /\ Pause \in Ctr
    BY LibpodAssumption DEF WholeInv, WholeOK, Inv, ControlOK, HandlesOK, Pause, Ctr
  <1> DEFINE uid == wk[v].req.uid
  <1>a. ~RollsBack(v, "fail") \/ wk'[v].pc = "delFind"
    BY DEF RollsBack, Deletes
  <1>1. ASSUME wk'[v].pc \in ContainerLabel
        PROVE  wk'[v].pod = wk[v].pod /\ wk'[v].req = wk[v].req /\ Exists(wk[v].pod, Pause)'
    <2>1. \/ InspectPause(v) \/ RestartPause(v) \/ UnpausePause(v)
          \/ PrepareContainer(v) \/ CreateContainer(v) \/ StartContainer(v) \/ WaitContainer(v)
      BY <1>0, <1>1, Arrivals, Zenon DEF ContainerLabel
    <2>a. ~RollsBack(v, "fail")
      BY <1>1, <1>a DEF ContainerLabel
    <2>b. \A l : Goes(v, l) => wk'[v].pod = wk[v].pod /\ wk'[v].req = wk[v].req
      BY DEF Goes
    <2>c. wk[v].pc \in EnsureLabel /\ wk[v].pc \in PodLabel
      BY <2>1, Zenon DEF InspectPause, RestartPause, UnpausePause, PrepareContainer, CreateContainer,
             StartContainer, WaitContainer, EnsureLabel, PodLabel, PodlessLabel
    <2>d. wk[v].req.op = "ensure" /\ labels[wk[v].pod] = uid
      BY <1>0, <2>c, SMTT(60) DEF Control, Handles
    <2>e. wk'[v].pod = wk[v].pod /\ wk'[v].req = wk[v].req
      <3>1. CASE InspectPause(v) \/ RestartPause(v) \/ UnpausePause(v)
        BY <1>0, <2>a, <2>b, <3>1, PauseMoves, ZenonT(60)
      <3>2. CASE PrepareContainer(v) \/ CreateContainer(v) \/ StartContainer(v) \/ WaitContainer(v)
        BY <1>0, <2>a, <2>b, <3>2, ContainerMoves, ZenonT(60)
      <3> QED
        BY <2>1, <3>1, <3>2
    <2>2. Exists(wk[v].pod, Pause)
      <3>1. CASE InspectPause(v) \/ RestartPause(v) \/ UnpausePause(v)
        <4>1. wk[v].ctr = wk[v].pod
          BY <1>0, <3>1, Zenon DEF InspectPause, RestartPause, UnpausePause, HoldsOwnPause, PauseLabel
        <4>2. CASE InspectPause(v)
          <5>1. ~Goes(v, "restartPause") /\ ~Goes(v, "unpausePause")
            BY <1>1 DEF Goes, ContainerLabel
          <5>2. Exists(wk[v].ctr, Pause)
            BY <1>0, <2>a, <4>2, <5>1, PauseMoves, Zenon
          <5> QED
            BY <4>1, <5>2, SMTT(60)
        <4>3. CASE RestartPause(v) \/ UnpausePause(v)
          <5>1. Start(wk[v].ctr, Pause) \/ Unpause(wk[v].ctr, Pause)
            BY <1>0, <2>a, <4>3, PauseMoves, Zenon
          <5>2. Exists(wk[v].ctr, Pause)
            BY <5>1 DEF Start, CanStart, Startable, Unpause, Exists
          <5> QED
            BY <4>1, <5>2
        <4> QED
          BY <3>1, <4>2, <4>3
      <3>2. CASE PrepareContainer(v) \/ CreateContainer(v) \/ StartContainer(v) \/ WaitContainer(v)
        BY <1>0, <3>2, Zenon DEF PrepareContainer, CreateContainer, StartContainer, WaitContainer,
               PauseThere, ContainerLabel
      <3> QED
        BY <2>1, <3>1, <3>2
    <2>3. wk[v].pod \in PodsWithUID(uid)
      BY <2>2, <2>d DEF Exists, PodsWithUID
    <2>4. wk[v].req.op # "list" /\ wk[v].pc \notin {"idle", "delRemove", "listRemove", "cleanup"}
      BY <2>c, <2>d, SMTT(60) DEF EnsureLabel
    <2>5. /\ wk[v].pod \in pods'
          /\ \A c \in Ctr : Exists(wk[v].pod, c) => c \in Ctr /\ ctrs'[wk[v].pod][c] # "none"
      BY <1>0, <2>3, <2>4, Protected, SMTT(60) DEF Exists
    <2>6. Exists(wk[v].pod, Pause)'
      BY <1>0, <2>2, <2>5, <2>e DEF Exists
    <2> QED
      BY <2>e, <2>6
  <1>2. PauseThere(v)'
    BY <1>1, SMTT(60) DEF PauseThere, Exists
  <1>3. DataThere(v)'
    <2>1. ASSUME wk'[v].pc = "newCtr" PROVE uid \in data'
      <3>1. PrepareContainer(v)
        BY <1>0, <2>1, Arrivals, Zenon
      <3>2. data' = data \cup {uid}
        BY <1>0, <1>a, <2>1, <3>1, ContainerMoves, ZenonT(30)
      <3> QED
        BY <3>2
    <2>2. ASSUME \/ wk'[v].pc \in {"startCtr", "waitCtr"}
                 \/ wk'[v].pc = "check" /\ wk[v].req.ctrs # {}
          PROVE  uid \in data'
      <3>1. \/ CreateContainer(v) \/ StartContainer(v) \/ WaitContainer(v)
            \/ wk'[v].pc = "check" /\ (InspectPause(v) \/ RestartPause(v) \/ UnpausePause(v))
        BY <1>0, <2>2, Arrivals, Zenon
      <3>2. ~(InspectPause(v) \/ RestartPause(v) \/ UnpausePause(v))
        <4> SUFFICES ASSUME InspectPause(v) \/ RestartPause(v) \/ UnpausePause(v) PROVE FALSE
          OBVIOUS
        <4>1. wk'[v].pc = "check"
          BY <1>0, <2>2, PauseTargets, ZenonT(30)
        <4>2. /\ ~Goes(v, "restartPause") /\ ~Goes(v, "unpausePause") /\ ~Goes(v, "prepare")
              /\ ~RollsBack(v, "fail") /\ wk[v].req.ctrs # {}
          BY <2>2, <4>1, <1>a, SMTT(60) DEF Goes
        <4> QED
          BY <1>0, <4>2, PauseMoves, ZenonT(60)
      <3>3. CreateContainer(v) \/ StartContainer(v) \/ WaitContainer(v)
        BY <3>1, <3>2, SMTT(60)
      <3>4. /\ wk[v].pc \in {"newCtr", "startCtr", "waitCtr"}
            /\ data' = data
        BY <3>3 DEF CreateContainer, StartContainer, WaitContainer
      <3> QED
        BY <1>0, <3>4 DEF DataThere
    <2>3. wk'[v].pc \in ContainerLabel => wk'[v].req = wk[v].req
      BY <1>1
    <2> QED
      BY <2>1, <2>2, <2>3 DEF DataThere, ContainerLabel
  <1> QED
    BY <1>2, <1>3

\* The end of the command.
LEMMA WholeEndStep ==
    ASSUME WholeInv, [Next]_vars, NEW v \in Worker, Handle(v)
    PROVE  CleansUpOnError(v)' /\ Whole(v)'
  <1>0. /\ Inv /\ TypeOK /\ PauseThere(v) /\ DataThere(v) /\ CleansUpOnError(v)
        /\ Control(wk[v]) /\ Handles(wk[v], labels)
    BY SMTT(60) DEF WholeInv, WholeOK, Inv, ControlOK, HandlesOK
  <1>1. CleansUpOnError(v)'
    <2> SUFFICES ASSUME wk'[v].pc = "cleanup", wk'[v].req.op = "ensure"
                 PROVE  wk'[v].resp = "err"
      BY DEF CleansUpOnError
    <2>1. \/ EnsureFindPod(v) \/ CheckAbbot(v) \/ CreatePod(v) \/ DeletePod(v) \/ deletePod(v)
      BY <1>0, Arrivals, Zenon
    <2>a. wk'[v].req = wk[v].req
      BY <1>0, RequestKept, SMTT(60) DEF Idle
    <2>b. /\ \A l : l # "cleanup" => ~Goes(v, l)
          /\ \A l, id : l # "cleanup" => ~GoesWithPod(v, l, id)
          /\ \A l, id : l # "cleanup" => ~GoesWithCtr(v, l, id)
          /\ Ends(v, "cleanup", "err") => wk'[v].resp = "err"
      BY DEF Goes, GoesWithPod, GoesWithCtr, Ends
    <2>2. CASE EnsureFindPod(v) \/ CheckAbbot(v) \/ CreatePod(v)
      BY <1>0, <2>2, <2>b, PauseMoves, Zenon
    <2>3. ~DeletePod(v)
      BY <1>0, <2>a, SMTT(60) DEF DeletePod, DeleteFindPod, DeleteFindPause, DeleteListed, Control, DeleteLabel
    <2>4. CASE deletePod(v)
      <3>1. wk[v].pc \in DeletePodLabel
        BY <2>4, Zenon DEF deletePod, DelFind, DelNetwork, DelGuard, DelRemove, DeletePodLabel
      <3>2. wk[v].ret # "delete" /\ wk[v].ret # "list"
        BY <1>0, <2>a, <3>1 DEF Control
      <3>3. Returns(v, TRUE) \/ Returns(v, FALSE)
        BY <1>0, <2>4, <2>b, DeleteSteps, ZenonT(60) DEF deletePod
      <3> QED
        BY <3>2, <3>3, SMTT(60) DEF Returns, Ends, RollsBack, Deletes
    <2> QED
      BY <2>1, <2>2, <2>3, <2>4
  <1>2. Whole(v)'
    <2> SUFFICES ASSUME wk'[v].pc = "reply", wk'[v].resp = "ok", wk'[v].req.op = "ensure"
                 PROVE  \E id \in pods' :
                            /\ labels'[id] = wk'[v].req.uid
                            /\ \A c \in wk'[v].req.ctrs \cup {Pause} : id \in pods' /\ ctrs'[id][c] # "none"
                            /\ wk'[v].req.ctrs # {} => wk'[v].req.uid \in data'
      BY Zenon DEF Whole, PodsWithUID, Exists
    <2>1. CheckContainers(v) \/ Cleanup(v) \/ ListPods(v)
      BY <1>0, Arrivals, Zenon
    <2>a. wk'[v].req = wk[v].req
      BY <1>0, RequestKept DEF Idle
    <2>2. ~ListPods(v)
      BY <1>0, <2>a, Zenon DEF ListPods, ListFind, ListNext, ListRemove, Control, ListLabel
    <2>3. ~Cleanup(v)
      <3> SUFFICES ASSUME Cleanup(v) PROVE FALSE
        BY SMTT(60)
      <3>1. wk[v].pc = "cleanup" /\ wk[v].resp = "err"
        BY <1>0, <2>a DEF Cleanup, CleansUpOnError
      <3>2. wk' # [w \in Worker |-> Idle]
        BY DEF Idle
      <3>3. wk'[v].resp = wk[v].resp
        BY <1>0, <3>2, ListSteps, Zenon
      <3> QED
        BY <3>1, <3>3
    <2>4. CheckContainers(v)
      BY <2>1, <2>2, <2>3
    <2>5. \A c \in wk[v].req.ctrs : Exists(wk[v].pod, c)
      BY <1>0, <2>4, ContainerMoves, Zenon DEF RollsBack, Deletes
    <2>6. wk[v].pc = "check" /\ pods' = pods /\ labels' = labels /\ ctrs' = ctrs /\ data' = data
      BY <2>4, Zenon DEF CheckContainers, libpodVars
    <2>7. Exists(wk[v].pod, Pause) /\ wk[v].pod \in pods
      BY <1>0, <2>6, Zenon DEF PauseThere, ContainerLabel, Exists
    <2>8. labels[wk[v].pod] = wk[v].req.uid
      BY <1>0, <2>6, <2>a, Zenon DEF Handles, PodLabel, PodlessLabel, EnsureLabel
    <2>9. wk[v].req.ctrs # {} => wk[v].req.uid \in data
      BY <1>0, <2>6, SMTT(60) DEF DataThere
    <2>10. \A c \in wk[v].req.ctrs \cup {Pause} : ctrs[wk[v].pod][c] # "none"
      BY <2>5, <2>7 DEF Exists
    <2>11. \A c \in wk'[v].req.ctrs \cup {Pause} :
               wk[v].pod \in pods' /\ ctrs'[wk[v].pod][c] # "none"
      BY <2>a, <2>6, <2>7, <2>10, Zenon
    <2>12. wk'[v].req.ctrs # {} => wk'[v].req.uid \in data'
      BY <2>a, <2>6, <2>9, Zenon
    <2>13. wk[v].pod \in pods' /\ labels'[wk[v].pod] = wk'[v].req.uid
      BY <2>a, <2>6, <2>7, <2>8, Zenon
    <2> QED
      BY <2>11, <2>12, <2>13, Zenon
  <1> QED
    BY <1>1, <1>2

LEMMA WholeInvStep ==
    ASSUME OneAtATime, WholeInv, [Next]_vars
    PROVE  WholeInv'
  <1>0. Inv /\ TypeOK /\ NoConflict /\ WorkHasPause
    BY SMTT(60) DEF WholeInv, Inv
  <1>1. ASSUME NEW v \in Worker
        PROVE  /\ PodFound(v)' /\ HoldsOwnPause(v)' /\ PauseThere(v)' /\ DataThere(v)'
               /\ CleansUpOnError(v)' /\ Whole(v)'
    <2>1. CASE Handle(v)
      BY <2>1, WholePauseStep, WholeContainerStep, WholeEndStep, Zenon
    <2>2. CASE wk'[v] = wk[v]
      BY <2>2, WholeKept, Zenon
    <2>3. CASE wk'[v].pc \in {"idle", "findPod", "deleteFindPod", "listFind"}
      BY <2>3 DEF PodFound, HoldsOwnPause, PauseThere, DataThere, CleansUpOnError, Whole,
             PauseLabel, ContainerLabel
    <2> QED
      BY <1>0, <2>1, <2>2, <2>3, WorkerForms DEF Idle
  <1>2. WholeOK'
    BY <1>1, Zenon DEF WholeOK
  <1>3. Inv' /\ NoConflict' /\ WorkHasPause'
    BY <1>0, InvStep, NoConflictStep, PauseStep, Zenon
  <1> QED
    BY <1>2, <1>3, Zenon DEF WholeInv

LEMMA WholeInvInit == Init => WholeInv
  <1> SUFFICES ASSUME Init PROVE WholeInv
    OBVIOUS
  <1>1. Inv /\ NoConflict
    BY InvInit, NetInvInit DEF NetInv
  <1>2. WorkHasPause
    BY DEF Init, LibpodInit, WorkHasPause, Exists
  <1>3. \A w \in Worker : wk[w].pc = "idle"
    BY SMTT(60) DEF Init, Idle
  <1>4. WholeOK
    BY <1>3 DEF WholeOK, PodFound, HoldsOwnPause, PauseThere, DataThere, CleansUpOnError, Whole,
           PauseLabel, ContainerLabel
  <1> QED
    BY <1>1, <1>2, <1>4 DEF WholeInv

\* While conflicting commands are served one after the other, the answer of a
\* successful EnsurePod finds the pause container, every container of the
\* request and the pod's directory in place, whatever else failed, exited or
\* crashed before.
THEOREM EnsuredPods ==
    ASSUME OneAtATime
    PROVE  Spec => []EnsuredPodIsWhole
  <1>1. WholeInv /\ [Next]_vars => WholeInv'
    BY WholeInvStep, SMTT(60)
  <1>2. WholeInv => EnsuredPodIsWhole
    <2> SUFFICES ASSUME WholeInv, NEW w \in Worker, wk[w].pc = "reply", wk[w].resp = "ok",
                        wk[w].req.op = "ensure"
                 PROVE  /\ \A c \in wk[w].req.ctrs \cup {Pause} :
                              ContainersOf(wk[w].req.uid, c) # {}
                        /\ wk[w].req.ctrs # {} => wk[w].req.uid \in data
      BY SMTT(60) DEF EnsuredPodIsWhole
    <2>1. PICK id \in PodsWithUID(wk[w].req.uid) :
             /\ \A c \in wk[w].req.ctrs \cup {Pause} : Exists(id, c)
             /\ wk[w].req.ctrs # {} => wk[w].req.uid \in data
      BY DEF WholeInv, WholeOK, Whole
    <2> QED
      BY <2>1, SMTT(60) DEF ContainersOf
  <1> QED
    BY <1>1, <1>2, WholeInvInit, PTL DEF Spec
-----------------------------------------------------------------------------
(***************************************************************************)
(* One goroutine at a time, and libpod's database can be read: abbot       *)
(* outlives every pod that needs it.                                       *)
(***************************************************************************)
OneWorker == \A v, w \in Worker : v = w

\* The steps that add or remove pods or containers, by their labels.
LEMMA QuietSteps ==
    ASSUME TypeOK, WorkHasPause, NEW w \in Worker, Handle(w),
           wk[w].pc \notin {"newPod", "newPause", "newCtr", "delRemove", "listRemove"}
    PROVE  SameObjects
  <1>1. ~CreatePod(w) /\ ~CreatePause(w) /\ ~CreateContainer(w) /\ ~DelRemove(w) /\ ~ListRemove(w)
    BY Zenon DEF CreatePod, CreatePause, CreateContainer, DelRemove, ListRemove
  <1> QED
    BY <1>1, HandleEffects, Zenon

\* What becomes of the only worker.
LEMMA SoleForms ==
    ASSUME OneWorker, TypeOK, WorkHasPause, [Next]_vars, NEW v \in Worker
    PROVE  \/ wk'[v] = Idle /\ SameObjects /\ UNCHANGED net /\ (Crash \/ Cleanup(v))
           \/ /\ wk'[v].pc \in {"findPod", "deleteFindPod", "listFind"}
              /\ Accept(v) /\ SameObjects
           \/ Handle(v)
           \/ /\ wk'[v] = wk[v] /\ UNCHANGED <<net, data>>
              /\ SameObjects \/ \E id \in FreshID : Added(id, NoUID)
  <1>1. \A w \in Worker : w = v
    BY DEF OneWorker
  <1>2. Accept(v) => wk'[v].pc \in {"findPod", "deleteFindPod", "listFind"} \/ Handle(v)
    <2> SUFFICES ASSUME Accept(v) PROVE wk'[v].pc \in {"findPod", "deleteFindPod", "listFind"}
      BY Zenon
    <2>1. PICK r \in Requests : Step(v, [Idle EXCEPT !.req = r, !.pc = Entry(r.op)])
      BY Zenon DEF Accept
    <2>2. Entry(r.op) \in {"findPod", "deleteFindPod", "listFind"}
      BY RuntimeAssumption DEF Entry, Request
    <2>3. wk'[v] = [Idle EXCEPT !.req = r, !.pc = Entry(r.op)]
      BY <2>1, PlainSteps, Zenon
    <2> QED
      BY <2>2, <2>3 DEF Idle
  <1>3. wk' = [w \in Worker |-> Idle] => wk'[v] = Idle
    OBVIOUS
  <1>4. UNCHANGED <<net, data, wk>> => wk'[v] = wk[v] /\ UNCHANGED <<net, data>>
    BY Zenon
  <1> QED
    BY <1>1, <1>2, <1>3, <1>4, StepForms, ZenonT(60)

\* How the sets of containers that libpod is asked for change.
LEMMA SetsKept ==
    ASSUME TypeOK
    PROVE  /\ SameObjects => ClusterPauses' = ClusterPauses /\ AbbotContainers' = AbbotContainers
           /\ \A x, uid : Added(x, uid) => /\ ClusterPauses' = ClusterPauses
                                           /\ AbbotContainers' = AbbotContainers
  <1>0. /\ pods \subseteq PodID /\ labels \in [PodID -> PodUID \cup {NoUID}]
        /\ Pause \in Ctr /\ Abbot \in Ctr
    BY LibpodAssumption DEF TypeOK, LibpodTypeOK, Pause, Abbot, Ctr
  <1>1. ASSUME pods \subseteq pods', pods' \subseteq PodID,
               \A id \in pods : labels'[id] = labels[id],
               \A id \in PodID, c \in Ctr : Exists(id, c)' <=> Exists(id, c)
        PROVE  ClusterPauses' = ClusterPauses /\ AbbotContainers' = AbbotContainers
    <2>1. ASSUME NEW id PROVE id \in ClusterPauses' <=> id \in ClusterPauses
      BY <1>0, <1>1, SMTT(60) DEF ClusterPauses, Exists
    <2>2. ASSUME NEW id PROVE id \in AbbotContainers' <=> id \in AbbotContainers
      BY <1>0, <1>1, SMTT(60) DEF AbbotContainers, Exists
    <2> QED
      BY <2>1, <2>2, SMTT(60)
  <1>2. SameObjects => ClusterPauses' = ClusterPauses /\ AbbotContainers' = AbbotContainers
    BY <1>0, <1>1, SMTT(60) DEF SameObjects
  <1>3. ASSUME NEW x, NEW uid, Added(x, uid)
        PROVE  ClusterPauses' = ClusterPauses /\ AbbotContainers' = AbbotContainers
    <2>1. /\ pods \subseteq pods' /\ pods' \subseteq PodID
          /\ \A id \in pods : labels'[id] = labels[id]
      BY <1>0, <1>3, SMTT(60) DEF Added
    <2>2. \A id \in PodID, c \in Ctr : Exists(id, c)' <=> Exists(id, c)
      BY <1>3, Zenon DEF Added
    <2> QED
      BY <1>1, <2>1, <2>2, Zenon
  <1> QED
    BY <1>2, <1>3, Zenon

LEMMA SetsGrow ==
    ASSUME TypeOK, NEW x, NEW d \in Ctr, Created(x, d)
    PROVE  /\ AbbotContainers \subseteq AbbotContainers'
           /\ d # Pause \/ labels[x] \in HostNetwork => ClusterPauses' = ClusterPauses
           /\ ClusterPauses' \subseteq ClusterPauses \cup {x}
  <1>0. /\ pods \subseteq PodID /\ labels \in [PodID -> PodUID \cup {NoUID}]
        /\ Pause \in Ctr /\ Abbot \in Ctr
    BY LibpodAssumption DEF TypeOK, LibpodTypeOK, Pause, Abbot, Ctr
  <1>1. /\ pods' = pods /\ labels' = labels
        /\ \A id \in PodID, c \in Ctr : Exists(id, c)' <=> Exists(id, c) \/ (id = x /\ c = d)
    BY Zenon DEF Created
  <1>2. ASSUME NEW id, id \in AbbotContainers PROVE id \in AbbotContainers'
    BY <1>0, <1>1, <1>2, SMTT(60) DEF AbbotContainers
  <1>3. ASSUME NEW id, d # Pause \/ labels[x] \in HostNetwork
        PROVE  id \in ClusterPauses' <=> id \in ClusterPauses
    BY <1>0, <1>1, <1>3, SMTT(60) DEF ClusterPauses
  <1>4. ASSUME NEW id, id \in ClusterPauses' PROVE id \in ClusterPauses \cup {x}
    BY <1>0, <1>1, <1>4, SMTT(60) DEF ClusterPauses
  <1> QED
    BY <1>2, <1>3, <1>4, SMTT(60)

LEMMA SetsShrink ==
    ASSUME TypeOK, NEW x, Lost(x)
    PROVE  /\ ClusterPauses' \subseteq ClusterPauses \ {x}
           /\ AbbotContainers' \subseteq AbbotContainers
           /\ x \notin AbbotContainers => AbbotContainers' = AbbotContainers
           /\ ~Exists(x, Pause) => ClusterPauses' = ClusterPauses
  <1>0. /\ pods \subseteq PodID /\ labels \in [PodID -> PodUID \cup {NoUID}]
        /\ Pause \in Ctr /\ Abbot \in Ctr
    BY LibpodAssumption DEF TypeOK, LibpodTypeOK, Pause, Abbot, Ctr
  <1>1. /\ pods' \subseteq pods /\ labels' = labels /\ pods \ {x} \subseteq pods'
        /\ \A id \in PodID, c \in Ctr : Exists(id, c)' <=> Exists(id, c) /\ id # x
    BY SMTT(60) DEF Lost
  <1>2. ASSUME NEW id, id \in ClusterPauses' PROVE id \in ClusterPauses \ {x}
    BY <1>0, <1>1, <1>2, SMTT(60) DEF ClusterPauses
  <1>3. ASSUME NEW id, id \in AbbotContainers' PROVE id \in AbbotContainers
    BY <1>0, <1>1, <1>3, SMTT(60) DEF AbbotContainers
  <1>4. ASSUME NEW id, id \in AbbotContainers, x \notin AbbotContainers PROVE id \in AbbotContainers'
    BY <1>0, <1>1, <1>4, SMTT(60) DEF AbbotContainers
  <1>5. ASSUME NEW id, id \in ClusterPauses, ~Exists(x, Pause) PROVE id \in ClusterPauses'
    BY <1>0, <1>1, <1>5, SMTT(60) DEF ClusterPauses
  <1> QED
    BY <1>2, <1>3, <1>4, <1>5, SMTT(60)

\* A pod of the cluster network is made after abbot was found.
FoundAbbot(w) ==
    wk[w].pc \in {"newPod", "newPause"} /\ wk[w].req.uid \notin HostNetwork => AbbotContainers # {}

\* deletePod removes abbot after it found no pod of the cluster network; only
\* such pods have a network to release; and ListPods removes pods without a
\* pause container.
GuardPassed(w) ==
    wk[w].pc = "delRemove" /\ labels[wk[w].dpod] \in AbbotPod \cap HostNetwork => ClusterPauses = {}
ReleasesCluster(w) == wk[w].pc = "delNetwork" => labels[wk[w].dpod] \notin HostNetwork
ListsPauseless(w) == wk[w].pc = "listRemove" => ~Exists(wk[w].dpod, Pause)

AbbotInv ==
    /\ WholeInv /\ AbbotKept
    /\ \A w \in Worker : FoundAbbot(w) /\ GuardPassed(w) /\ ReleasesCluster(w) /\ ListsPauseless(w)

\* Abbot goes last.
LEMMA AbbotKeptStep ==
    ASSUME OneWorker, AbbotInv, [Next]_vars
    PROVE  AbbotKept'
  <1>0. Inv /\ TypeOK /\ WorkHasPause /\ AbbotKept /\ Pause \in Ctr
    BY LibpodAssumption DEF AbbotInv, WholeInv, Inv, Pause, Ctr
  <1>1. CASE SameObjects \/ \E x, uid : Added(x, uid)
    BY <1>0, <1>1, SetsKept DEF AbbotKept
  <1>2. ASSUME NEW w \in Worker, CreatePause(w), Created(wk[w].pod, Pause)
        PROVE  AbbotKept'
    <2>1. wk[w].pc = "newPause"
      BY <1>2, Zenon DEF CreatePause
    <2>2. Control(wk[w]) /\ Handles(wk[w], labels) /\ FoundAbbot(w)
      BY <1>0, Zenon DEF Inv, ControlOK, HandlesOK, AbbotInv
    <2>3. labels[wk[w].pod] = wk[w].req.uid
      BY <2>1, <2>2 DEF Control, Handles, EnsureLabel, PodLabel, PodlessLabel
    <2>4. wk[w].req.uid \notin HostNetwork => AbbotContainers # {}
      BY <2>1, <2>2 DEF FoundAbbot
    <2>5. /\ AbbotContainers \subseteq AbbotContainers'
          /\ labels[wk[w].pod] \in HostNetwork => ClusterPauses' = ClusterPauses
      BY <1>0, <1>2, SetsGrow, Zenon
    <2> QED
      BY <1>0, <2>3, <2>4, <2>5 DEF AbbotKept
  <1>3. ASSUME NEW w \in Worker, NEW c \in Ctr, CreateContainer(w), Created(wk[w].pod, c)
        PROVE  AbbotKept'
    <2>1. wk[w].pc = "newCtr" /\ PauseThere(w)
      BY <1>3, Zenon DEF CreateContainer, AbbotInv, WholeInv, WholeOK
    <2>2. Exists(wk[w].pod, Pause)
      BY <2>1 DEF PauseThere, ContainerLabel
    <2>3. c # Pause
      BY <1>3, <2>2 DEF Created
    <2>4. AbbotContainers \subseteq AbbotContainers' /\ ClusterPauses' = ClusterPauses
      BY <1>0, <1>3, <2>3, SetsGrow
    <2> QED
      BY <1>0, <2>4 DEF AbbotKept
  <1>4. ASSUME NEW w \in Worker, DelRemove(w), Lost(wk[w].dpod)
        PROVE  AbbotKept'
    <2>1. wk[w].pc = "delRemove" /\ GuardPassed(w)
      BY <1>4, Zenon DEF DelRemove, AbbotInv
    <2>2. /\ ClusterPauses' \subseteq ClusterPauses
          /\ wk[w].dpod \notin AbbotContainers => AbbotContainers' = AbbotContainers
      BY <1>0, <1>4, SetsShrink
    <2>3. wk[w].dpod \in AbbotContainers => ClusterPauses = {}
      BY <2>1 DEF GuardPassed, AbbotContainers
    <2> QED
      BY <1>0, <2>2, <2>3 DEF AbbotKept
  <1>5. ASSUME NEW w \in Worker, ListRemove(w), Lost(wk[w].dpod)
        PROVE  AbbotKept'
    <2>1. ~Exists(wk[w].dpod, Pause)
      BY <1>5 DEF ListRemove, AbbotInv, ListsPauseless
    <2>2. wk[w].dpod \in PodID
      BY <1>0, <1>5 DEF Lost, TypeOK, LibpodTypeOK
    <2>3. wk[w].dpod \notin AbbotContainers
      BY <1>0, <2>1, <2>2, LibpodAssumption DEF WorkHasPause, AbbotContainers, Abbot, Ctr
    <2>4. AbbotContainers' = AbbotContainers /\ ClusterPauses' = ClusterPauses
      BY <1>0, <1>5, <2>1, <2>3, SetsShrink, Zenon
    <2> QED
      BY <1>0, <2>4 DEF AbbotKept
  <1> QED
    BY <1>0, <1>1, <1>2, <1>3, <1>4, <1>5, StepForms, HandleEffects, ZenonT(60)

\* A pod that comes is none of those a worker holds.
LEMMA HeldKept ==
    ASSUME TypeOK, NEW w \in Worker, NEW x \in FreshID, NEW uid, Added(x, uid)
    PROVE  /\ \A id \in {wk[w].pod, wk[w].dpod} \cap PodID : id # x /\ labels'[id] = labels[id]
           /\ \A id \in PodID : Exists(id, Pause)' <=> Exists(id, Pause)
  <1>1. x # wk[w].pod /\ x # wk[w].dpod
    BY DEF FreshID, Held
  <1>2. labels \in [PodID -> PodUID \cup {NoUID}] /\ Pause \in Ctr
    BY LibpodAssumption DEF TypeOK, LibpodTypeOK, Pause, Ctr
  <1>3. \A id \in PodID : Exists(id, Pause)' <=> Exists(id, Pause)
    BY <1>2, Zenon DEF Added
  <1> QED
    BY <1>1, <1>2, <1>3, SMTT(60) DEF Added

\* What the worker knows of abbot stays true while it waits.
LEMMA AbbotWait ==
    ASSUME AbbotInv, NEW v \in Worker, wk'[v] = wk[v],
           SameObjects \/ \E id \in FreshID : Added(id, NoUID)
    PROVE  FoundAbbot(v)' /\ GuardPassed(v)' /\ ReleasesCluster(v)' /\ ListsPauseless(v)'
  <1>0. /\ TypeOK /\ Control(wk[v]) /\ Handles(wk[v], labels) /\ Pause \in Ctr
        /\ FoundAbbot(v) /\ GuardPassed(v) /\ ReleasesCluster(v) /\ ListsPauseless(v)
    BY LibpodAssumption DEF AbbotInv, WholeInv, Inv, ControlOK, HandlesOK, Pause, Ctr
  <1>1. ClusterPauses' = ClusterPauses /\ AbbotContainers' = AbbotContainers
    BY <1>0, SetsKept, Zenon
  <1>2. /\ wk[v].dpod \in PodID => labels'[wk[v].dpod] = labels[wk[v].dpod]
        /\ \A id \in PodID : (id \in pods' /\ ctrs'[id][Pause] # "none") <=> Exists(id, Pause)
    <2>1. CASE SameObjects
      BY <1>0, <2>1, SMTT(60) DEF SameObjects, Exists
    <2>2. CASE \E id \in FreshID : Added(id, NoUID)
      BY <1>0, <2>2, HeldKept, SMTT(60) DEF Exists
    <2> QED
      BY <2>1, <2>2
  <1>3. wk[v].pc \in {"delRemove", "delNetwork", "listRemove"} => wk[v].dpod \in PodID
    BY <1>0, SMTT(60) DEF Handles, DeletePodLabel
  <1>4. FoundAbbot(v)'
    BY <1>0, <1>1 DEF FoundAbbot
  <1>5. GuardPassed(v)'
    BY <1>0, <1>1, <1>2, <1>3, Zenon DEF GuardPassed
  <1>6. ReleasesCluster(v)'
    BY <1>0, <1>2, <1>3, Zenon DEF ReleasesCluster
  <1>7. ListsPauseless(v)'
    BY <1>0, <1>2, <1>3, Zenon DEF ListsPauseless, Exists
  <1> QED
    BY <1>4, <1>5, <1>6, <1>7, SMTT(60)

\* And how the worker comes to know it.
LEMMA AbbotMove ==
    ASSUME "lookup" \notin Faults, AbbotInv, NEW v \in Worker, Handle(v)
    PROVE  FoundAbbot(v)' /\ GuardPassed(v)' /\ ReleasesCluster(v)' /\ ListsPauseless(v)'
  <1>0. /\ TypeOK /\ WorkHasPause /\ Control(wk[v]) /\ Handles(wk[v], labels) /\ Pause \in Ctr
        /\ FoundAbbot(v) /\ GuardPassed(v) /\ ReleasesCluster(v) /\ ListsPauseless(v)
        /\ ~Fault("lookup")
    BY LibpodAssumption DEF AbbotInv, WholeInv, Inv, ControlOK, HandlesOK, Pause, Ctr, Fault
  <1>1. FoundAbbot(v)'
    <2>1. CASE wk'[v].pc = "newPod"
      <3>1. CheckAbbot(v)
        BY <1>0, <2>1, Arrivals, Zenon
      <3>2. (wk[v].req.uid \notin HostNetwork => AbbotContainers # {}) /\ Goes(v, "newPod")
        BY <1>0, <2>1, <3>1, PauseMoves, Zenon DEF Ends
      <3>3. SameObjects
        BY <1>0, <3>1, QuietSteps, Zenon DEF CheckAbbot
      <3>4. AbbotContainers' = AbbotContainers
        BY <1>0, <3>3, SetsKept, Zenon
      <3> QED
        BY <3>2, <3>4 DEF FoundAbbot, Goes
    <2>2. CASE wk'[v].pc = "newPause"
      <3>1. CreatePod(v)
        BY <1>0, <2>2, Arrivals, Zenon
      <3>2. PICK id \in FreshID : NewPod(id, wk[v].req.uid) /\ GoesWithPod(v, "newPause", id)
        BY <1>0, <2>2, <3>1, PauseMoves, Zenon DEF Ends
      <3>3. Added(id, wk[v].req.uid)
        BY <1>0, <3>2, ObjectCalls DEF FreshID
      <3>4. AbbotContainers' = AbbotContainers
        BY <1>0, <3>3, SetsKept, Zenon
      <3>5. wk[v].pc = "newPod"
        BY <3>1 DEF CreatePod
      <3> QED
        BY <1>0, <3>2, <3>4, <3>5 DEF FoundAbbot, GoesWithPod
    <2> QED
      BY <2>1, <2>2 DEF FoundAbbot
  <1>2. ASSUME wk'[v].pc \in {"delNetwork", "delRemove"}
        PROVE  /\ DelFind(v) \/ DelNetwork(v) \/ DelGuard(v)
               /\ ClusterPauses' = ClusterPauses /\ labels' = labels
               /\ wk'[v].dpod = wk[v].dpod
    <2>1. DelFind(v) \/ DelNetwork(v) \/ DelGuard(v)
      BY <1>0, <1>2, Arrivals, Zenon
    <2>2. SameObjects
      BY <1>0, <2>1, QuietSteps, ZenonT(30) DEF DelFind, DelNetwork, DelGuard
    <2>3. ClusterPauses' = ClusterPauses /\ labels' = labels
      BY <1>0, <2>2, SetsKept, Zenon DEF SameObjects
    <2>4. ~Returns(v, FALSE)
      BY <1>2 DEF Returns, Ends, RollsBack, Deletes
    <2>5. /\ \A l : Goes(v, l) => wk'[v].dpod = wk[v].dpod
          /\ \A l, id : GoesWithCtr(v, l, id) => wk'[v].dpod = wk[v].dpod
      BY DEF Goes, GoesWithCtr
    <2>6. wk'[v].dpod = wk[v].dpod
      BY <1>0, <2>1, <2>4, <2>5, DeleteSteps, ZenonT(60)
    <2> QED
      BY <2>1, <2>3, <2>6, Zenon
  <1>3. GuardPassed(v)'
    <2> SUFFICES ASSUME wk'[v].pc = "delRemove", labels'[wk'[v].dpod] \in AbbotPod \cap HostNetwork
                 PROVE  ClusterPauses' = {}
      BY SMTT(60) DEF GuardPassed
    <2>1. labels[wk[v].dpod] \in AbbotPod \cap HostNetwork /\ labels[wk[v].dpod] # NoUID
      BY <1>2, LibpodAssumption
    <2>2. ~Returns(v, FALSE)
      BY DEF Returns, Ends, RollsBack, Deletes
    <2>3. ~DelFind(v)
      BY <1>0, <2>1, <2>2, DeleteSteps, Zenon DEF GoesWithCtr
    <2>4. ~DelNetwork(v)
      BY <1>0, <2>1, Zenon DEF DelNetwork, ReleasesCluster
    <2>5. DelGuard(v) => ClusterPauses = {}
      BY <1>0, <2>2, DeleteSteps, Zenon
    <2> QED
      BY <1>2, <2>3, <2>4, <2>5
  <1>4. ReleasesCluster(v)'
    <2> SUFFICES ASSUME wk'[v].pc = "delNetwork" PROVE labels'[wk'[v].dpod] \notin HostNetwork
      BY DEF ReleasesCluster
    <2>1. DelFind(v)
      BY <1>0, Arrivals, Zenon
    <2>2. labels[wk[v].dpod] \notin HostNetwork
      BY <1>0, <2>1, DeleteSteps, Zenon DEF GoesWithCtr, Goes, Returns, Ends, RollsBack, Deletes
    <2> QED
      BY <1>2, <2>2, SMTT(60)
  <1>5. ListsPauseless(v)'
    <2> SUFFICES ASSUME wk'[v].pc = "listRemove"
                 PROVE  ~(wk'[v].dpod \in pods' /\ ctrs'[wk'[v].dpod][Pause] # "none")
      BY DEF ListsPauseless, Exists
    <2>1. ListNext(v)
      BY <1>0, Arrivals, Zenon
    <2>2. /\ \A l : l # "listRemove" => ~Goes(v, l)
          /\ \A l, a : l # "listRemove" => ~Ends(v, l, a)
          /\ \A id, r : ~Deletes(v, id, r)
      BY DEF Goes, Ends, Deletes
    <2>3. PICK id \in wk[v].lst : /\ ContainersOf(labels[id], Pause) = {}
                                  /\ wk'[v].dpod = id /\ UNCHANGED libpodVars
      BY <1>0, <2>1, <2>2, ListSteps, ZenonT(30)
    <2>4. ~Exists(id, Pause)
      BY <2>3 DEF ContainersOf, PodsWithUID, Exists
    <2> QED
      BY <2>3, <2>4, Zenon DEF Exists, libpodVars
  <1> QED
    BY <1>1, <1>3, <1>4, <1>5

LEMMA AbbotInvStep ==
    ASSUME OneWorker, "lookup" \notin Faults, AbbotInv, [Next]_vars
    PROVE  AbbotInv'
  <1>0. TypeOK /\ WorkHasPause /\ WholeInv /\ OneAtATime
    BY SMTT(60) DEF AbbotInv, WholeInv, Inv, OneWorker, OneAtATime
  <1>1. ASSUME NEW v \in Worker
        PROVE  FoundAbbot(v)' /\ GuardPassed(v)' /\ ReleasesCluster(v)' /\ ListsPauseless(v)'
    <2>1. CASE Handle(v)
      BY <2>1, AbbotMove, Zenon
    <2>2. CASE wk'[v] = wk[v] /\ (SameObjects \/ \E id \in FreshID : Added(id, NoUID))
      BY <2>2, AbbotWait, Zenon
    <2>3. CASE wk'[v].pc \in {"idle", "findPod", "deleteFindPod", "listFind"}
      BY <2>3 DEF FoundAbbot, GuardPassed, ReleasesCluster, ListsPauseless
    <2> QED
      BY <1>0, <2>1, <2>2, <2>3, SoleForms DEF Idle
  <1>2. AbbotKept' /\ WholeInv'
    BY <1>0, AbbotKeptStep, WholeInvStep, Zenon
  <1> QED
    BY <1>1, <1>2, Zenon DEF AbbotInv

LEMMA AbbotInvInit == Init => AbbotInv
  <1> SUFFICES ASSUME Init PROVE AbbotInv
    OBVIOUS
  <1>1. \A w \in Worker : wk[w].pc = "idle"
    BY DEF Init, Idle
  <1>2. AbbotKept
    BY DEF Init, LibpodInit, AbbotKept, ClusterPauses
  <1> QED
    BY <1>1, <1>2, WholeInvInit DEF AbbotInv, FoundAbbot, GuardPassed, ReleasesCluster, ListsPauseless

\* The abbot container is there as long as a pause container uses the cluster
\* network: createPauseContainer makes none without abbot, and deletePod does
\* not remove abbot before the last one is gone.
THEOREM AbbotGoesLast ==
    ASSUME OneWorker, "lookup" \notin Faults
    PROVE  Spec => []AbbotKept
  <1>1. AbbotInv /\ [Next]_vars => AbbotInv'
    BY AbbotInvStep
  <1>2. AbbotInv => AbbotKept
    BY DEF AbbotInv
  <1> QED
    BY <1>1, <1>2, AbbotInvInit, PTL DEF Spec
=============================================================================
