---------------------------- MODULE SerialProofs ----------------------------
(***************************************************************************)
(* What finished commands leave behind when one goroutine serves them all, *)
(* for any set of pods and requests: a failed EnsurePod leaves no          *)
(* container; every pod of the cluster network that was started has its    *)
(* network; pod data belongs to a pod.                                     *)
(***************************************************************************)
EXTENDS CommandProofs
-----------------------------------------------------------------------------
(***************************************************************************)
(* A failed EnsurePod leaves no container, when removals and abbot work    *)
(* and nobody pauses containers.                                           *)
(***************************************************************************)
NeverPaused == \A id \in PodID, c \in Ctr : ctrs[id][c] # "paused"

\* EnsurePod found no pod of its UID; nor is there one while it deletes the
\* previous pod of the name.
PodAbsent(w) ==
    wk[w].pc \in {"lookupPrev", "checkAbbot", "newPod"} => \A id \in pods : labels[id] # wk[w].req.uid
PrevDeleted(w) ==
    wk[w].pc \in DeletePodLabel /\ wk[w].ret = "prev" =>
        wk[w].dpod \in pods /\ \A id \in pods : labels[id] # wk[w].req.uid

\* It works on a pod of the database, and rolls back that pod, the only one
\* of its UID.
HasPod(w) == wk[w].pc \in RollbackLabel => wk[w].pod \in pods
RollsBackOwn(w) ==
    wk[w].pc \in DeletePodLabel /\ wk[w].ret \in {"unwind", "fail"} =>
        /\ wk[w].pod \in PodID /\ wk[w].dpod = wk[w].pod
        /\ \A id \in pods : labels[id] = wk[w].req.uid => id = wk[w].pod

\* deletePod, called by EnsurePod or DeletePod, removes a pod of the database;
\* the network it releases has a pause container; its guard is for abbot.
DeletesFound(w) == wk[w].pc \in DeletePodLabel /\ wk[w].ret = "delete" => wk[w].dpod \in pods
RemovesPresent(w) ==
    wk[w].pc \in {"delNetwork", "delGuard", "delRemove"} /\ wk[w].req.op # "list" =>
        wk[w].dpod \in pods
ReleasesPresent(w) == wk[w].pc = "delNetwork" => Exists(wk[w].dpod, Pause)
GuardsAbbot(w) == wk[w].pc = "delGuard" => labels[wk[w].dpod] \in AbbotPod

\* After an error no container is left, unless the pod is abbot's and in use.
NothingLeft(w) ==
    wk[w].pc \in {"cleanup", "reply"} /\ wk[w].req.op = "ensure" /\ wk[w].resp = "err" =>
        \/ \A id \in pods, c \in Ctr : labels[id] = wk[w].req.uid => ~Exists(id, c)
        \/ wk[w].req.uid \in AbbotPod /\ ClusterPauses # {}

RollOK(w) ==
    /\ PodAbsent(w) /\ PrevDeleted(w) /\ HasPod(w) /\ RollsBackOwn(w) /\ DeletesFound(w)
    /\ RemovesPresent(w) /\ ReleasesPresent(w) /\ GuardsAbbot(w) /\ NothingLeft(w)

RollInv == AbbotInv /\ NeverPaused /\ \A w \in Worker : RollOK(w)

\* The libpod calls of a handler.
LEMMA HandleCalls ==
    ASSUME TypeOK, NEW w \in Worker, Handle(w)
    PROVE  \/ UNCHANGED libpodVars
           \/ \E id, c : c \in Ctr /\ (Start(id, c) \/ StartAll(id, c) \/ Unpause(id, c))
           \/ \E id \in PodID : \E uid : NewPod(id, uid)
           \/ \E id, c, dep : c \in Ctr /\ NewContainer(id, c, dep)
           \/ \E id : RemovePod(id) \/ RemovePodContainers(id)
  <1>0. Pause \in Ctr /\ Abbot \in Ctr /\ FreshID \subseteq PodID
    BY LibpodAssumption DEF Pause, Abbot, Ctr, FreshID
  <1>a. AbbotExecOK \/ AbbotExecFails => UNCHANGED libpodVars \/ \E id : StartAll(id, Abbot)
    BY Zenon DEF AbbotExecOK, AbbotExecFails
  <1>1. CASE CreatePod(w)
    BY <1>0, <1>1, PauseMoves, ZenonT(60)
  <1>2. CASE CreatePause(w)
    BY <1>0, <1>2, PauseMoves, ZenonT(60)
  <1>3. CASE CreateContainer(w)
    BY <1>3, ContainerMoves, ZenonT(60)
  <1>4. CASE StartPause(w) \/ RestartPause(w) \/ UnpausePause(w)
    BY <1>0, <1>4, PauseMoves, ZenonT(60)
  <1>5. CASE StartContainer(w)
    BY <1>5, ContainerMoves, ZenonT(60)
  <1>6. CASE ConfigureNetwork(w) \/ DelNetwork(w)
    BY <1>0, <1>a, <1>6, PauseMoves, DeleteSteps, ZenonT(60)
  <1>7. CASE DelRemove(w) \/ ListRemove(w)
    BY <1>7, ZenonT(60) DEF DelRemove, ListRemove, RemoveFails
  <1>8. CASE ListNext(w)
    BY <1>0, <1>a, <1>8, ZenonT(60) DEF ListNext, Queried
  <1>9. CASE \/ EnsureFindPod(w) \/ FindPause(w) \/ LookupPrev(w) \/ CheckAbbot(w) \/ CheckPause(w)
             \/ InspectPause(w) \/ PrepareContainer(w) \/ WaitContainer(w) \/ CheckContainers(w)
    BY <1>9, ZenonT(60) DEF EnsureFindPod, FindPause, LookupPrev, CheckAbbot, CheckPause,
           InspectPause, PrepareContainer, WaitContainer, CheckContainers, libpodVars
  <1>10. CASE \/ DeletePod(w) \/ DelFind(w) \/ DelGuard(w) \/ ListFind(w) \/ Cleanup(w) \/ Reply(w)
    BY <1>10, ZenonT(60) DEF DeletePod, DeleteFindPod, DeleteFindPause, DeleteListed,
           DelFind, DelGuard, ListFind, Cleanup, Reply, libpodVars
  <1> QED
    BY <1>1, <1>2, <1>3, <1>4, <1>5, <1>6, <1>7, <1>8, <1>9, <1>10, Zenon
       DEF Handle, EnsurePod, deletePod, ListPods

\* Only an operator pauses containers.
LEMMA PausedStep ==
    ASSUME "pause" \notin Faults, TypeOK, NeverPaused, [Next]_vars
    PROVE  NeverPaused'
  <1>0. Pause \in Ctr /\ ctrs \in [PodID -> [Ctr -> CtrState]] /\ FreshID \subseteq PodID
    BY LibpodAssumption DEF TypeOK, LibpodTypeOK, Pause, Ctr, FreshID
  <1>1. UNCHANGED libpodVars => NeverPaused'
    BY DEF libpodVars, NeverPaused
  <1>2. ASSUME NEW x, NEW d \in Ctr, Start(x, d) \/ Unpause(x, d) PROVE NeverPaused'
    BY <1>0, <1>2, SMTT(60) DEF Start, Unpause, NeverPaused
  <1>3. ASSUME NEW x, NEW d \in Ctr, StartAll(x, d) PROVE NeverPaused'
    BY <1>0, <1>3, SMTT(60) DEF StartAll, NeverPaused
  <1>4. ASSUME NEW x, NEW d \in Ctr, ContainerExits(x, d) PROVE NeverPaused'
    BY <1>0, <1>4, SMTT(60) DEF ContainerExits, NeverPaused
  <1>5. ASSUME NEW x, NEW d \in Ctr, NEW dep, NewContainer(x, d, dep) PROVE NeverPaused'
    BY <1>0, <1>5, SMTT(60) DEF NewContainer, NeverPaused
  <1>6. ASSUME NEW x, ctrs' = [ctrs EXCEPT ![x] = NoContainers] PROVE NeverPaused'
    BY <1>0, <1>6, SMTT(60) DEF NoContainers, NeverPaused
  <1>7. \A x, uid : \/ NewPod(x, uid) \/ ForeignPodCreated(x) \/ RemovePod(x) \/ RemovePodContainers(x)
                    => NeverPaused'
    BY <1>6, Zenon DEF NewPod, ForeignPodCreated, RemovePod, RemovePodContainers
  <1>8. ASSUME NEW w \in Worker, Handle(w) PROVE NeverPaused'
    BY <1>1, <1>2, <1>3, <1>5, <1>7, <1>8, HandleCalls, ZenonT(60)
  <1>9. ASSUME Engine PROVE NeverPaused'
    BY <1>2, <1>4, <1>7, <1>9, ZenonT(60) DEF Engine, Fault, ContainerRestarts
  <1>10. ASSUME NEW w \in Worker, Accept(w) PROVE NeverPaused'
    BY <1>1, <1>10, Zenon DEF Accept
  <1>11. Crash \/ UNCHANGED vars => NeverPaused'
    BY <1>1, Zenon DEF Crash, vars, libpodVars
  <1> QED
    BY <1>8, <1>9, <1>10, <1>11, Zenon DEF Next

\* Abbot, where it exists, can be started and answers.
LEMMA AbbotAnswers ==
    ASSUME TypeOK, NeverPaused, "abbot" \notin Faults, AbbotContainers # {}
    PROVE  ~AbbotExecFails
  <1>0. Pause \in Ctr /\ Abbot \in Ctr /\ ctrs \in [PodID -> [Ctr -> CtrState]] /\ pods \subseteq PodID
    BY LibpodAssumption DEF TypeOK, LibpodTypeOK, Pause, Abbot, Ctr
  <1>1. ASSUME NEW id \in AbbotContainers PROVE AbbotReady(id)
    <2>1. id \in pods /\ id \in PodID /\ ctrs[id][Abbot] # "none"
      BY <1>0 DEF AbbotContainers, Exists
    <2>2. ctrs[id][Abbot] \in CtrState /\ ctrs[id][Abbot] # "paused" /\ ctrs[id][Pause] # "paused"
      BY <1>0, <2>1 DEF NeverPaused
    <2> QED
      BY <2>1, <2>2 DEF AbbotReady, CanStartAll, Startable, CtrState
  <1> QED
    BY <1>1, Zenon DEF AbbotExecFails, Fault

\* No pod of this UID is new.
LEMMA NoNewPods ==
    ASSUME TypeOK, NEW uid \in PodUID,
           \/ SameObjects \/ (\E x : Added(x, NoUID)) \/ (\E x, d : Created(x, d))
           \/ (\E x : Lost(x))
    PROVE  \A id \in pods' : labels'[id] = uid => id \in pods /\ labels[id] = uid
  <1>0. labels \in [PodID -> PodUID \cup {NoUID}] /\ pods \subseteq PodID /\ uid # NoUID
    BY LibpodAssumption DEF TypeOK, LibpodTypeOK
  <1>1. CASE SameObjects
    BY <1>1 DEF SameObjects
  <1>2. ASSUME NEW x, Added(x, NoUID)
        PROVE  \A id \in pods' : labels'[id] = uid => id \in pods /\ labels[id] = uid
    BY <1>0, <1>2, SMTT(60) DEF Added
  <1>3. ASSUME NEW x, NEW d, Created(x, d)
        PROVE  \A id \in pods' : labels'[id] = uid => id \in pods /\ labels[id] = uid
    BY <1>3 DEF Created
  <1>4. ASSUME NEW x, Lost(x)
        PROVE  \A id \in pods' : labels'[id] = uid => id \in pods /\ labels[id] = uid
    BY <1>4, SMTT(60) DEF Lost
  <1> QED
    BY <1>1, <1>2, <1>3, <1>4, Zenon

\* What the only worker knows stays true while it waits.
LEMMA RollWait ==
    ASSUME RollInv, NEW v \in Worker, wk'[v] = wk[v],
           SameObjects \/ \E id \in FreshID : Added(id, NoUID)
    PROVE  RollOK(v)'
  <1>0. /\ TypeOK /\ Control(wk[v]) /\ Handles(wk[v], labels) /\ Pause \in Ctr /\ RollOK(v)
    BY LibpodAssumption DEF RollInv, AbbotInv, WholeInv, Inv, ControlOK, HandlesOK, Pause, Ctr
  <1> USE DEF RollOK
  <1> DEFINE uid == wk[v].req.uid
  <1>1. ClusterPauses' = ClusterPauses
    BY <1>0, SetsKept, ZenonT(30)
  <1>2. /\ pods \subseteq pods'
        /\ \A id \in pods : labels'[id] = labels[id]
        /\ wk[v].dpod \in PodID => labels'[wk[v].dpod] = labels[wk[v].dpod]
        /\ \A id \in PodID, c \in Ctr : (id \in pods' /\ ctrs'[id][c] # "none") <=> Exists(id, c)
    <2>1. CASE SameObjects
      BY <1>0, <2>1, Zenon DEF SameObjects, Exists
    <2>2. ASSUME NEW x \in FreshID, Added(x, NoUID)
          PROVE  /\ pods \subseteq pods'
                 /\ \A id \in pods : labels'[id] = labels[id]
                 /\ wk[v].dpod \in PodID => labels'[wk[v].dpod] = labels[wk[v].dpod]
                 /\ \A id \in PodID, c \in Ctr : (id \in pods' /\ ctrs'[id][c] # "none") <=> Exists(id, c)
      <3>1. labels \in [PodID -> PodUID \cup {NoUID}] /\ pods \subseteq PodID
        BY <1>0, SMTT(60) DEF TypeOK, LibpodTypeOK
      <3>2. pods \subseteq pods' /\ \A id \in pods : labels'[id] = labels[id]
        BY <2>2, <3>1, SMTT(60) DEF Added
      <3>3. wk[v].dpod \in PodID => labels'[wk[v].dpod] = labels[wk[v].dpod]
        BY <1>0, <2>2, HeldKept, SMTT(60)
      <3>4. \A id \in PodID, c \in Ctr : (id \in pods' /\ ctrs'[id][c] # "none") <=> Exists(id, c)
        BY <2>2 DEF Added, Exists
      <3> QED
        BY <3>2, <3>3, <3>4, Zenon
    <2> QED
      BY <2>1, <2>2
  <1>3. wk[v].req.op # "list" => \A id \in pods' : labels'[id] = uid => id \in pods /\ labels[id] = uid
    <2> SUFFICES ASSUME wk[v].req.op # "list"
                 PROVE  \A id \in pods' : labels'[id] = uid => id \in pods /\ labels[id] = uid
      BY Zenon
    <2>1. uid \in PodUID
      BY <1>0 DEF Control
    <2> HIDE DEF uid
    <2> QED
      BY <1>0, <2>1, NoNewPods, Zenon
  <1>4. /\ wk[v].pc \in EnsureLabel => wk[v].req.op # "list"
        /\ wk[v].pc \in DeletePodLabel /\ wk[v].ret # "list" => wk[v].req.op # "list"
        /\ wk[v].pc \in DeletePodLabel => wk[v].dpod \in PodID
    <2>1. wk[v].ret \in {"prev", "unwind", "fail", "delete", "list"}
      BY <1>0, SMTT(60) DEF TypeOK, WorkerState
    <2> QED
      BY <1>0, <2>1, SMTT(60) DEF Control, Handles
  <1>5. PodAbsent(v)'
    BY <1>0, <1>3, <1>4 DEF PodAbsent, EnsureLabel
  <1>6. PrevDeleted(v)'
    BY <1>0, <1>2, <1>3, <1>4, Zenon DEF PrevDeleted
  <1>7. HasPod(v)'
    BY <1>0, <1>2, Zenon DEF HasPod
  <1>8. RollsBackOwn(v)'
    BY <1>0, <1>3, <1>4, ZenonT(30) DEF RollsBackOwn
  <1>9. DeletesFound(v)' /\ RemovesPresent(v)'
    BY <1>0, <1>2 DEF DeletesFound, RemovesPresent
  <1>10. ReleasesPresent(v)'
    BY <1>0, <1>2, <1>4, Zenon DEF ReleasesPresent, DeletePodLabel, Exists
  <1>11. GuardsAbbot(v)'
    BY <1>0, <1>2, <1>4, Zenon DEF GuardsAbbot, DeletePodLabel
  <1>12. NothingLeft(v)'
    <2> SUFFICES ASSUME wk[v].pc \in {"cleanup", "reply"}, wk[v].req.op = "ensure", wk[v].resp = "err"
                 PROVE  \/ \A id \in pods', c \in Ctr :
                              labels'[id] = uid => ~(id \in pods' /\ ctrs'[id][c] # "none")
                        \/ uid \in AbbotPod /\ ClusterPauses' # {}
      BY SMTT(60) DEF NothingLeft, Exists
    <2>1. \/ \A id \in pods, c \in Ctr : labels[id] = uid => ~Exists(id, c)
          \/ uid \in AbbotPod /\ ClusterPauses # {}
      BY <1>0 DEF NothingLeft
    <2>2. pods \subseteq PodID
      BY <1>0, ZenonT(30) DEF TypeOK, LibpodTypeOK
    <2> QED
      BY <1>1, <1>2, <1>3, <2>1, <2>2, SMTT(60)
  <1> QED
    BY <1>5, <1>6, <1>7, <1>8, <1>9, <1>10, <1>11, <1>12

\* Inside deletePod the worker keeps its locals, and the pods stay.
LEMMA DeleteGoesOn ==
    ASSUME TypeOK, WorkHasPause, NEW v \in Worker, Handle(v),
           wk'[v].pc \in {"delNetwork", "delGuard", "delRemove"}
    PROVE  /\ DelFind(v) \/ DelNetwork(v) \/ DelGuard(v)
           /\ wk'[v].req = wk[v].req /\ wk'[v].pod = wk[v].pod
           /\ wk'[v].dpod = wk[v].dpod /\ wk'[v].ret = wk[v].ret
           /\ SameObjects
  <1>1. DelFind(v) \/ DelNetwork(v) \/ DelGuard(v)
    BY Arrivals, Zenon
  <1>2. SameObjects
    BY <1>1, QuietSteps, Zenon DEF DelFind, DelNetwork, DelGuard
  <1>3. ~Returns(v, FALSE)
    BY DEF Returns, Ends, RollsBack, Deletes
  <1> DEFINE Same == /\ wk'[v].req = wk[v].req /\ wk'[v].pod = wk[v].pod
                     /\ wk'[v].dpod = wk[v].dpod /\ wk'[v].ret = wk[v].ret
  <1>4. (\A l : Goes(v, l) => Same) /\ (\A l, id : GoesWithCtr(v, l, id) => Same)
    BY DEF Goes, GoesWithCtr
  <1>5. Same
    BY <1>1, <1>3, <1>4, DeleteSteps, ZenonT(60)
  <1> QED
    BY <1>1, <1>2, <1>5

\* EnsurePod keeps its pod until it answers or rolls back.
LEMMA EnsureGoesOn ==
    ASSUME TypeOK, WorkHasPause, NEW v \in Worker, Handle(v),
           wk'[v].pc \in RollbackLabel \ {"findPause", "newPause"}
    PROVE  /\ wk[v].pc \in RollbackLabel
           /\ wk'[v].req = wk[v].req /\ wk'[v].pod = wk[v].pod
           /\ pods' = pods /\ labels' = labels
  <1>1. \/ FindPause(v) \/ CreatePause(v) \/ StartPause(v) \/ CheckPause(v) \/ ConfigureNetwork(v)
        \/ InspectPause(v) \/ RestartPause(v) \/ UnpausePause(v)
        \/ PrepareContainer(v) \/ CreateContainer(v) \/ StartContainer(v) \/ WaitContainer(v)
    BY Arrivals, ZenonT(30) DEF RollbackLabel, EnsureLabel
  <1>2. wk[v].pc \in RollbackLabel
    BY <1>1, SMTT(60) DEF FindPause, CreatePause, StartPause, CheckPause, ConfigureNetwork, InspectPause,
           RestartPause, UnpausePause, PrepareContainer, CreateContainer, StartContainer,
           WaitContainer, RollbackLabel, EnsureLabel
  <1> DEFINE Same == wk'[v].req = wk[v].req /\ wk'[v].pod = wk[v].pod
  <1>3. /\ \A l : Goes(v, l) => Same
        /\ \A l, id : GoesWithCtr(v, l, id) => Same
        /\ ~RollsBack(v, "fail") /\ ~RollsBack(v, "unwind")
    BY SMTT(60) DEF Goes, GoesWithCtr, RollsBack, Deletes, RollbackLabel, EnsureLabel
  <1>4. Same
    <2> HIDE DEF Same
    <2>1. CASE \/ FindPause(v) \/ CreatePause(v) \/ StartPause(v) \/ CheckPause(v)
      BY <1>3, <2>1, PauseMoves, ZenonT(60)
    <2>2. CASE ConfigureNetwork(v) \/ InspectPause(v) \/ RestartPause(v) \/ UnpausePause(v)
      BY <1>3, <2>2, PauseMoves, ZenonT(60)
    <2>3. CASE PrepareContainer(v) \/ CreateContainer(v) \/ StartContainer(v) \/ WaitContainer(v)
      BY <1>3, <2>3, ContainerMoves, ZenonT(60)
    <2> QED
      BY <1>1, <2>1, <2>2, <2>3
  <1>5. ~CreatePod(v) /\ ~DelRemove(v) /\ ~ListRemove(v)
    BY <1>2, ZenonT(30) DEF CreatePod, DelRemove, ListRemove, RollbackLabel, EnsureLabel
  <1>6. SameObjects \/ \E x, d : Created(x, d)
    BY <1>5, HandleEffects, Zenon
  <1>7. pods' = pods /\ labels' = labels
    BY <1>6, Zenon DEF SameObjects, Created
  <1> QED
    BY <1>2, <1>4, <1>7

\* EnsurePod's pods: found, made, kept, rolled back.
LEMMA RollPodStep ==
    ASSUME RollInv, NEW v \in Worker, Handle(v)
    PROVE  PodAbsent(v)' /\ HasPod(v)'
  <1>0. /\ TypeOK /\ WorkHasPause /\ Control(wk[v]) /\ Handles(wk[v], labels) /\ RollOK(v)
        /\ PodAbsent(v) /\ PrevDeleted(v) /\ HasPod(v)
    BY DEF RollInv, RollOK, AbbotInv, WholeInv, Inv, ControlOK, HandlesOK
  <1> DEFINE uid == wk[v].req.uid
  <1>1. PodAbsent(v)'
    <2> SUFFICES ASSUME wk'[v].pc \in {"lookupPrev", "checkAbbot", "newPod"}
                 PROVE  \A id \in pods' : labels'[id] # wk'[v].req.uid
      BY DEF PodAbsent
    <2>a. wk'[v].req = wk[v].req
      BY <1>0, RequestKept DEF Idle
    <2>1. EnsureFindPod(v) \/ LookupPrev(v) \/ CheckAbbot(v) \/ (DelRemove(v) /\ wk'[v].pc = "checkAbbot")
      BY <1>0, Arrivals, ZenonT(30)
    <2>2. wk[v].req.op = "ensure" /\ \A id \in pods : labels[id] # uid
      <3>1. CASE EnsureFindPod(v)
        <4>1. PodsWithUID(uid) = {}
          BY <1>0, <3>1, PauseMoves, Zenon DEF GoesWithPod, Ends
        <4> QED
          BY <1>0, <3>1, <4>1 DEF PodsWithUID, EnsureFindPod, Control, EnsureLabel
      <3>2. CASE LookupPrev(v) \/ CheckAbbot(v)
        BY <1>0, <3>2 DEF LookupPrev, CheckAbbot, PodAbsent, Control, EnsureLabel
      <3>3. CASE DelRemove(v) /\ wk'[v].pc = "checkAbbot"
        <4>1. Returns(v, TRUE) \/ Returns(v, FALSE)
          BY <1>0, <3>3, DeleteSteps, Zenon
        <4>2. wk[v].ret = "prev"
          BY <3>3, <4>1, Zenon DEF Returns, Ends, RollsBack, Deletes
        <4> QED
          BY <1>0, <3>3, <4>2 DEF DelRemove, PrevDeleted, DeletePodLabel, Control
      <3> QED
        BY <2>1, <3>1, <3>2, <3>3
    <2>3. SameObjects \/ \E x : Lost(x)
      <3>1. ~CreatePod(v) /\ ~CreatePause(v) /\ ~CreateContainer(v)
        BY <2>1, ZenonT(30) DEF EnsureFindPod, LookupPrev, CheckAbbot, DelRemove, CreatePod, CreatePause,
               CreateContainer
      <3> QED
        BY <1>0, <3>1, HandleEffects, Zenon
    <2>4. uid \in PodUID
      BY <1>0, <2>2 DEF Control
    <2>5. \A id \in pods' : labels'[id] = uid => id \in pods /\ labels[id] = uid
      <3> HIDE DEF uid
      <3> QED
        BY <1>0, <2>3, <2>4, NoNewPods, Zenon
    <2> QED
      BY <2>a, <2>2, <2>5
  <1>2. HasPod(v)'
    <2> SUFFICES ASSUME wk'[v].pc \in RollbackLabel PROVE wk'[v].pod \in pods'
      BY DEF HasPod
    <2>1. CASE wk'[v].pc = "findPause"
      <3>1. EnsureFindPod(v)
        BY <1>0, <2>1, Arrivals, Zenon
      <3>2. PICK id \in PodsWithUID(uid) : GoesWithPod(v, "findPause", id)
        BY <1>0, <2>1, <3>1, PauseMoves, Zenon DEF Goes, Ends
      <3>3. pods' = pods
        BY <3>1, Zenon DEF EnsureFindPod, libpodVars
      <3> QED
        BY <3>2, <3>3 DEF GoesWithPod, PodsWithUID
    <2>2. CASE wk'[v].pc = "newPause"
      <3>1. CreatePod(v)
        BY <1>0, <2>2, Arrivals, Zenon
      <3>2. PICK id \in FreshID : NewPod(id, uid) /\ GoesWithPod(v, "newPause", id)
        BY <1>0, <2>2, <3>1, PauseMoves, Zenon DEF Ends
      <3> QED
        BY <3>2, Zenon DEF GoesWithPod, NewPod
    <2>3. CASE wk'[v].pc \notin {"findPause", "newPause"}
      <3>1. wk[v].pc \in RollbackLabel /\ wk'[v].pod = wk[v].pod /\ pods' = pods
        BY <1>0, <2>3, EnsureGoesOn, Zenon
      <3> QED
        BY <1>0, <3>1 DEF HasPod
    <2> QED
      BY <2>1, <2>2, <2>3
  <1> QED
    BY <1>1, <1>2

\* deletePod's pods.
LEMMA RollDeleteStep ==
    ASSUME RollInv, NEW v \in Worker, Handle(v)
    PROVE  PrevDeleted(v)' /\ RollsBackOwn(v)' /\ DeletesFound(v)'
  <1>0. /\ TypeOK /\ WorkHasPause /\ Control(wk[v]) /\ Handles(wk[v], labels) /\ NamesUnique
        /\ PodAbsent(v) /\ PrevDeleted(v) /\ HasPod(v) /\ RollsBackOwn(v) /\ DeletesFound(v)
    BY DEF RollInv, RollOK, AbbotInv, WholeInv, Inv, ControlOK, HandlesOK
  <1> DEFINE uid == wk[v].req.uid
  <1>1. CASE wk'[v].pc \in {"delNetwork", "delGuard", "delRemove"}
    <2>1. /\ wk[v].pc \in DeletePodLabel
          /\ wk'[v].req = wk[v].req /\ wk'[v].pod = wk[v].pod
          /\ wk'[v].dpod = wk[v].dpod /\ wk'[v].ret = wk[v].ret
          /\ pods' = pods /\ labels' = labels
      BY <1>0, <1>1, DeleteGoesOn, ZenonT(30) DEF DelFind, DelNetwork, DelGuard, DeletePodLabel, SameObjects
    <2>2. PrevDeleted(v)'
      BY <1>0, <2>1 DEF PrevDeleted
    <2>3. RollsBackOwn(v)'
      BY <1>0, <2>1 DEF RollsBackOwn
    <2>4. DeletesFound(v)'
      BY <1>0, <2>1, Zenon DEF DeletesFound
    <2> QED
      BY <2>2, <2>3, <2>4
  <1>2. CASE wk'[v].pc = "delFind"
    <2>a. \A id, r : Deletes(v, id, r) => wk'[v].dpod = id /\ wk'[v].ret = r /\ wk'[v].req = wk[v].req
      BY SMTT(60) DEF Deletes
    <2>1. ASSUME wk[v].pc \in RollbackLabel, EnsurePod(v), RollsBack(v, "fail") \/ RollsBack(v, "unwind")
          PROVE  PrevDeleted(v)' /\ RollsBackOwn(v)' /\ DeletesFound(v)'
      <3>1. ~CreatePod(v) /\ ~DelRemove(v) /\ ~ListRemove(v)
        BY <2>1, ZenonT(30) DEF CreatePod, DelRemove, ListRemove, RollbackLabel, EnsureLabel
      <3>2. SameObjects \/ \E x, d : Created(x, d)
        BY <1>0, <3>1, HandleEffects, Zenon
      <3>3. pods' = pods /\ labels' = labels
        BY <3>2, Zenon DEF SameObjects, Created
      <3>4. /\ wk'[v].dpod = wk[v].pod /\ wk'[v].pod = wk[v].pod /\ wk'[v].req = wk[v].req
            /\ wk'[v].ret \in {"fail", "unwind"}
        BY <2>1, SMTT(60) DEF RollsBack, Deletes
      <3>5. wk[v].pod \in pods /\ wk[v].pod \in PodID
        BY <1>0, <2>1 DEF HasPod, TypeOK, LibpodTypeOK
      <3>6. labels[wk[v].pod] = uid /\ uid # NoUID
        BY <1>0, <2>1, <3>5, LibpodAssumption, SMTT(60) DEF Control, Handles, RollbackLabel
      <3>7. \A id \in pods : labels[id] = uid => id = wk[v].pod
        BY <1>0, <3>5, <3>6, SMTT(60) DEF NamesUnique
      <3>8. RollsBackOwn(v)'
        BY <3>3, <3>4, <3>5, <3>7, SMTT(60) DEF RollsBackOwn
      <3>9. PrevDeleted(v)' /\ DeletesFound(v)'
        BY <3>4, SMTT(60) DEF PrevDeleted, DeletesFound
      <3> QED
        BY <3>8, <3>9
    <2>2. ASSUME deletePod(v), wk[v].ret = "unwind", RollsBack(v, "fail")
          PROVE  PrevDeleted(v)' /\ RollsBackOwn(v)' /\ DeletesFound(v)'
      <3>1. wk[v].pc \in DeletePodLabel
        BY <2>2, Zenon DEF deletePod, DelFind, DelNetwork, DelGuard, DelRemove, DeletePodLabel
      <3>2. ~CreatePod(v) /\ ~CreatePause(v) /\ ~CreateContainer(v)
        BY <3>1 DEF CreatePod, CreatePause, CreateContainer, DeletePodLabel
      <3>3. SameObjects \/ \E x : Lost(x)
        BY <1>0, <3>2, HandleEffects, Zenon
      <3>4. /\ wk'[v].dpod = wk[v].pod /\ wk'[v].pod = wk[v].pod /\ wk'[v].req = wk[v].req
            /\ wk'[v].ret = "fail"
        BY <2>2 DEF RollsBack, Deletes
      <3>5. /\ wk[v].pod \in PodID
            /\ \A id \in pods : labels[id] = uid => id = wk[v].pod
        BY <1>0, <2>2, <3>1, Zenon DEF RollsBackOwn
      <3>6. uid \in PodUID
        BY <1>0, <2>2, <3>1 DEF Control
      <3>7. \A id \in pods' : labels'[id] = uid => id \in pods /\ labels[id] = uid
        <4> HIDE DEF uid
        <4> QED
          BY <1>0, <3>3, <3>6, NoNewPods, Zenon
      <3>8. RollsBackOwn(v)'
        BY <3>4, <3>5, <3>7, ZenonT(30) DEF RollsBackOwn
      <3>9. PrevDeleted(v)' /\ DeletesFound(v)'
        BY <3>4, SMTT(60) DEF PrevDeleted, DeletesFound
      <3> QED
        BY <3>8, <3>9
    <2>3. ASSUME LookupPrev(v), NEW id \in PodsNamed(PodName[uid]), Deletes(v, id, "prev")
          PROVE  PrevDeleted(v)' /\ RollsBackOwn(v)' /\ DeletesFound(v)'
      <3>1. pods' = pods /\ labels' = labels
        BY <2>3, Zenon DEF LookupPrev, libpodVars
      <3>2. \A x \in pods : labels[x] # uid
        BY <1>0, <2>3, Zenon DEF LookupPrev, PodAbsent
      <3>3. wk'[v].dpod = id /\ wk'[v].ret = "prev" /\ wk'[v].req = wk[v].req /\ id \in pods
        BY <2>a, <2>3, Zenon DEF PodsNamed
      <3> QED
        BY <3>1, <3>2, <3>3 DEF PrevDeleted, RollsBackOwn, DeletesFound
    <2>4. ASSUME DeleteFindPod(v), NEW id \in PodsWithUID(uid), Deletes(v, id, "delete")
          PROVE  PrevDeleted(v)' /\ RollsBackOwn(v)' /\ DeletesFound(v)'
      <3>1. pods' = pods
        BY <2>4, Zenon DEF DeleteFindPod, libpodVars
      <3>2. wk'[v].dpod = id /\ wk'[v].ret = "delete" /\ id \in pods
        BY <2>a, <2>4, SMTT(60) DEF PodsWithUID
      <3> QED
        BY <3>1, <3>2 DEF PrevDeleted, RollsBackOwn, DeletesFound
    <2>5. ASSUME NEW id, Deletes(v, id, "list")
          PROVE  PrevDeleted(v)' /\ RollsBackOwn(v)' /\ DeletesFound(v)'
      <3>1. wk'[v].ret = "list"
        BY <2>a, <2>5, SMTT(60)
      <3> QED
        BY <3>1, SMTT(60) DEF PrevDeleted, RollsBackOwn, DeletesFound
    <2> HIDE DEF uid
    <2> QED
      BY <1>0, <1>2, <2>1, <2>2, <2>3, <2>4, <2>5, DeleteCalls, ZenonT(60) DEF uid
  <1>3. CASE wk'[v].pc \notin DeletePodLabel
    BY <1>3, SMTT(60) DEF PrevDeleted, RollsBackOwn, DeletesFound
  <1> QED
    BY <1>1, <1>2, <1>3, Zenon DEF DeletePodLabel

\* deletePod goes on for a pod that is there, with that pod's pause container.
LEMMA RollReleaseStep ==
    ASSUME RollInv, NEW v \in Worker, Handle(v)
    PROVE  RemovesPresent(v)' /\ ReleasesPresent(v)' /\ GuardsAbbot(v)'
  <1>0. /\ TypeOK /\ WorkHasPause /\ Control(wk[v]) /\ Handles(wk[v], labels) /\ NamesUnique
        /\ PrevDeleted(v) /\ RollsBackOwn(v) /\ DeletesFound(v)
        /\ RemovesPresent(v) /\ ReleasesPresent(v) /\ GuardsAbbot(v) /\ Pause \in Ctr
    BY LibpodAssumption, SMTT(60) DEF RollInv, RollOK, AbbotInv, WholeInv, Inv,
           ControlOK, HandlesOK, Pause, Ctr
  <1>1. CASE wk'[v].pc \notin {"delNetwork", "delGuard", "delRemove"}
    BY <1>1, SMTT(60) DEF RemovesPresent, ReleasesPresent, GuardsAbbot
  <1>2. CASE wk'[v].pc \in {"delNetwork", "delGuard", "delRemove"}
    <2>1. /\ DelFind(v) \/ DelNetwork(v) \/ DelGuard(v)
          /\ wk'[v].req = wk[v].req /\ wk'[v].dpod = wk[v].dpod
          /\ SameObjects
      BY <1>0, <1>2, DeleteGoesOn, Zenon
    <2>2. /\ pods' = pods /\ labels' = labels
          /\ \A id \in PodID : (id \in pods' /\ ctrs'[id][Pause] # "none") <=> Exists(id, Pause)
      BY <1>0, <2>1, SMTT(60) DEF SameObjects, Exists
    <2>a. wk[v].pc \in DeletePodLabel /\ wk[v].dpod \in PodID
      BY <1>0, <2>1, ZenonT(30) DEF DelFind, DelNetwork, DelGuard, DeletePodLabel, Handles
    <2>3. CASE DelFind(v)
      <3>1. ~Returns(v, FALSE)
        BY <1>2 DEF Returns, Ends, RollsBack, Deletes
      <3>2. labels[wk[v].dpod] = NoUID => wk[v].req.op = "list" /\ wk'[v].pc = "delRemove"
        <4>1. labels[wk[v].dpod] = NoUID => Goes(v, "delRemove")
          BY <1>0, <2>3, <3>1, DeleteSteps, Zenon
        <4> QED
          BY <1>0, <2>a, <4>1, Zenon DEF Handles, SameName, Goes
      <3>3. ASSUME labels[wk[v].dpod] # NoUID
            PROVE  /\ wk[v].dpod \in pods /\ Exists(wk[v].dpod, Pause)
                   /\ wk'[v].pc = "delGuard" => labels[wk[v].dpod] \in AbbotPod
        <4>1. PICK id \in ContainersOf(labels[wk[v].dpod], Pause) :
                 \/ GoesWithCtr(v, "delNetwork", id)
                 \/ labels[wk[v].dpod] \in AbbotPod \cap HostNetwork /\ GoesWithCtr(v, "delGuard", id)
                 \/ GoesWithCtr(v, "delRemove", id)
          BY <1>0, <2>3, <3>1, <3>3, DeleteSteps, Zenon
        <4>2. id \in pods /\ labels[id] = labels[wk[v].dpod] /\ Exists(id, Pause)
          BY DEF ContainersOf, PodsWithUID
        <4>3. wk[v].ret \in {"prev", "unwind", "fail", "delete"}
          <5>1. wk[v].ret \in {"prev", "unwind", "fail", "delete", "list"}
            BY <1>0, Zenon DEF TypeOK, WorkerState
          <5>2. wk[v].req.op # "list"
            BY <1>0, <2>a, <3>3, ZenonT(30) DEF Handles
          <5> QED
            BY <1>0, <2>a, <5>1, <5>2 DEF Control
        <4>4. CASE wk[v].ret \in {"prev", "delete"}
          <5>1. wk[v].dpod \in pods
            BY <1>0, <2>a, <4>4, ZenonT(30) DEF PrevDeleted, DeletesFound
          <5>2. id = wk[v].dpod
            BY <1>0, <3>3, <4>2, <5>1, SMTT(60) DEF NamesUnique
          <5> QED
            BY <4>1, <4>2, <5>2 DEF GoesWithCtr
        <4>5. CASE wk[v].ret \in {"unwind", "fail"}
          <5>1. /\ wk[v].pod \in PodID /\ wk[v].dpod = wk[v].pod
                /\ \A x \in pods : labels[x] = wk[v].req.uid => x = wk[v].pod
            BY <1>0, <2>a, <4>5 DEF RollsBackOwn
          <5>2. labels[wk[v].pod] = wk[v].req.uid
            BY <1>0, <2>a, <4>5, <5>1, SMTT(60) DEF Control, Handles
          <5>3. id = wk[v].dpod
            BY <4>2, <5>1, <5>2
          <5> QED
            BY <4>1, <4>2, <5>3 DEF GoesWithCtr
        <4> QED
          BY <4>3, <4>4, <4>5, Zenon
      <3> QED
        BY <2>1, <2>2, <2>a, <3>2, <3>3, Zenon DEF RemovesPresent, ReleasesPresent, GuardsAbbot, Exists
    <2>4. CASE DelNetwork(v) \/ DelGuard(v)
      <3>1. wk[v].pc \in {"delNetwork", "delGuard"}
        BY <2>4, Zenon DEF DelNetwork, DelGuard
      <3>2. wk'[v].pc = "delRemove"
        <4>1. ~Returns(v, FALSE)
          BY <1>2 DEF Returns, Ends, RollsBack, Deletes
        <4> QED
          BY <1>0, <2>4, <4>1, DeleteSteps, Zenon DEF Goes
      <3> QED
        BY <1>0, <2>1, <2>2, <3>1, <3>2, ZenonT(30) DEF RemovesPresent, ReleasesPresent, GuardsAbbot
    <2> QED
      BY <2>1, <2>3, <2>4
  <1> QED
    BY <1>1, <1>2

\* The error paths of EnsurePod end without a container.
LEMMA NothingLeftStep ==
    ASSUME "lookup" \notin Faults, "remove" \notin Faults, "abbot" \notin Faults,
           RollInv, NEW v \in Worker, Handle(v)
    PROVE  NothingLeft(v)'
  <1>0. /\ TypeOK /\ WorkHasPause /\ Control(wk[v]) /\ Handles(wk[v], labels) /\ NamesUnique
        /\ NeverPaused /\ AbbotKept /\ ReleasesCluster(v)
        /\ PodAbsent(v) /\ PrevDeleted(v) /\ RollsBackOwn(v)
        /\ RemovesPresent(v) /\ ReleasesPresent(v) /\ GuardsAbbot(v) /\ NothingLeft(v)
        /\ ~Fault("lookup") /\ ~Fault("remove")
    BY SMTT(60) DEF RollInv, RollOK, AbbotInv, WholeInv, Inv, ControlOK, HandlesOK, Fault
  <1>r. wk'[v].pc # "idle" => wk'[v].req = wk[v].req
    <2>1. wk'[v] = Idle \/ wk'[v].req = wk[v].req
      BY <1>0, RequestKept, Zenon
    <2> QED
      BY <2>1 DEF Idle
  <1> DEFINE uid == wk[v].req.uid
             None == \A id \in pods', c \in Ctr :
                         labels'[id] = uid => ~(id \in pods' /\ ctrs'[id][c] # "none")
             InUse == uid \in AbbotPod /\ ClusterPauses' # {}
  <1> SUFFICES ASSUME wk'[v].pc \in {"cleanup", "reply"}, wk'[v].req.op = "ensure",
                      wk'[v].resp = "err"
               PROVE  None \/ InUse
    <2>1. wk'[v].pc \in {"cleanup", "reply"} => wk'[v].req = wk[v].req
      BY <1>r
    <2> QED
      BY <2>1 DEF NothingLeft, Exists
  <1>a. wk'[v].req = wk[v].req /\ wk[v].req.op = "ensure" /\ uid \in PodUID
    BY <1>0, <1>r DEF Control
  <1>b. ASSUME \A id \in pods : labels[id] # uid, SameObjects \/ \E x : Lost(x) PROVE None
    <2>1. uid \in PodUID
      BY <1>a
    <2>2. \A id \in pods' : labels'[id] = uid => id \in pods /\ labels[id] = uid
      <3> HIDE DEF uid
      <3> QED
        BY <1>0, <1>b, <2>1, NoNewPods, Zenon
    <2> QED
      BY <1>b, <2>2
  <1>1. CASE wk'[v].pc = "reply"
    <2>1. CheckContainers(v) \/ Cleanup(v) \/ ListPods(v)
      BY <1>0, <1>1, Arrivals, Zenon
    <2>2. ~CheckContainers(v)
      BY <1>0, <1>1, ContainerMoves, Zenon DEF Ends, RollsBack, Deletes
    <2>3. ~ListPods(v)
      BY <1>0, <1>a, ZenonT(30) DEF ListPods, ListFind, ListNext, ListRemove, Control, ListLabel
    <2>4. Cleanup(v)
      BY <2>1, <2>2, <2>3
    <2>5. wk[v].pc = "cleanup" /\ pods' = pods /\ labels' = labels /\ ctrs' = ctrs
      BY <2>4, Zenon DEF Cleanup, libpodVars
    <2>6. wk[v].resp = "err"
      <3>1. wk' = [w \in Worker |-> Idle] \/ wk'[v].resp = wk[v].resp
        BY <1>0, <2>4, ListSteps, Zenon
      <3>2. wk' # [w \in Worker |-> Idle]
        BY <1>1, SMTT(60) DEF Idle
      <3> QED
        BY <3>1, <3>2
    <2>7. ClusterPauses' = ClusterPauses
      BY <2>5, SMTT(60) DEF ClusterPauses, Exists
    <2> QED
      BY <1>0, <1>a, <2>5, <2>6, <2>7, Zenon DEF NothingLeft, Exists
  <1>2. CASE wk'[v].pc = "cleanup"
    <2>1. EnsureFindPod(v) \/ CheckAbbot(v) \/ CreatePod(v) \/ DeletePod(v) \/ deletePod(v)
      BY <1>0, <1>2, Arrivals, Zenon
    <2>2. ~DeletePod(v)
      BY <1>0, <1>a DEF DeletePod, DeleteFindPod, DeleteFindPause, DeleteListed, Control, DeleteLabel
    <2>3. ~EnsureFindPod(v)
      <3> SUFFICES ASSUME EnsureFindPod(v) PROVE FALSE
        BY Zenon
      <3>1. \E a, b \in PodsWithUID(uid) : a # b
        BY <1>0, <1>2, PauseMoves, Zenon DEF Goes, GoesWithPod
      <3> QED
        BY <1>0, <1>a, <3>1, LibpodAssumption, Zenon DEF PodsWithUID, NamesUnique
    <2>4. CASE CheckAbbot(v) \/ CreatePod(v)
      <3>1. \A id \in pods : labels[id] # uid
        BY <1>0, <2>4 DEF CheckAbbot, CreatePod, PodAbsent
      <3>2. UNCHANGED libpodVars
        <4>1. CASE CheckAbbot(v)
          BY <4>1, Zenon DEF CheckAbbot, libpodVars
        <4>2. CASE CreatePod(v)
          BY <1>0, <1>2, <4>2, PauseMoves, Zenon DEF GoesWithPod
        <4> QED
          BY <2>4, <4>1, <4>2
      <3>3. SameObjects
        BY <1>0, <3>2, QuietCalls, Zenon
      <3> QED
        BY <1>b, <3>1, <3>3, Zenon
    <2>5. CASE deletePod(v)
      <3>1. wk[v].pc \in DeletePodLabel /\ wk[v].dpod \in PodID
        BY <1>0, <2>5, Zenon DEF deletePod, DelFind, DelNetwork, DelGuard, DelRemove, DeletePodLabel, Handles
      <3>2. ~CreatePod(v) /\ ~CreatePause(v) /\ ~CreateContainer(v)
        BY <3>1 DEF CreatePod, CreatePause, CreateContainer, DeletePodLabel
      <3>3. SameObjects \/ \E x : Lost(x)
        BY <1>0, <3>2, HandleEffects, Zenon
      <3>4. Returns(v, TRUE) \/ Returns(v, FALSE)
        <4>1. /\ \A l : l # "cleanup" => ~Goes(v, l)
              /\ \A l, id : l # "cleanup" => ~GoesWithCtr(v, l, id)
          BY <1>2 DEF Goes, GoesWithCtr
        <4> QED
          BY <1>0, <2>5, <4>1, DeleteSteps, ZenonT(60) DEF deletePod
      <3>5. wk[v].ret \in {"prev", "fail"}
        <4>1. wk[v].ret \in {"prev", "unwind", "fail", "delete", "list"}
          BY <1>0, Zenon DEF TypeOK, WorkerState
        <4>2. wk[v].ret \notin {"delete", "list"}
          BY <1>0, <1>a, <3>1, SMTT(60) DEF Control
        <4>3. wk[v].ret # "unwind"
          BY <1>2, <3>4 DEF Returns, RollsBack, Deletes
        <4> QED
          BY <4>1, <4>2, <4>3
      <3>6. CASE wk[v].ret = "prev"
        <4>1. \A id \in pods : labels[id] # uid
          BY <1>0, <3>1, <3>6 DEF PrevDeleted
        <4> QED
          BY <1>b, <3>3, <4>1, ZenonT(30)
      <3>7. CASE wk[v].ret = "fail"
        <4>1. /\ wk[v].pod \in PodID /\ wk[v].dpod = wk[v].pod
              /\ \A id \in pods : labels[id] = uid => id = wk[v].dpod
          BY <1>0, <3>1, <3>7 DEF RollsBackOwn
        <4>2. labels[wk[v].dpod] = uid /\ uid # NoUID
          BY <1>0, <1>a, <4>1, LibpodAssumption, Zenon DEF Handles
        <4>a. /\ \A l : l # "cleanup" => ~Goes(v, l)
              /\ \A l, id : l # "cleanup" => ~GoesWithCtr(v, l, id)
          BY <1>2 DEF Goes, GoesWithCtr
        <4>3. CASE DelFind(v)
          <5>1. ContainersOf(labels[wk[v].dpod], Pause) = {}
            BY <1>0, <4>3, <4>a, DeleteSteps, Zenon
          <5>2. \A id \in pods : labels[id] = uid => ~Exists(id, Pause)
            BY <4>2, <5>1, Zenon DEF ContainersOf, PodsWithUID
          <5>3. pods \subseteq PodID
            BY <1>0, ZenonT(30) DEF TypeOK, LibpodTypeOK
          <5>4. \A id \in pods, c \in Ctr : labels[id] = uid => ~Exists(id, c)
            BY <1>0, <5>2, <5>3 DEF WorkHasPause
          <5>5. pods' = pods /\ labels' = labels /\ ctrs' = ctrs
            BY <4>3, Zenon DEF DelFind, libpodVars
          <5> QED
            BY <5>4, <5>5, Zenon DEF Exists
        <4>4. ~DelNetwork(v)
          <5> SUFFICES ASSUME DelNetwork(v) PROVE FALSE
            OBVIOUS
          <5>1. AbbotExecFails
            BY <1>0, <4>a, DeleteSteps, Zenon
          <5>2. wk[v].pc = "delNetwork"
            BY Zenon DEF DelNetwork
          <5>3. wk[v].dpod \in ClusterPauses
            BY <1>0, <4>2, <5>2, Zenon DEF ReleasesPresent, ReleasesCluster, ClusterPauses, Exists
          <5>4. AbbotContainers # {}
            BY <1>0, <5>3, Zenon DEF AbbotKept
          <5> QED
            BY <1>0, <5>1, <5>4, AbbotAnswers, Zenon
        <4>5. CASE DelGuard(v)
          <5>1. ClusterPauses # {}
            BY <1>0, <4>5, <4>a, DeleteSteps, Zenon
          <5>2. uid \in AbbotPod
            BY <1>0, <4>2, <4>5, Zenon DEF DelGuard, GuardsAbbot
          <5>3. pods' = pods /\ labels' = labels /\ ctrs' = ctrs
            BY <4>5, Zenon DEF DelGuard, libpodVars
          <5>4. ClusterPauses' = ClusterPauses
            BY <5>3 DEF ClusterPauses, Exists
          <5> QED
            BY <5>1, <5>2, <5>4
        <4>6. CASE DelRemove(v)
          <5>1. wk[v].dpod \in pods
            BY <1>0, <1>a, <4>6, Zenon DEF DelRemove, RemovesPresent
          <5>2. RemovePod(wk[v].dpod)
            BY <1>0, <4>6, <5>1, Zenon DEF DelRemove, RemoveFails
          <5>3. pods' = pods \ {wk[v].dpod} /\ labels' = labels
            BY <5>2, Zenon DEF RemovePod
          <5> QED
            BY <4>1, <5>3, Zenon
        <4> QED
          BY <2>5, <4>3, <4>4, <4>5, <4>6, ZenonT(30) DEF deletePod
      <3> QED
        BY <3>5, <3>6, <3>7, ZenonT(30)
    <2> QED
      BY <2>1, <2>2, <2>3, <2>4, <2>5
  <1> QED
    BY <1>1, <1>2, Zenon

LEMMA RollInvStep ==
    ASSUME OneWorker, Faults \cap {"lookup", "remove", "abbot", "pause"} = {},
           RollInv, [Next]_vars
    PROVE  RollInv'
  <1>0. /\ TypeOK /\ WorkHasPause /\ AbbotInv /\ NeverPaused
        /\ "lookup" \notin Faults /\ "remove" \notin Faults /\ "abbot" \notin Faults
        /\ "pause" \notin Faults
    BY SMTT(60) DEF RollInv, AbbotInv, WholeInv, Inv
  <1>1. ASSUME NEW v \in Worker PROVE RollOK(v)'
    <2>1. CASE Handle(v)
      BY <1>0, <2>1, RollPodStep, RollDeleteStep, RollReleaseStep, NothingLeftStep, Zenon DEF RollOK
    <2>2. CASE wk'[v] = wk[v] /\ (SameObjects \/ \E id \in FreshID : Added(id, NoUID))
      BY <2>2, RollWait, Zenon
    <2>3. CASE wk'[v].pc \in {"idle", "findPod", "deleteFindPod", "listFind"}
      BY <2>3, Zenon DEF RollOK, PodAbsent, PrevDeleted, HasPod, RollsBackOwn, DeletesFound, RemovesPresent,
             ReleasesPresent, GuardsAbbot, NothingLeft, RollbackLabel, DeletePodLabel, EnsureLabel
    <2> QED
      BY <1>0, <2>1, <2>2, <2>3, SoleForms DEF Idle
  <1>2. AbbotInv' /\ NeverPaused'
    BY <1>0, AbbotInvStep, PausedStep, Zenon
  <1> QED
    BY <1>1, <1>2, Zenon DEF RollInv

LEMMA RollInvInit == Init => RollInv
  <1> SUFFICES ASSUME Init PROVE RollInv
    OBVIOUS
  <1>1. \A w \in Worker : wk[w].pc = "idle"
    BY DEF Init, Idle
  <1>2. NeverPaused
    BY DEF Init, LibpodInit, NeverPaused, NoContainers
  <1>3. ASSUME NEW w \in Worker PROVE RollOK(w)
    BY <1>1, Zenon DEF RollOK, PodAbsent, PrevDeleted, HasPod, RollsBackOwn, DeletesFound, RemovesPresent,
           ReleasesPresent, GuardsAbbot, NothingLeft, RollbackLabel, DeletePodLabel, EnsureLabel
  <1> QED
    BY <1>2, <1>3, AbbotInvInit DEF RollInv

\* A failed EnsurePod leaves no container of the pod, whichever step failed:
\* every error path ends in a deletePod that finds the pod and removes it.  The
\* exception is abbot's own pod while other pods use it.
THEOREM FailedEnsures ==
    ASSUME OneWorker, Faults \cap {"lookup", "remove", "abbot", "pause"} = {}
    PROVE  Spec => []FailedEnsureLeavesNoContainer
  <1>1. RollInv /\ [Next]_vars => RollInv'
    BY RollInvStep
  <1>2. RollInv => FailedEnsureLeavesNoContainer
    <2> SUFFICES ASSUME RollInv, NEW w \in Worker,
                        wk[w].pc = "reply", wk[w].resp = "err", wk[w].req.op = "ensure",
                        wk[w].req.uid \in AbbotPod => ClusterPauses = {},
                        NEW id \in PodsWithUID(wk[w].req.uid)
                 PROVE  ctrs[id] = NoContainers
      BY SMTT(60) DEF FailedEnsureLeavesNoContainer
    <2>1. id \in pods /\ labels[id] = wk[w].req.uid /\ id \in PodID /\ ctrs[id] \in [Ctr -> CtrState]
      BY SMTT(60) DEF PodsWithUID, RollInv, AbbotInv, WholeInv, Inv, TypeOK, LibpodTypeOK
    <2>2. \A c \in Ctr : ctrs[id][c] = "none"
      BY <2>1 DEF RollInv, RollOK, NothingLeft, Exists
    <2> QED
      BY <2>1, <2>2, SMTT(60) DEF NoContainers
  <1> QED
    BY <1>1, <1>2, RollInvInit, PTL DEF Spec
-----------------------------------------------------------------------------
(***************************************************************************)
(* A pod on the cluster network has its network, when moreover the process *)
(* does not die.                                                           *)
(***************************************************************************)
\* createPauseContainer has still to configure the network of pod id, or
\* deletePod is about to remove the pod.
Pending(w, id) ==
    \/ wk[w].pc \in {"startPause", "checkPause", "netDo"} /\ wk[w].pod = id
    \/ wk[w].pc \in DeletePodLabel /\ wk[w].dpod = id

Networked(w) == \A id \in ClusterPauses : net[id] = "up" \/ Pending(w, id)

UpInv == RollInv /\ NetInv /\ \A w \in Worker : Networked(w)

\* The actions at the labels of Pending, and those that change a network.
LEMMA PendingActions ==
    ASSUME NEW w \in Worker, Handle(w)
    PROVE  /\ wk[w].pc = "startPause" => StartPause(w)
           /\ wk[w].pc = "checkPause" => CheckPause(w)
           /\ wk[w].pc = "netDo" => ConfigureNetwork(w)
           /\ wk[w].pc \in DeletePodLabel => deletePod(w)
           /\ UNCHANGED net \/ ConfigureNetwork(w) \/ DelNetwork(w)
  <1> DEFINE l == wk[w].pc
  <1>1. /\ EnsureFindPod(w) => l = "findPod" /\ UNCHANGED net
        /\ FindPause(w) => l = "findPause" /\ UNCHANGED net
        /\ LookupPrev(w) => l = "lookupPrev" /\ UNCHANGED net
        /\ CheckAbbot(w) => l = "checkAbbot" /\ UNCHANGED net
        /\ CreatePod(w) => l = "newPod" /\ UNCHANGED net
        /\ CreatePause(w) => l = "newPause" /\ UNCHANGED net
        /\ StartPause(w) => l = "startPause" /\ UNCHANGED net
        /\ CheckPause(w) => l = "checkPause" /\ UNCHANGED net
        /\ ConfigureNetwork(w) => l = "netDo"
    BY Zenon DEF EnsureFindPod, FindPause, LookupPrev, CheckAbbot, CreatePod, CreatePause, StartPause,
                 CheckPause, ConfigureNetwork
  <1>2. /\ InspectPause(w) => l = "inspect" /\ UNCHANGED net
        /\ RestartPause(w) => l = "restartPause" /\ UNCHANGED net
        /\ UnpausePause(w) => l = "unpausePause" /\ UNCHANGED net
        /\ PrepareContainer(w) => l = "prepare" /\ UNCHANGED net
        /\ CreateContainer(w) => l = "newCtr" /\ UNCHANGED net
        /\ StartContainer(w) => l = "startCtr" /\ UNCHANGED net
        /\ WaitContainer(w) => l = "waitCtr" /\ UNCHANGED net
        /\ CheckContainers(w) => l = "check" /\ UNCHANGED net
    BY Zenon DEF InspectPause, RestartPause, UnpausePause, PrepareContainer, CreateContainer,
                 StartContainer, WaitContainer, CheckContainers
  <1>3. /\ DeleteFindPod(w) => l = "deleteFindPod" /\ UNCHANGED net
        /\ DeleteFindPause(w) => l = "deleteFindPause" /\ UNCHANGED net
        /\ DeleteListed(w) => l = "deleteListed" /\ UNCHANGED net
        /\ ListFind(w) => l = "listFind" /\ UNCHANGED net
        /\ ListNext(w) => l = "listNext" /\ UNCHANGED net
        /\ ListRemove(w) => l = "listRemove" /\ UNCHANGED net
        /\ Cleanup(w) => l = "cleanup" /\ UNCHANGED net
        /\ Reply(w) => l = "reply" /\ UNCHANGED net
    BY Zenon DEF DeleteFindPod, DeleteFindPause, DeleteListed, ListFind, ListNext, ListRemove, Cleanup, Reply
  <1>4. /\ DelFind(w) => l = "delFind" /\ UNCHANGED net
        /\ DelNetwork(w) => l = "delNetwork"
        /\ DelGuard(w) => l = "delGuard" /\ UNCHANGED net
        /\ DelRemove(w) => l = "delRemove" /\ UNCHANGED net
    BY ZenonT(30) DEF DelFind, DelNetwork, DelGuard, DelRemove
  <1> HIDE DEF l
  <1>5. /\ l = "startPause" => StartPause(w)
        /\ l = "checkPause" => CheckPause(w)
        /\ l = "netDo" => ConfigureNetwork(w)
        /\ l \in DeletePodLabel => deletePod(w)
    BY <1>1, <1>2, <1>3, <1>4, SMTT(60)
       DEF Handle, EnsurePod, DeletePod, deletePod, ListPods, DeletePodLabel
  <1>6. UNCHANGED net \/ ConfigureNetwork(w) \/ DelNetwork(w)
    BY <1>1, <1>2, <1>3, <1>4, Zenon DEF Handle, EnsurePod, DeletePod, deletePod, ListPods
  <1> QED
    BY <1>5, <1>6, Zenon DEF l

\* A step of a handler: a new pause container is Pending until its network is
\* configured or deletePod has removed it.
LEMMA NetworkedMove ==
    ASSUME Faults \cap {"lookup", "remove", "abbot"} = {}, RollInv, NetInv,
           NEW v \in Worker, Networked(v), Handle(v)
    PROVE  Networked(v)'
  <1>0. /\ TypeOK /\ WorkHasPause /\ Control(wk[v]) /\ Handles(wk[v], labels)
        /\ NeverPaused /\ AbbotKept /\ HoldsOwnPause(v) /\ PauseThere(v)
        /\ RemovesPresent(v) /\ ReleasesPresent(v)
        /\ ~Fault("lookup") /\ ~Fault("remove") /\ ~Fault("abbot") /\ "abbot" \notin Faults
        /\ Pause \in Ctr /\ net \in [PodID -> {"none", "maybe", "up"}]
    BY LibpodAssumption DEF RollInv, RollOK, AbbotInv, WholeInv, WholeOK, Inv, ControlOK, HandlesOK,
       Fault, TypeOK, Pause, Ctr
  <1>a. NetStep(wk[v], pods, labels, net)
    BY SMTT(60) DEF NetInv, NetStepOK
  <1> SUFFICES ASSUME NEW id, id \in ClusterPauses', net'[id] # "up"
               PROVE  \/ wk'[v].pc \in {"startPause", "checkPause", "netDo"} /\ wk'[v].pod = id
                      \/ wk'[v].pc \in DeletePodLabel /\ wk'[v].dpod = id
    BY DEF Networked, Pending
  <1>1. CASE CreatePause(v) /\ Created(wk[v].pod, Pause) /\ wk'[v].pc = "startPause" /\ id = wk[v].pod
    BY <1>0, <1>1, PauseMoves, Zenon DEF GoesWithCtr, RollsBack, Deletes
  <1>2. CASE id \in ClusterPauses
    <2>0. /\ id \in pods /\ id \in PodID /\ Exists(id, Pause) /\ labels[id] # NoUID
          /\ labels[id] \notin HostNetwork
      BY <1>0, <1>2, Zenon DEF ClusterPauses, TypeOK, LibpodTypeOK
    <2>a. ~AbbotExecFails
      BY <1>0, <1>2, AbbotAnswers, SMTT(60) DEF AbbotKept
    <2>1. CASE net[id] = "up"
      <3>1. ConfigureNetwork(v) \/ DelNetwork(v)
        BY <2>1, PendingActions
      <3>2. ~ConfigureNetwork(v)
        <4> SUFFICES ASSUME ConfigureNetwork(v) PROVE FALSE
          OBVIOUS
        <4>1. net' = net \/ net' = [net EXCEPT ![wk[v].ctr] = "up"]
          BY <1>0, PauseMoves, Zenon DEF MaybeConfigured
        <4> QED
          BY <1>0, <2>0, <2>1, <4>1, Zenon
      <3>3. net' = [net EXCEPT ![wk[v].ctr] = "none"] /\ Goes(v, "delRemove")
        BY <1>0, <2>a, <3>1, <3>2, DeleteSteps, Zenon
      <3>4. id = wk[v].ctr
        BY <1>0, <2>0, <2>1, <3>3, Zenon
      <3>5. wk[v].pc = "delNetwork"
        BY <3>1, <3>2, Zenon DEF DelNetwork
      <3>6. wk[v].ctr = wk[v].dpod
        BY <1>0, <1>a, <3>5, Zenon DEF NetStep, ReleasesPresent, Exists
      <3> QED
        BY <3>3, <3>4, <3>6, SMTT(60) DEF Goes, DeletePodLabel
    <2>2. CASE wk[v].pc \in {"startPause", "checkPause", "netDo"} /\ wk[v].pod = id
      <3>1. wk[v].req.uid \notin HostNetwork
        BY <1>0, <2>0, <2>2 DEF Control, Handles, EnsureLabel
      <3>2. wk[v].ctr = id
        BY <1>0, <2>2, Zenon DEF HoldsOwnPause, PauseLabel
      <3>3. \/ Goes(v, "checkPause") \/ Goes(v, "netDo") \/ RollsBack(v, "unwind")
            \/ net' = [net EXCEPT ![wk[v].ctr] = "up"]
        <4>1. CASE StartPause(v)
          BY <1>0, <4>1, PauseMoves, Zenon
        <4>2. CASE CheckPause(v)
          BY <1>0, <3>1, <4>2, PauseMoves, Zenon
        <4>3. CASE ConfigureNetwork(v)
          BY <1>0, <4>3, PauseMoves, Zenon
        <4> QED
          BY <2>2, <4>1, <4>2, <4>3, PendingActions, Zenon
      <3>4. net' # [net EXCEPT ![wk[v].ctr] = "up"]
        BY <1>0, <2>0, <3>2
      <3> QED
        BY <2>2, <3>3, <3>4, Zenon DEF Goes, RollsBack, Deletes, DeletePodLabel
    <2>3. CASE wk[v].pc \in DeletePodLabel /\ wk[v].dpod = id
      <3>1. CASE DelFind(v)
        <4>1. id \in ContainersOf(labels[wk[v].dpod], Pause)
          BY <2>0, <2>3 DEF ContainersOf, PodsWithUID
        <4>2. PICK x : \/ GoesWithCtr(v, "delNetwork", x)
                       \/ GoesWithCtr(v, "delGuard", x)
                       \/ GoesWithCtr(v, "delRemove", x)
          BY <1>0, <2>0, <2>3, <3>1, <4>1, DeleteSteps, Zenon
        <4> QED
          BY <2>3, <4>2, ZenonT(30) DEF GoesWithCtr, DeletePodLabel
      <3>2. CASE DelNetwork(v)
        BY <1>0, <2>3, <2>a, <3>2, DeleteSteps, Zenon DEF Goes, DeletePodLabel
      <3>3. ~DelGuard(v)
        <4>1. DelGuard(v) => wk[v].pc = "delGuard"
          BY Zenon DEF DelGuard
        <4> QED
          BY <1>a, <2>0, <2>3, <4>1, Zenon DEF NetStep
      <3>4. ~DelRemove(v)
        <4> SUFFICES ASSUME DelRemove(v) PROVE FALSE
          OBVIOUS
        <4>1. RemovePod(wk[v].dpod)
          BY <1>0, <2>0, <2>3, Zenon DEF DelRemove, RemoveFails
        <4>2. id \notin pods'
          BY <2>3, <4>1 DEF RemovePod
        <4> QED
          BY <4>2 DEF ClusterPauses
      <3> QED
        BY <2>3, <3>1, <3>2, <3>3, <3>4, PendingActions, Zenon DEF deletePod
    <2> QED
      BY <1>2, <2>1, <2>2, <2>3, Zenon DEF Networked, Pending
  <1>3. \/ id \in ClusterPauses
        \/ CreatePause(v) /\ Created(wk[v].pod, Pause) /\ wk'[v].pc = "startPause" /\ id = wk[v].pod
    <2>1. CASE SameObjects
      BY <1>0, <2>1, SetsKept, Zenon
    <2>2. CASE \E x \in FreshID : Added(x, wk[v].req.uid)
      BY <1>0, <2>2, SetsKept, Zenon
    <2>3. CASE CreatePause(v) /\ Created(wk[v].pod, Pause) /\ wk'[v].pc = "startPause"
      BY <1>0, <2>3, SetsGrow, Zenon
    <2>4. CASE CreateContainer(v) /\ \E c \in Ctr : Created(wk[v].pod, c)
      <3>1. PICK c \in Ctr : Created(wk[v].pod, c)
        BY <2>4
      <3>2. wk[v].pc = "newCtr"
        BY <2>4, Zenon DEF CreateContainer
      <3>3. c # Pause
        BY <1>0, <3>1, <3>2, Zenon DEF Created, PauseThere, ContainerLabel
      <3> QED
        BY <1>0, <3>1, <3>3, SetsGrow, Zenon
    <2>5. CASE Lost(wk[v].dpod)
      BY <1>0, <2>5, SetsShrink, Zenon
    <2> QED
      BY <1>0, <2>1, <2>2, <2>3, <2>4, <2>5, HandleEffects, Zenon
  <1> QED
    BY <1>1, <1>2, <1>3, ZenonT(30)

LEMMA UpInvStep ==
    ASSUME OneWorker, Faults \cap {"lookup", "remove", "abbot", "pause", "crash"} = {},
           UpInv, [Next]_vars
    PROVE  UpInv'
  <1>0. /\ RollInv /\ NetInv /\ TypeOK /\ WorkHasPause
        /\ "lookup" \notin Faults /\ Faults \cap {"lookup", "remove", "abbot"} = {}
        /\ Faults \cap {"lookup", "remove", "abbot", "pause"} = {} /\ ~Fault("crash")
        /\ OneAtATime
    BY DEF UpInv, RollInv, AbbotInv, WholeInv, Inv, Fault, OneWorker, OneAtATime
  <1>1. RollInv'
    BY <1>0, RollInvStep, Zenon
  <1>2. NetInv'
    BY <1>0, InvStep, NoConflictStep, NetworkStep, NetStepStep, SMTT(60) DEF NetInv, Inv
  <1>3. ASSUME NEW v \in Worker PROVE Networked(v)'
    <2>0. Networked(v)
      BY DEF UpInv
    <2>1. CASE Handle(v)
      BY <1>0, <2>0, <2>1, NetworkedMove, Zenon
    <2>2. CASE wk'[v] = wk[v] /\ UNCHANGED net /\ (SameObjects \/ \E id \in FreshID : Added(id, NoUID))
      <3>1. ClusterPauses' = ClusterPauses
        BY <1>0, <2>2, SetsKept, Zenon
      <3> QED
        BY <2>0, <2>2, <3>1 DEF Networked, Pending
    <2>3. CASE SameObjects /\ UNCHANGED net /\ wk[v].pc \in {"idle", "cleanup"}
      <3>1. ClusterPauses' = ClusterPauses
        BY <1>0, <2>3, SetsKept, Zenon
      <3> QED
        BY <2>0, <2>3, <3>1 DEF Networked, Pending, DeletePodLabel
    <2>4. ~Crash
      BY <1>0, Zenon DEF Crash
    <2>5. Cleanup(v) => wk[v].pc = "cleanup"
      BY Zenon DEF Cleanup
    <2>6. Accept(v) => wk[v].pc = "idle" /\ UNCHANGED net
      BY Zenon DEF Accept
    <2> QED
      BY <1>0, <2>1, <2>2, <2>3, <2>4, <2>5, <2>6, SoleForms
  <1> QED
    BY <1>1, <1>2, <1>3, Zenon DEF UpInv

\* A pod on the cluster network that EnsurePod reports has its network, also
\* when the pod was there before: no earlier command has left a pause container
\* without one.
THEOREM EnsuredNetworks ==
    ASSUME OneWorker, Faults \cap {"lookup", "remove", "abbot", "pause", "crash"} = {}
    PROVE  Spec => []EnsuredPodIsNetworked
  <1>1. Init => UpInv
    <2> SUFFICES ASSUME Init PROVE UpInv
      OBVIOUS
    <2>1. pods = {}
      BY DEF Init, LibpodInit
    <2> QED
      BY <2>1, RollInvInit, NetInvInit DEF UpInv, Networked, ClusterPauses
  <1>2. UpInv /\ [Next]_vars => UpInv'
    BY UpInvStep, SMTT(60)
  <1>3. UpInv => EnsuredPodIsNetworked
    <2> SUFFICES ASSUME UpInv, NEW w \in Worker,
                        wk[w].pc = "reply", wk[w].resp = "ok", wk[w].req.op = "ensure",
                        wk[w].req.uid \notin HostNetwork,
                        NEW id \in PodsWithUID(wk[w].req.uid)
                 PROVE  net[id] = "up"
      BY DEF EnsuredPodIsNetworked
    <2>0. TypeOK /\ NamesUnique /\ Control(wk[w]) /\ Whole(w) /\ Networked(w)
      BY Zenon DEF UpInv, RollInv, AbbotInv, WholeInv, WholeOK, Inv, ControlOK
    <2>1. wk[w].req.uid \in PodUID
      BY <2>0 DEF Control
    <2>2. PICK x \in PodsWithUID(wk[w].req.uid) : Exists(x, Pause)
      BY <2>0, ZenonT(30) DEF Whole
    <2>3. x = id
      BY <2>0, <2>1, <2>2, LibpodAssumption, SMTT(60) DEF PodsWithUID, NamesUnique
    <2>4. id \in ClusterPauses
      BY <2>1, <2>2, <2>3, LibpodAssumption DEF PodsWithUID, ClusterPauses
    <2> QED
      BY <2>0, <2>4, SMTT(60) DEF Networked, Pending, DeletePodLabel
  <1> QED
    BY <1>1, <1>2, <1>3, PTL DEF Spec
-----------------------------------------------------------------------------
(***************************************************************************)
(* Pod data has an owner, when a cleanup succeeds and the process does not *)
(* die between a failure and its cleanup.                                  *)
(***************************************************************************)
\* A pod with its pause container, another UID of the name, or a command that
\* still has its end to come.
HasOwner(u) == \E id \in pods : labels[id] = u /\ Exists(id, Pause)
NameReused(u) == \E v \in PodUID \ {u} : PodName[v] = PodName[u]
Handled(w, u) ==
    wk[w].req.uid = u /\ wk[w].req.op # "list" /\ wk[w].pc \notin {"idle", "reply"}

DataInv ==
    /\ AbbotInv
    /\ \A u \in data : \E w \in Worker : HasOwner(u) \/ NameReused(u) \/ Handled(w, u)

\* Who changes the data on disk.
LEMMA DataActions ==
    ASSUME NEW w \in Worker, Handle(w)
    PROVE  UNCHANGED data \/ PrepareContainer(w) \/ Cleanup(w)
  <1>1. EnsurePod(w) => UNCHANGED data \/ PrepareContainer(w)
    BY Zenon DEF EnsurePod, EnsureFindPod, FindPause, LookupPrev, CheckAbbot, CreatePod, CreatePause,
                 StartPause, CheckPause, ConfigureNetwork, InspectPause, RestartPause, UnpausePause,
                 CreateContainer, StartContainer, WaitContainer, CheckContainers
  <1>2. DeletePod(w) \/ deletePod(w) \/ ListPods(w) \/ Reply(w) => UNCHANGED data
    BY Zenon DEF DeletePod, DeleteFindPod, DeleteFindPause, DeleteListed, deletePod, DelFind, DelNetwork,
                 DelGuard, DelRemove, ListPods, ListFind, ListNext, ListRemove, Reply
  <1> QED
    BY <1>1, <1>2, Zenon DEF Handle

\* A pod that owns data keeps its pause container until deletePod takes it
\* away, for a command about its UID or about another UID of its name.
LEMMA OwnerKept ==
    ASSUME AbbotInv, [Next]_vars, NEW u \in PodUID, HasOwner(u)
    PROVE  \/ HasOwner(u)' \/ NameReused(u)
           \/ \E w \in Worker : DelRemove(w) /\ wk[w].req.uid = u /\ wk[w].req.op # "list"
  <1>0. TypeOK /\ WorkHasPause /\ ControlOK /\ HandlesOK /\ Pause \in Ctr
    BY LibpodAssumption DEF AbbotInv, WholeInv, Inv, Pause, Ctr
  <1>1. PICK id \in pods : labels[id] = u /\ Exists(id, Pause)
    BY SMTT(60) DEF HasOwner
  <1>2. labels'[id] = u
    BY <1>0, <1>1, LabelStays, SMTT(60)
  <1>3. CASE id \in pods' /\ \A c \in Ctr : Exists(id, c) => Exists(id, c)'
    BY <1>0, <1>1, <1>2, <1>3, SMTT(60) DEF HasOwner
  <1>4. CASE ~(id \in pods' /\ \A c \in Ctr : Exists(id, c) => Exists(id, c)')
    <2>1. PICK w \in Worker : (DelRemove(w) \/ ListRemove(w)) /\ wk[w].dpod = id
      BY <1>0, <1>4, ObjectsRemoved, Zenon
    <2>2. ListRemove(w) => wk[w].pc = "listRemove"
      BY Zenon DEF ListRemove
    <2>3. DelRemove(w) /\ wk[w].pc = "delRemove"
      <3>1. DelRemove(w)
        BY <1>1, <2>1, <2>2 DEF AbbotInv, ListsPauseless
      <3> QED
        BY <3>1, ZenonT(30) DEF DelRemove
    <2>4. Control(wk[w]) /\ Handles(wk[w], labels)
      BY <1>0 DEF ControlOK, HandlesOK
    <2>5. wk[w].req.op # "list"
      BY <1>1, <2>1, <2>3, <2>4, LibpodAssumption, Zenon DEF Handles, DeletePodLabel
    <2>6. PodName[u] = PodName[wk[w].req.uid] /\ wk[w].req.uid \in PodUID
      BY <1>1, <2>1, <2>3, <2>4, <2>5 DEF Handles, SameName, Control, DeletePodLabel
    <2> QED
      BY <2>3, <2>5, <2>6 DEF NameReused
  <1> QED
    BY <1>3, <1>4, Zenon

\* The command that handles data u ends with the data gone or with its pod
\* there.
LEMMA HandledStep ==
    ASSUME OneWorker, Faults \cap {"data", "crash"} = {}, AbbotInv, [Next]_vars,
           NEW v \in Worker, NEW u \in data, u \in data', Handled(v, u)
    PROVE  Handled(v, u)' \/ HasOwner(u)'
  <1>0. /\ TypeOK /\ WorkHasPause /\ Control(wk[v]) /\ Handles(wk[v], labels) /\ PauseThere(v)
        /\ ~Fault("data") /\ ~Fault("crash")
    BY SMTT(60) DEF AbbotInv, WholeInv, WholeOK, Inv, ControlOK, HandlesOK, Fault
  <1>1. ~Crash
    BY <1>0, Zenon DEF Crash
  <1>2. ~Cleanup(v)
    <2>1. Cleanup(v) => data' = data \ {wk[v].req.uid}
      BY <1>0, Zenon DEF Cleanup
    <2> QED
      BY <2>1 DEF Handled
  <1>3. ~Accept(v)
    BY Zenon DEF Accept, Handled
  <1>4. CASE wk'[v] = wk[v]
    BY <1>4 DEF Handled
  <1>5. CASE Handle(v)
    <2>1. ~Reply(v) /\ ~ListPods(v)
      BY <1>0, Zenon DEF Handled, Reply, ListPods, ListFind, ListNext, ListRemove, Control, ListLabel
    <2>2. CASE wk'[v].pc = "reply"
      <3>1. CheckContainers(v)
        BY <1>0, <1>2, <1>5, <2>1, <2>2, Arrivals, Zenon
      <3>2. wk[v].pc = "check" /\ UNCHANGED libpodVars
        BY <3>1, Zenon DEF CheckContainers
      <3>3. Exists(wk[v].pod, Pause)
        BY <1>0, <3>2, Zenon DEF PauseThere, ContainerLabel
      <3>4. wk[v].pod \in pods /\ wk[v].pod \in PodID
        BY <1>0, <3>3 DEF Exists, TypeOK, LibpodTypeOK
      <3>5. labels[wk[v].pod] = u
        BY <1>0, <3>2, <3>4 DEF Handles, Handled, Control, EnsureLabel
      <3>6. pods' = pods /\ labels' = labels /\ ctrs' = ctrs
        BY <3>2, SMTT(60) DEF libpodVars
      <3> QED
        BY <3>3, <3>4, <3>5, <3>6 DEF HasOwner, Exists
    <2>3. CASE wk'[v].pc # "reply"
      <3>1. wk'[v].pc # "idle"
        BY <1>0, <1>2, <1>5, <2>1, Arrivals, Zenon
      <3>2. wk'[v] = Idle \/ wk'[v].req = wk[v].req
        BY <1>0, <1>5, RequestKept, Zenon
      <3>3. Idle.pc = "idle"
        BY DEF Idle
      <3>4. wk'[v] # Idle
        BY <3>1, <3>3, Zenon
      <3> QED
        BY <2>3, <3>1, <3>2, <3>4 DEF Handled
    <2> QED
      BY <2>2, <2>3
  <1> QED
    BY <1>0, <1>1, <1>2, <1>3, <1>4, <1>5, SoleForms, Zenon

LEMMA DataInvStep ==
    ASSUME OneWorker, Faults \cap {"lookup", "data", "crash"} = {}, DataInv, [Next]_vars
    PROVE  DataInv'
  <1>0. /\ AbbotInv /\ TypeOK /\ WorkHasPause /\ data \subseteq PodUID
        /\ "lookup" \notin Faults /\ Faults \cap {"data", "crash"} = {}
    BY DEF DataInv, AbbotInv, WholeInv, Inv, TypeOK
  <1>1. AbbotInv'
    BY <1>0, AbbotInvStep, Zenon
  <1>2. ASSUME NEW u \in data'
        PROVE  \E w \in Worker : HasOwner(u)' \/ NameReused(u) \/ Handled(w, u)'
    <2>1. CASE u \in data
      <3>1. PICK v \in Worker : HasOwner(u) \/ NameReused(u) \/ Handled(v, u)
        BY <2>1 DEF DataInv
      <3>2. CASE Handled(v, u)
        BY <1>0, <2>1, <3>2, HandledStep, Zenon
      <3>3. CASE HasOwner(u)
        <4>1. ASSUME NEW w \in Worker, DelRemove(w), wk[w].req.uid = u, wk[w].req.op # "list"
              PROVE  HasOwner(u)' \/ Handled(w, u)'
          <5>1. Handled(w, u)
            BY <4>1, Zenon DEF Handled, DelRemove
          <5> QED
            BY <1>0, <2>1, <5>1, HandledStep, Zenon
        <4> QED
          BY <1>0, <2>1, <3>3, <4>1, OwnerKept
      <3> QED
        BY <3>1, <3>2, <3>3
    <2>2. CASE u \notin data
      <3>1. PICK v \in Worker : Handle(v) /\ OthersKept(v)
        BY <1>0, <2>2, StepForms, ZenonT(30) DEF Accept, Cleanup, Crash
      <3>2. PrepareContainer(v)
        BY <2>2, <3>1, DataActions, SMTT(60) DEF Cleanup
      <3>3. wk[v].pc = "prepare" /\ Control(wk[v])
        BY <1>0, <3>2 DEF PrepareContainer, AbbotInv, WholeInv, Inv, ControlOK
      <3>4. wk[v].req.uid = u /\ (Goes(v, "newCtr") \/ RollsBack(v, "fail"))
        BY <1>0, <2>2, <3>2, ContainerMoves, Zenon
      <3>5. Handled(v, u)'
        BY <3>3, <3>4 DEF Handled, Goes, RollsBack, Deletes, Control, EnsureLabel
      <3> QED
        BY <3>5
    <2> QED
      BY <2>1, <2>2
  <1> QED
    BY <1>1, <1>2 DEF DataInv, NameReused

\* Pod data on disk belongs to a pod or to the command being handled, or a pod
\* of another UID has taken the name over.
THEOREM DataOwned ==
    ASSUME OneWorker, Faults \cap {"lookup", "data", "crash"} = {}
    PROVE  Spec => []DataHasOwner
  <1>1. Init => DataInv
    <2>1. Init => data = {}
      BY DEF Init
    <2> QED
      BY <2>1, AbbotInvInit DEF DataInv
  <1>2. DataInv /\ [Next]_vars => DataInv'
    BY DataInvStep, SMTT(60)
  <1>3. DataInv => DataHasOwner
    BY DEF DataInv, DataHasOwner, HasOwner, NameReused, Handled, PodsWithUID
  <1> QED
    BY <1>1, <1>2, <1>3, PTL DEF Spec
=============================================================================
