-------------------------- MODULE PodRuntimeProofs --------------------------
(***************************************************************************)
(* Proofs about PodRuntime, for any set of pods, workers, requests and     *)
(* faults: type correctness, one pod per UID, and what a command may       *)
(* remove.                                                                 *)
(***************************************************************************)
EXTENDS PodRuntime, TLAPS

-----------------------------------------------------------------------------
(***************************************************************************)
(* The inductive invariants.                                               *)
(***************************************************************************)
\* libpod reserves the name of a pod.
NamesUnique ==
    \A a, b \in pods :
        /\ labels[a] # NoUID /\ labels[b] # NoUID
        /\ PodName[labels[a]] = PodName[labels[b]]
        => a = b

\* Which command a worker at a label serves.
Control(s) ==
    /\ s.req.op # "list" => s.req.uid \in PodUID
    /\ s.pc \in EnsureLabel => s.req.op = "ensure"
    /\ s.pc \in DeleteLabel => s.req.op = "delete"
    /\ s.pc \in ListLabel => s.req.op = "list"
    /\ s.pc \in DeletePodLabel =>
          s.req.op = CASE s.ret \in {"prev", "unwind", "fail"} -> "ensure"
                       [] s.ret = "delete" -> "delete"
                       [] s.ret = "list" -> "list"

ControlOK == \A w \in Worker : Control(wk[w])

\* Labels at which the handler of EnsurePod or DeletePod has no pod yet.
PodlessLabel == {"findPod", "lookupPrev", "checkAbbot", "newPod", "deleteFindPod"}
PodLabel == (EnsureLabel \cup DeleteLabel) \ PodlessLabel

\* The pod has the name that the request is about.
SameName(id, req, lab) == lab[id] # NoUID /\ PodName[lab[id]] = PodName[req.uid]

\* What the pod handles of a worker are; lab is libpod's labels.
Handles(s, lab) ==
    /\ s.pc \in DeletePodLabel =>
          /\ s.dpod \in PodID
          /\ IF s.req.op = "list" THEN lab[s.dpod] = NoUID ELSE SameName(s.dpod, s.req, lab)
          /\ s.ret = "unwind" => s.pod \in PodID
    /\ s.pc \in PodLabel => s.pod \in PodID
    /\ s.pod \in PodID /\ s.req.op # "list" => lab[s.pod] = s.req.uid
    /\ s.pc = "listRemove" => s.dpod \in PodID

HandlesOK == \A w \in Worker : Handles(wk[w], labels)

-----------------------------------------------------------------------------
(***************************************************************************)
(* Type correctness.                                                       *)
(***************************************************************************)
\* Every call of the engine keeps its database well typed.
LEMMA LibpodCallTypes ==
    ASSUME LibpodTypeOK, NEW id, NEW c \in Ctr, NEW uid \in PodUID \cup {NoUID}, NEW dep
    PROVE  /\ id \in PodID /\ NewPod(id, uid) => LibpodTypeOK'
           /\ NewContainer(id, c, dep) => LibpodTypeOK'
           /\ Start(id, c) => LibpodTypeOK'
           /\ StartAll(id, c) => LibpodTypeOK'
           /\ Unpause(id, c) => LibpodTypeOK'
           /\ RemovePod(id) => LibpodTypeOK'
           /\ RemovePodContainers(id) => LibpodTypeOK'
           /\ ContainerExits(id, c) => LibpodTypeOK'
           /\ ContainerPaused(id, c) => LibpodTypeOK'
           /\ id \in PodID /\ ForeignPodCreated(id) => LibpodTypeOK'
  <1>1. NoContainers \in [Ctr -> CtrState]
    BY DEF NoContainers, CtrState
  <1>2. Pause \in Ctr
    BY LibpodAssumption DEF Pause, Ctr
  <1>3. id \in PodID /\ NewPod(id, uid) => LibpodTypeOK'
    BY <1>1 DEF LibpodTypeOK, NewPod
  <1>4. NewContainer(id, c, dep) => LibpodTypeOK'
    BY DEF LibpodTypeOK, NewContainer, CanCreate, CtrState
  <1>5. Start(id, c) => LibpodTypeOK'
    BY DEF LibpodTypeOK, Start, CanStart, Startable, CtrState
  <1>6. StartAll(id, c) => LibpodTypeOK'
    BY <1>2 DEF LibpodTypeOK, StartAll, CanStartAll, Startable, CtrState
  <1>7. Unpause(id, c) => LibpodTypeOK'
    BY DEF LibpodTypeOK, Unpause, CtrState
  <1>8. RemovePod(id) => LibpodTypeOK'
    BY <1>1 DEF LibpodTypeOK, RemovePod
  <1>9. RemovePodContainers(id) => LibpodTypeOK'
    BY <1>1 DEF LibpodTypeOK, RemovePodContainers
  <1>10. ContainerExits(id, c) => LibpodTypeOK'
    BY DEF LibpodTypeOK, ContainerExits, CtrState
  <1>11. ContainerPaused(id, c) => LibpodTypeOK'
    BY DEF LibpodTypeOK, ContainerPaused, CtrState
  <1>12. id \in PodID /\ ForeignPodCreated(id) => LibpodTypeOK'
    BY <1>1 DEF LibpodTypeOK, ForeignPodCreated
  <1> QED
    BY <1>3, <1>4, <1>5, <1>6, <1>7, <1>8, <1>9, <1>10, <1>11, <1>12

\* So does a command executed in the abbot container, and a failing RemovePod.
LEMMA AbbotTypes ==
    ASSUME LibpodTypeOK, NEW id
    PROVE  /\ AbbotExecOK => LibpodTypeOK'
           /\ AbbotExecFails => LibpodTypeOK'
           /\ RemoveFails(id) => LibpodTypeOK'
  <1>1. Abbot \in Ctr
    BY LibpodAssumption DEF Abbot, Ctr
  <1>2. UNCHANGED libpodVars => LibpodTypeOK'
    BY DEF LibpodTypeOK, libpodVars
  <1>3. ASSUME NEW x, StartAll(x, Abbot) PROVE LibpodTypeOK'
    BY <1>1, <1>3, LibpodCallTypes
  <1>4. RemovePod(id) => LibpodTypeOK'
    BY <1>1, LibpodCallTypes
  <1>5. RemovePodContainers(id) => LibpodTypeOK'
    BY <1>1, LibpodCallTypes
  <1> QED
    BY <1>2, <1>3, <1>4, <1>5 DEF AbbotExecOK, AbbotExecFails, RemoveFails

\* The records a worker moves to are worker states.
LEMMA WorkerTypes ==
    ASSUME wk \in [Worker -> WorkerState], NEW w \in Worker
    PROVE  /\ Idle \in WorkerState
           /\ \A l \in Label : Goto(w, l) \in WorkerState
           /\ \A l \in Label, a \in {"ok", "err", "panic"} : Finish(w, l, a) \in WorkerState
           /\ Failed(w) \in WorkerState
           /\ \A id \in PodID \cup {NoPod}, ret \in {"prev", "unwind", "fail", "delete", "list"} :
                 CallDeletePod(w, id, ret) \in WorkerState
           /\ \A ret \in {"unwind", "fail"} : Rollback(w, ret) \in WorkerState
           /\ \A ok \in BOOLEAN : Returned(w, ok) \in WorkerState
           /\ BeginContainers(w) \in WorkerState
           /\ \A c : \A a \in Label, b \in Label, rest \in SUBSET Ctr :
                 NextContainer(w, c, a, b, rest) \in WorkerState
  <1> DEFINE L == {"idle", "cleanup", "reply", "delFind", "checkAbbot", "listNext",
                   "check", "prepare"}
  <1>1. L \subseteq Label
    BY DEF Label, EnsureLabel, DeletePodLabel, ListLabel
  <1>2. Idle \in WorkerState
    BY <1>1, LibpodAssumption DEF Idle, WorkerState, NoRequest, Request
  <1>3. wk[w] \in WorkerState
    OBVIOUS
  <1>4. wk[w].req.ctrs \in SUBSET Ctr
    BY <1>3 DEF WorkerState, Request
  <1> HIDE DEF L
  <1>5. \A l \in Label : Goto(w, l) \in WorkerState
    BY <1>3 DEF Goto, WorkerState
  <1>6. \A l \in Label, a \in {"ok", "err", "panic"} : Finish(w, l, a) \in WorkerState
    BY <1>2, <1>3, Zenon DEF Finish, WorkerState
  <1>7. "cleanup" \in Label /\ "delFind" \in Label
    BY <1>1 DEF L
  <1>8. Failed(w) \in WorkerState
    BY <1>6, <1>7 DEF Failed
  <1>9. \A id \in PodID \cup {NoPod}, ret \in {"prev", "unwind", "fail", "delete", "list"} :
           CallDeletePod(w, id, ret) \in WorkerState
    BY <1>3, <1>7, Zenon DEF CallDeletePod, WorkerState
  <1>10. wk[w].pod \in PodID \cup {NoPod}
    BY <1>3 DEF WorkerState
  <1>11. \A ret \in {"unwind", "fail"} : Rollback(w, ret) \in WorkerState
    <2> SUFFICES ASSUME NEW ret \in {"unwind", "fail"} PROVE Rollback(w, ret) \in WorkerState
      OBVIOUS
    <2>1. CallDeletePod(w, wk[w].pod, ret) \in WorkerState
      BY <1>9, <1>10
    <2> QED
      BY <2>1, Zenon DEF Rollback, WorkerState
  <1>12. \A ok \in BOOLEAN : Returned(w, ok) \in WorkerState
    <2> SUFFICES ASSUME NEW ok \in BOOLEAN PROVE Returned(w, ok) \in WorkerState
      OBVIOUS
    <2> DEFINE back(label) == [wk[w] EXCEPT !.pc = label, !.dpod = NoPod, !.ctr = NoPod,
                                            !.ret = "fail"]
    <2>1. back("checkAbbot") \in WorkerState
      BY <1>1, <1>3, Zenon DEF WorkerState, L
    <2>2. back("listNext") \in WorkerState
      BY <1>1, <1>3, Zenon DEF WorkerState, L
    <2>3. Rollback(w, "fail") \in WorkerState
      BY <1>11
    <2>4. Finish(w, "cleanup", IF ok THEN "ok" ELSE "err") \in WorkerState
      BY <1>6, <1>7
    <2>5. wk[w].ret \in {"prev", "unwind", "fail", "delete", "list"}
      BY <1>3 DEF WorkerState
    <2> HIDE DEF back
    <2>6. Returned(w, ok) \in {back("checkAbbot"), back("listNext"), Failed(w),
              Rollback(w, "fail"), Finish(w, "cleanup", IF ok THEN "ok" ELSE "err")}
      BY <2>5 DEF Returned, back
    <2> QED
      BY <2>1, <2>2, <2>3, <2>4, <2>6, <1>8
  <1>13. BeginContainers(w) \in WorkerState
    BY <1>1, <1>3, <1>4, Zenon DEF BeginContainers, WorkerState, L
  <1>14. \A c : \A a \in Label, b \in Label, rest \in SUBSET Ctr :
            NextContainer(w, c, a, b, rest) \in WorkerState
    BY <1>3, ZenonT(60) DEF NextContainer, WorkerState
  <1> QED
    BY <1>2, <1>5, <1>6, <1>8, <1>9, <1>11, <1>12, <1>13, <1>14

\* A local variable of a worker is assigned a pod handle or a list of them.
LEMMA FieldTypes ==
    ASSUME NEW r \in WorkerState, NEW id \in PodID \cup {NoPod}, NEW l \in SUBSET PodID
    PROVE  /\ [r EXCEPT !.pod = id] \in WorkerState
           /\ [r EXCEPT !.ctr = id] \in WorkerState
           /\ [r EXCEPT !.dpod = id] \in WorkerState
           /\ [r EXCEPT !.lst = l] \in WorkerState
           /\ [r EXCEPT !.dpod = id, !.lst = l] \in WorkerState
  BY Zenon DEF WorkerState

\* One worker moves on, the others keep their state.
LEMMA StepTypes ==
    ASSUME wk \in [Worker -> WorkerState], NEW w \in Worker, NEW r \in WorkerState, Step(w, r)
    PROVE  wk' \in [Worker -> WorkerState]
  BY DEF Step

\* The labels of the code are labels of the model.
LEMMA LabelTypes ==
    /\ EnsureLabel \subseteq Label
    /\ DeleteLabel \subseteq Label
    /\ DeletePodLabel \subseteq Label
    /\ ListLabel \subseteq Label
    /\ {"idle", "cleanup", "reply"} \subseteq Label
  BY DEF Label

\* A step that changes nothing but the state of a worker.
LEMMA LocalStepTypes ==
    ASSUME TypeOK, UNCHANGED <<libpodVars, net, data>>,
           NEW w \in Worker, NEW r \in WorkerState, Step(w, r)
    PROVE  TypeOK'
  BY StepTypes DEF TypeOK, LibpodTypeOK, libpodVars

\* What a worker finds in libpod are pod IDs.
LEMMA LookupTypes ==
    ASSUME TypeOK
    PROVE  /\ \A uid : PodsWithUID(uid) \subseteq PodID
           /\ \A name : PodsNamed(name) \subseteq PodID
           /\ \A uid, c : ContainersOf(uid, c) \subseteq PodID
           /\ FreshID \subseteq PodID
  BY DEF TypeOK, LibpodTypeOK, PodsWithUID, PodsNamed, ContainersOf, FreshID

\* The steps of EnsurePod up to the network of the pause container keep the types.
LEMMA EnsurePauseTypes ==
    ASSUME TypeOK, NEW w \in Worker
    PROVE  /\ EnsureFindPod(w) => TypeOK'
           /\ FindPause(w) => TypeOK'
           /\ LookupPrev(w) => TypeOK'
           /\ CheckAbbot(w) => TypeOK'
           /\ CreatePod(w) => TypeOK'
           /\ CreatePause(w) => TypeOK'
           /\ StartPause(w) => TypeOK'
           /\ CheckPause(w) => TypeOK'
           /\ ConfigureNetwork(w) => TypeOK'
  <1> DEFINE S == wk[w]
  <1>0. wk \in [Worker -> WorkerState] /\ LibpodTypeOK
    BY DEF TypeOK
  <1>a. /\ S.pod \in PodID \cup {NoPod} /\ S.ctr \in PodID \cup {NoPod}
        /\ S.req.uid \in PodUID \cup {NoUID}
    BY <1>0 DEF WorkerState, Request
  <1>b. /\ Failed(w) \in WorkerState
        /\ Rollback(w, "fail") \in WorkerState
        /\ Rollback(w, "unwind") \in WorkerState
        /\ \A l \in EnsureLabel : Goto(w, l) \in WorkerState
        /\ \A id \in PodID : CallDeletePod(w, id, "prev") \in WorkerState
    BY <1>0, WorkerTypes, LabelTypes
  <1>c. {"lookupPrev", "findPause", "inspect", "checkAbbot", "newPod", "newPause", "startPause",
         "checkPause", "netDo"} \subseteq EnsureLabel
    BY SMTT(60) DEF EnsureLabel
  <1>d. \A l \in EnsureLabel, id \in PodID \cup {NoPod} :
           /\ [Goto(w, l) EXCEPT !.pod = id] \in WorkerState
           /\ [Goto(w, l) EXCEPT !.ctr = id] \in WorkerState
    BY <1>b, FieldTypes, Zenon
  <1>e. Pause \in Ctr
    BY LibpodAssumption DEF Pause, Ctr
  <1>1. EnsureFindPod(w) => TypeOK'
    BY <1>b, <1>c, <1>d, LookupTypes, LocalStepTypes, Zenon DEF EnsureFindPod
  <1>2. FindPause(w) => TypeOK'
    BY <1>b, <1>c, <1>d, LookupTypes, LocalStepTypes, Zenon DEF FindPause
  <1>3. LookupPrev(w) => TypeOK'
    BY <1>b, <1>c, LookupTypes, LocalStepTypes DEF LookupPrev
  <1>4. CheckAbbot(w) => TypeOK'
    BY <1>b, <1>c, LocalStepTypes DEF CheckAbbot
  <1>5. CreatePod(w) => TypeOK'
    <2> SUFFICES ASSUME CreatePod(w) PROVE TypeOK'
      OBVIOUS
    <2>1. CASE \E id \in FreshID :
                  /\ NewPod(id, S.req.uid)
                  /\ Step(w, [Goto(w, "newPause") EXCEPT !.pod = id])
      <3>1. PICK id \in FreshID : /\ NewPod(id, S.req.uid)
                                  /\ Step(w, [Goto(w, "newPause") EXCEPT !.pod = id])
        BY <2>1
      <3>2. id \in PodID
        BY LookupTypes
      <3>3. LibpodTypeOK'
        BY <1>0, <1>a, <1>e, <3>1, <3>2, LibpodCallTypes, Zenon
      <3>4. wk' \in [Worker -> WorkerState]
        BY <1>0, <1>c, <1>d, <3>1, <3>2, StepTypes, Zenon
      <3> QED
        BY <3>3, <3>4 DEF CreatePod, TypeOK
    <2>2. CASE Step(w, Failed(w)) /\ UNCHANGED libpodVars
      BY <1>b, <2>2, LocalStepTypes DEF CreatePod
    <2> QED
      BY <2>1, <2>2 DEF CreatePod
  <1>6. CreatePause(w) => TypeOK'
    <2> SUFFICES ASSUME CreatePause(w) PROVE TypeOK'
      OBVIOUS
    <2>1. CASE NewContainer(S.pod, Pause, S.pod)
               /\ Step(w, [Goto(w, "startPause") EXCEPT !.ctr = S.pod])
      <3>1. LibpodTypeOK'
        BY <1>0, <1>a, <1>e, <2>1, LibpodCallTypes, Zenon
      <3>2. wk' \in [Worker -> WorkerState]
        BY <1>0, <1>a, <1>c, <1>d, <2>1, StepTypes, Zenon
      <3> QED
        BY <3>1, <3>2 DEF CreatePause, TypeOK
    <2>2. CASE Step(w, Rollback(w, "fail")) /\ UNCHANGED libpodVars
      BY <1>b, <2>2, LocalStepTypes DEF CreatePause
    <2> QED
      BY <2>1, <2>2 DEF CreatePause
  <1>7. StartPause(w) => TypeOK'
    <2> SUFFICES ASSUME StartPause(w) PROVE TypeOK'
      OBVIOUS
    <2>1. CASE StartAll(S.ctr, Pause) /\ Step(w, Goto(w, "checkPause"))
      <3>1. LibpodTypeOK'
        BY <1>0, <1>a, <1>e, <2>1, LibpodCallTypes
      <3>2. wk' \in [Worker -> WorkerState]
        BY <1>0, <1>b, <1>c, <2>1, StepTypes
      <3> QED
        BY <3>1, <3>2 DEF StartPause, TypeOK
    <2>2. CASE Step(w, Rollback(w, "unwind")) /\ UNCHANGED libpodVars
      BY <1>b, <2>2, LocalStepTypes DEF StartPause
    <2> QED
      BY <2>1, <2>2 DEF StartPause
  <1>8. CheckPause(w) => TypeOK'
    BY <1>b, <1>c, LocalStepTypes DEF CheckPause
  <1>9. ConfigureNetwork(w) => TypeOK'
    <2> SUFFICES ASSUME ConfigureNetwork(w) PROVE TypeOK'
      OBVIOUS
    <2>1. LibpodTypeOK'
      BY <1>0, AbbotTypes DEF ConfigureNetwork
    <2>2. wk' \in [Worker -> WorkerState]
      BY <1>0, <1>b, <1>c, StepTypes DEF ConfigureNetwork
    <2>3. net' \in [PodID -> {"none", "maybe", "up"}]
      BY DEF ConfigureNetwork, MaybeConfigured, TypeOK
    <2> QED
      BY <2>1, <2>2, <2>3 DEF ConfigureNetwork, TypeOK
  <1> QED
    BY <1>1, <1>2, <1>3, <1>4, <1>5, <1>6, <1>7, <1>8, <1>9

\* The steps of EnsurePod from the state of the pause container on keep the types.
LEMMA EnsureContainerTypes ==
    ASSUME TypeOK, ControlOK, NEW w \in Worker
    PROVE  /\ InspectPause(w) => TypeOK'
           /\ RestartPause(w) => TypeOK'
           /\ UnpausePause(w) => TypeOK'
           /\ PrepareContainer(w) => TypeOK'
           /\ CreateContainer(w) => TypeOK'
           /\ StartContainer(w) => TypeOK'
           /\ WaitContainer(w) => TypeOK'
           /\ CheckContainers(w) => TypeOK'
  <1> DEFINE S == wk[w]
  <1>0. wk \in [Worker -> WorkerState] /\ LibpodTypeOK
    BY DEF TypeOK
  <1>a. S.req.ctrs \in SUBSET Ctr
    BY <1>0 DEF WorkerState, Request
  <1>b. /\ Rollback(w, "fail") \in WorkerState
        /\ BeginContainers(w) \in WorkerState
        /\ Finish(w, "reply", "ok") \in WorkerState
        /\ \A l \in EnsureLabel : Goto(w, l) \in WorkerState
        /\ \A c : \A a \in EnsureLabel, b \in EnsureLabel, rest \in SUBSET Ctr :
              NextContainer(w, c, a, b, rest) \in WorkerState
    BY <1>0, WorkerTypes, LabelTypes
  <1>c. {"restartPause", "unpausePause", "prepare", "newCtr", "startCtr", "waitCtr", "check"}
            \subseteq EnsureLabel
    BY DEF EnsureLabel
  <1>d. /\ \A c : NextContainer(w, c, "prepare", "startCtr", S.req.ctrs) \in WorkerState
        /\ \A c : NextContainer(w, c, "startCtr", "check", {}) \in WorkerState
    BY <1>a, <1>b, <1>c
  <1>e. Pause \in Ctr
    BY LibpodAssumption DEF Pause, Ctr
  <1>f. \A r \in WorkerState : Step(w, r) => wk' \in [Worker -> WorkerState]
    BY <1>0, StepTypes
  <1>g. \A id, dep : \A c \in Ctr :
           NewContainer(id, c, dep) \/ Start(id, c) \/ Unpause(id, c) => LibpodTypeOK'
    BY <1>0, LibpodCallTypes, Zenon
  <1>h. UNCHANGED libpodVars => LibpodTypeOK'
    BY <1>0 DEF LibpodTypeOK, libpodVars
  <1>1. InspectPause(w) => TypeOK'
    BY <1>b, <1>c, LocalStepTypes DEF InspectPause
  <1>2. RestartPause(w) => TypeOK'
    BY <1>b, <1>e, <1>f, <1>g, <1>h, Zenon DEF RestartPause, TypeOK
  <1>3. UnpausePause(w) => TypeOK'
    BY <1>b, <1>e, <1>f, <1>g, <1>h, SMTT(60) DEF UnpausePause, TypeOK
  <1>4. PrepareContainer(w) => TypeOK'
    <2> SUFFICES ASSUME PrepareContainer(w) PROVE TypeOK'
      OBVIOUS
    <2>1. wk' \in [Worker -> WorkerState]
      BY <1>b, <1>c, <1>f DEF PrepareContainer
    <2>2. data' \in SUBSET PodUID
      BY SMTT(60) DEF PrepareContainer, TypeOK, ControlOK, Control, EnsureLabel
    <2> QED
      BY <1>h, <2>1, <2>2 DEF PrepareContainer, TypeOK
  <1>5. CreateContainer(w) => TypeOK'
    BY <1>b, <1>d, <1>f, <1>g, <1>h, SMTT(60) DEF CreateContainer, TypeOK
  <1>6. StartContainer(w) => TypeOK'
    BY <1>b, <1>c, <1>d, <1>f, <1>g, <1>h, SMTT(60) DEF StartContainer, TypeOK
  <1>7. WaitContainer(w) => TypeOK'
    BY <1>b, <1>d, LocalStepTypes, SMTT(60) DEF WaitContainer
  <1>8. CheckContainers(w) => TypeOK'
    BY <1>b, LocalStepTypes DEF CheckContainers
  <1> QED
    BY <1>1, <1>2, <1>3, <1>4, <1>5, <1>6, <1>7, <1>8

\* The steps of DeletePod and deletePod keep the types.
LEMMA DeleteTypes ==
    ASSUME TypeOK, NEW w \in Worker
    PROVE  /\ DeletePod(w) => TypeOK'
           /\ deletePod(w) => TypeOK'
  <1> DEFINE S == wk[w]
  <1>0. wk \in [Worker -> WorkerState] /\ LibpodTypeOK
    BY DEF TypeOK
  <1>a. /\ Failed(w) \in WorkerState
        /\ Returned(w, TRUE) \in WorkerState
        /\ Returned(w, FALSE) \in WorkerState
        /\ \A a \in {"ok", "err", "panic"} : Finish(w, "cleanup", a) \in WorkerState
        /\ \A l \in DeleteLabel \cup DeletePodLabel : Goto(w, l) \in WorkerState
        /\ \A id \in PodID : CallDeletePod(w, id, "delete") \in WorkerState
    BY <1>0, WorkerTypes, LabelTypes, Zenon
  <1>b. {"deleteFindPause", "deleteListed"} \subseteq DeleteLabel
    BY DEF DeleteLabel
  <1>c. {"delNetwork", "delGuard", "delRemove"} \subseteq DeletePodLabel
    BY DEF DeletePodLabel
  <1>d. \A r \in WorkerState, id \in PodID :
           /\ [r EXCEPT !.pod = id] \in WorkerState
           /\ [r EXCEPT !.ctr = id] \in WorkerState
    BY FieldTypes, Zenon
  <1>e. \A r \in WorkerState : Step(w, r) => wk' \in [Worker -> WorkerState]
    BY <1>0, StepTypes
  <1>1. DeleteFindPod(w) => TypeOK'
    <2> SUFFICES ASSUME DeleteFindPod(w) PROVE TypeOK'
      OBVIOUS
    <2>1. CASE \E id \in PodsWithUID(S.req.uid) :
                  Step(w, [IF S.req.ctrs = {} THEN CallDeletePod(w, id, "delete")
                           ELSE Goto(w, "deleteFindPause") EXCEPT !.pod = id])
      <3>1. PICK id \in PodsWithUID(S.req.uid) :
                    Step(w, [IF S.req.ctrs = {} THEN CallDeletePod(w, id, "delete")
                             ELSE Goto(w, "deleteFindPause") EXCEPT !.pod = id])
        BY <2>1
      <3>2. id \in PodID
        BY LookupTypes
      <3>3. (IF S.req.ctrs = {} THEN CallDeletePod(w, id, "delete")
             ELSE Goto(w, "deleteFindPause")) \in WorkerState
        BY <1>a, <1>b, <3>2
      <3> QED
        BY <1>d, <3>1, <3>2, <3>3, LocalStepTypes, ZenonT(60) DEF DeleteFindPod
    <2>2. CASE Step(w, Failed(w))
      BY <1>a, <2>2, LocalStepTypes DEF DeleteFindPod
    <2> QED
      BY <2>1, <2>2 DEF DeleteFindPod
  <1>2. DeleteFindPause(w) => TypeOK'
    BY <1>a, <1>b, LocalStepTypes DEF DeleteFindPause
  <1>3. DeleteListed(w) => TypeOK'
    BY <1>a, LocalStepTypes DEF DeleteListed
  <1>4. DelFind(w) => TypeOK'
    <2> SUFFICES ASSUME DelFind(w) PROVE TypeOK'
      OBVIOUS
    <2> DEFINE next == IF labels[S.dpod] \notin HostNetwork THEN "delNetwork"
                       ELSE IF labels[S.dpod] \in AbbotPod THEN "delGuard" ELSE "delRemove"
    <2>1. Goto(w, next) \in WorkerState
      BY <1>a, <1>c
    <2>2. \A id \in ContainersOf(labels[S.dpod], Pause) :
             [Goto(w, next) EXCEPT !.ctr = id] \in WorkerState
      BY <1>d, <2>1, LookupTypes, Zenon
    <2> QED
      BY <1>a, <1>c, <2>2, LocalStepTypes, Zenon DEF DelFind
  <1>5. DelNetwork(w) => TypeOK'
    <2> SUFFICES ASSUME DelNetwork(w) PROVE TypeOK'
      OBVIOUS
    <2>1. LibpodTypeOK'
      BY <1>0, AbbotTypes, Zenon DEF DelNetwork
    <2>2. wk' \in [Worker -> WorkerState]
      BY <1>a, <1>c, <1>e, Zenon DEF DelNetwork
    <2>3. net' \in [PodID -> {"none", "maybe", "up"}]
      BY Zenon DEF DelNetwork, MaybeReleased, TypeOK
    <2> QED
      BY <2>1, <2>2, <2>3 DEF DelNetwork, TypeOK
  <1>6. DelGuard(w) => TypeOK'
    BY <1>a, <1>c, LocalStepTypes, Zenon DEF DelGuard
  <1>7. DelRemove(w) => TypeOK'
    <2> SUFFICES ASSUME DelRemove(w) PROVE TypeOK'
      OBVIOUS
    <2>1. 0 \in Ctr
      BY LibpodAssumption DEF Ctr
    <2>2. LibpodTypeOK'
      BY <1>0, <2>1, LibpodCallTypes, AbbotTypes, Zenon DEF DelRemove
    <2>3. wk' \in [Worker -> WorkerState]
      BY <1>a, <1>e, Zenon DEF DelRemove
    <2> QED
      BY <2>2, <2>3 DEF DelRemove, TypeOK
  <1> QED
    BY <1>1, <1>2, <1>3, <1>4, <1>5, <1>6, <1>7 DEF DeletePod, deletePod

\* The steps of ListPods keep the types.
LEMMA ListTypes ==
    ASSUME TypeOK, NEW w \in Worker
    PROVE  ListPods(w) => TypeOK'
  <1> DEFINE S == wk[w]
  <1>0. wk \in [Worker -> WorkerState] /\ LibpodTypeOK
    BY DEF TypeOK
  <1>a. /\ \A a \in {"ok", "err", "panic"} : Finish(w, "reply", a) \in WorkerState
        /\ Goto(w, "listNext") \in WorkerState
        /\ Goto(w, "listRemove") \in WorkerState
        /\ \A id \in PodID : CallDeletePod(w, id, "list") \in WorkerState
    BY <1>0, WorkerTypes, LabelTypes DEF ListLabel
  <1>b. \A r \in WorkerState, id \in PodID \cup {NoPod}, l \in SUBSET PodID :
           /\ [r EXCEPT !.lst = l] \in WorkerState
           /\ [r EXCEPT !.dpod = id] \in WorkerState
           /\ [r EXCEPT !.dpod = id, !.lst = l] \in WorkerState
    BY FieldTypes, Zenon
  <1>c. \A r \in WorkerState : Step(w, r) => wk' \in [Worker -> WorkerState]
    BY <1>0, StepTypes
  <1>d. S \in WorkerState /\ S.lst \in SUBSET PodID
    BY <1>0 DEF WorkerState
  <1>e. UNCHANGED libpodVars => LibpodTypeOK'
    BY <1>0, SMTT(60) DEF LibpodTypeOK, libpodVars
  <1>1. ListFind(w) => TypeOK'
    <2>1. pods \in SUBSET PodID
      BY <1>0 DEF LibpodTypeOK
    <2>2. (IF S.req.uid = NoUID THEN pods ELSE PodsNamed(PodName[S.req.uid])) \in SUBSET PodID
      BY <2>1, LookupTypes, SMTT(60)
    <2> QED
      BY <1>a, <1>b, <2>2, LocalStepTypes, Zenon DEF ListFind
  <1>2. ListNext(w) => TypeOK'
    <2> SUFFICES ASSUME ListNext(w) PROVE TypeOK'
      OBVIOUS
    <2>1. LibpodTypeOK'
      BY <1>0, <1>e, AbbotTypes, ZenonT(60) DEF ListNext, Queried
    <2>2. \A id \in S.lst :
             /\ [CallDeletePod(w, id, "list") EXCEPT !.lst = S.lst \ {id}] \in WorkerState
             /\ [Goto(w, "listRemove") EXCEPT !.dpod = id, !.lst = S.lst \ {id}] \in WorkerState
             /\ [S EXCEPT !.lst = S.lst \ {id}] \in WorkerState
      <3> SUFFICES ASSUME NEW id \in S.lst
                   PROVE  /\ [CallDeletePod(w, id, "list") EXCEPT !.lst = S.lst \ {id}] \in WorkerState
                          /\ [Goto(w, "listRemove") EXCEPT !.dpod = id, !.lst = S.lst \ {id}]
                                \in WorkerState
                          /\ [S EXCEPT !.lst = S.lst \ {id}] \in WorkerState
        BY Zenon
      <3>1. id \in PodID /\ S.lst \ {id} \in SUBSET PodID
        BY <1>d, SMTT(60)
      <3> QED
        BY <1>a, <1>b, <1>d, <3>1, ZenonT(60)
    <2>3. wk' \in [Worker -> WorkerState]
      BY <1>a, <1>c, <2>2, Zenon DEF ListNext
    <2> QED
      BY <2>1, <2>3, ZenonT(60) DEF ListNext, TypeOK
  <1>3. ListRemove(w) => TypeOK'
    <2> SUFFICES ASSUME ListRemove(w) PROVE TypeOK'
      OBVIOUS
    <2>1. 0 \in Ctr
      BY LibpodAssumption DEF Ctr
    <2>2. LibpodTypeOK'
      BY <1>0, <2>1, LibpodCallTypes, AbbotTypes, Zenon DEF ListRemove
    <2>3. [Goto(w, "listNext") EXCEPT !.dpod = NoPod] \in WorkerState
      BY <1>a, <1>b, Zenon
    <2>4. wk' \in [Worker -> WorkerState]
      BY <1>a, <1>c, <2>3 DEF ListRemove
    <2> QED
      BY <2>2, <2>4 DEF ListRemove, TypeOK
  <1> QED
    BY <1>1, <1>2, <1>3 DEF ListPods

\* Every step keeps the types.
LEMMA TypeStep ==
    ASSUME TypeOK, ControlOK, [Next]_vars
    PROVE  TypeOK'
  <1>0. wk \in [Worker -> WorkerState] /\ LibpodTypeOK
    BY DEF TypeOK
  <1>1. ASSUME NEW w \in Worker, Accept(w) PROVE TypeOK'
    <2>1. PICK r \in Requests : Step(w, [Idle EXCEPT !.req = r, !.pc = Entry(r.op)])
      BY <1>1, Zenon DEF Accept
    <2>2. r \in Request
      BY RuntimeAssumption
    <2>3. Entry(r.op) \in Label
      BY <2>2 DEF Request, Entry, Label, EnsureLabel, DeleteLabel, ListLabel
    <2>4. Idle \in WorkerState
      BY <1>0, WorkerTypes
    <2>5. [Idle EXCEPT !.req = r, !.pc = Entry(r.op)] \in WorkerState
      BY <2>2, <2>3, <2>4, Zenon DEF WorkerState
    <2> QED
      BY <1>1, <2>1, <2>5, LocalStepTypes, SMTT(60) DEF Accept
  <1>2. ASSUME NEW w \in Worker, EnsurePod(w) PROVE TypeOK'
    BY <1>2, EnsurePauseTypes, EnsureContainerTypes DEF EnsurePod
  <1>3. ASSUME NEW w \in Worker, DeletePod(w) \/ deletePod(w) \/ ListPods(w) PROVE TypeOK'
    BY <1>3, DeleteTypes, ListTypes
  <1>4. ASSUME NEW w \in Worker, Cleanup(w) PROVE TypeOK'
    <2>1. Idle \in WorkerState /\ Goto(w, "reply") \in WorkerState
      BY <1>0, WorkerTypes, LabelTypes
    <2>2. wk' \in [Worker -> WorkerState]
      BY <1>0, <1>4, <2>1 DEF Cleanup
    <2> QED
      BY <1>4, <2>2 DEF Cleanup, TypeOK, LibpodTypeOK, libpodVars
  <1>5. ASSUME NEW w \in Worker, Reply(w) PROVE TypeOK'
    BY <1>0, <1>5, WorkerTypes, LocalStepTypes DEF Reply
  <1>6. ASSUME Crash PROVE TypeOK'
    <2>1. \A w \in Worker : Idle \in WorkerState
      BY <1>0, WorkerTypes
    <2>2. wk' \in [Worker -> WorkerState]
      BY <1>6, <2>1 DEF Crash
    <2> QED
      BY <1>6, <2>2 DEF Crash, TypeOK, LibpodTypeOK, libpodVars
  <1>7. ASSUME Engine PROVE TypeOK'
    <2>1. 0 \in Ctr
      BY LibpodAssumption, SMTT(60) DEF Ctr
    <2>2. ASSUME NEW id \in PodID, NEW c \in Ctr,
                 \/ ContainerExits(id, c) \/ ContainerRestarts(id, c)
                 \/ ContainerPaused(id, c) \/ Unpause(id, c)
          PROVE  LibpodTypeOK'
      BY <1>0, <2>2, LibpodCallTypes, Zenon DEF ContainerRestarts
    <2>3. ASSUME NEW id \in FreshID, ForeignPodCreated(id)
          PROVE  LibpodTypeOK'
      BY <1>0, <2>1, <2>3, LibpodCallTypes, LookupTypes, Zenon
    <2>4. LibpodTypeOK'
      BY <1>7, <2>2, <2>3 DEF Engine
    <2> QED
      BY <1>7, <2>4 DEF Engine, TypeOK
  <1>8. CASE UNCHANGED vars
    BY <1>8 DEF vars, TypeOK, LibpodTypeOK
  <1> QED
    BY <1>1, <1>2, <1>3, <1>4, <1>5, <1>6, <1>7, <1>8 DEF Next, Handle

-----------------------------------------------------------------------------
(***************************************************************************)
(* The control state and the pod handles of the workers.                   *)
(***************************************************************************)
Good(r) == Control(r) /\ Handles(r, labels)

\* The records EnsurePod moves to are good ones.
LEMMA EnsureRecords ==
    ASSUME TypeOK, NEW w \in Worker, Good(wk[w]), wk[w].req.op = "ensure"
    PROVE  /\ \A l \in PodlessLabel \ {"deleteFindPod"} : Good(Goto(w, l))
           /\ wk[w].pod \in PodID => \A l \in EnsureLabel : Good(Goto(w, l))
           /\ \A l \in {"cleanup", "reply"} : \A a : Good(Finish(w, l, a))
           /\ wk[w].pod \in PodID => \A ret \in {"unwind", "fail"} : Good(Rollback(w, ret))
           /\ \A id \in PodID :
                 SameName(id, wk[w].req, labels) => Good(CallDeletePod(w, id, "prev"))
           /\ \A l \in EnsureLabel, id \in PodID :
                 labels[id] = wk[w].req.uid => Good([Goto(w, l) EXCEPT !.pod = id])
           /\ wk[w].pod \in PodID =>
                 /\ \A l \in EnsureLabel : \A id : Good([Goto(w, l) EXCEPT !.ctr = id])
                 /\ Good(BeginContainers(w))
                 /\ \A c, rest : \A a \in EnsureLabel, b \in EnsureLabel :
                       Good(NextContainer(w, c, a, b, rest))
  <1> DEFINE S == wk[w]
  <1>0. S \in WorkerState /\ Idle \in WorkerState
    BY WorkerTypes DEF TypeOK
  <1>a. /\ S.req.uid \in PodUID
        /\ S.pod \in PodID => labels[S.pod] = S.req.uid
    BY DEF Good, Control, Handles
  <1>b. S.req.uid # NoUID
    BY <1>a, LibpodAssumption
  \* What a record that EnsurePod moves to has to satisfy.
  <1>c. ASSUME NEW r, r.req = S.req,
               \/ /\ r.pc \in EnsureLabel \cup {"cleanup", "reply"}
                  /\ r.pc \in PodLabel => r.pod \in PodID
               \/ /\ r.pc = "delFind" /\ r.ret \in {"prev", "unwind", "fail"}
                  /\ r.dpod \in PodID /\ SameName(r.dpod, S.req, labels)
                  /\ r.ret = "unwind" => r.pod \in PodID,
               r.pod \in PodID => labels[r.pod] = S.req.uid
        PROVE  Good(r)
    BY <1>a, <1>c DEF Good, Control, Handles, EnsureLabel, DeleteLabel, DeletePodLabel, ListLabel,
          PodLabel, PodlessLabel
  <1>1. \A l \in PodlessLabel \ {"deleteFindPod"} : Good(Goto(w, l))
    <2> SUFFICES ASSUME NEW l \in PodlessLabel \ {"deleteFindPod"} PROVE Good(Goto(w, l))
      OBVIOUS
    <2>1. Goto(w, l).pc = l /\ Goto(w, l).req = S.req /\ Goto(w, l).pod = S.pod
      BY <1>0 DEF Goto, WorkerState
    <2>2. l \in EnsureLabel /\ l \notin PodLabel
      BY SMTT(60) DEF PodlessLabel, PodLabel, EnsureLabel
    <2> QED
      BY <1>a, <1>c, <2>1, <2>2
  <1>2. ASSUME S.pod \in PodID, NEW l \in EnsureLabel PROVE Good(Goto(w, l))
    <2>1. Goto(w, l).pc = l /\ Goto(w, l).req = S.req /\ Goto(w, l).pod = S.pod
      BY <1>0, SMTT(60) DEF Goto, WorkerState
    <2> QED
      BY <1>a, <1>c, <1>2, <2>1
  <1>3. ASSUME NEW l \in {"cleanup", "reply"}, NEW a PROVE Good(Finish(w, l, a))
    <2>1. Finish(w, l, a).pc = l /\ Finish(w, l, a).req = S.req /\ Finish(w, l, a).pod = NoPod
      BY <1>0 DEF Finish, WorkerState, Idle
    <2>2. l \notin PodLabel
      BY SMTT(60) DEF PodLabel, EnsureLabel, DeleteLabel
    <2> QED
      BY <1>c, <2>1, <2>2, RuntimeAssumption
  <1>4. ASSUME S.pod \in PodID, NEW ret \in {"unwind", "fail"} PROVE Good(Rollback(w, ret))
    <2>1. /\ Rollback(w, ret).pc = "delFind" /\ Rollback(w, ret).req = S.req
          /\ Rollback(w, ret).pod = S.pod /\ Rollback(w, ret).dpod = S.pod
          /\ Rollback(w, ret).ret = ret
      BY <1>0, SMTT(60) DEF Rollback, CallDeletePod, WorkerState
    <2>2. SameName(S.pod, S.req, labels)
      BY <1>a, <1>b, <1>4, SMTT(60) DEF SameName
    <2> QED
      BY <1>a, <1>c, <1>4, <2>1, <2>2
  <1>5. ASSUME NEW id \in PodID, SameName(id, S.req, labels)
        PROVE  Good(CallDeletePod(w, id, "prev"))
    <2> DEFINE r == CallDeletePod(w, id, "prev")
    <2>1. /\ r.pc = "delFind" /\ r.req = S.req /\ r.pod = S.pod /\ r.dpod = id
          /\ r.ret = "prev"
      BY <1>0 DEF CallDeletePod, WorkerState
    <2> HIDE DEF r
    <2> QED
      BY <1>a, <1>c, <1>5, <2>1 DEF r
  <1>6. ASSUME NEW l \in EnsureLabel, NEW id \in PodID, labels[id] = S.req.uid
        PROVE  Good([Goto(w, l) EXCEPT !.pod = id])
    <2> DEFINE r == [Goto(w, l) EXCEPT !.pod = id]
    <2>1. r.pc = l /\ r.req = S.req /\ r.pod = id
      BY <1>0 DEF Goto, WorkerState
    <2> HIDE DEF r
    <2>2. Good(r)
      BY <1>c, <1>6, <2>1
    <2> QED
      BY <2>2 DEF r
  <1>7. ASSUME S.pod \in PodID, NEW l \in EnsureLabel, NEW id
        PROVE  Good([Goto(w, l) EXCEPT !.ctr = id])
    <2> DEFINE r == [Goto(w, l) EXCEPT !.ctr = id]
    <2>1. r.pc = l /\ r.req = S.req /\ r.pod = S.pod
      BY <1>0, SMTT(60) DEF Goto, WorkerState
    <2> HIDE DEF r
    <2>2. Good(r)
      BY <1>a, <1>c, <1>7, <2>1, SMTT(60)
    <2> QED
      BY <2>2 DEF r
  <1>8. ASSUME S.pod \in PodID PROVE Good(BeginContainers(w))
    <2>1. /\ BeginContainers(w).pc \in EnsureLabel
          /\ BeginContainers(w).req = S.req /\ BeginContainers(w).pod = S.pod
      BY <1>0 DEF BeginContainers, WorkerState, EnsureLabel
    <2> QED
      BY <1>a, <1>c, <1>8, <2>1
  <1>9. ASSUME S.pod \in PodID, NEW c, NEW rest, NEW a \in EnsureLabel, NEW b \in EnsureLabel
        PROVE  Good(NextContainer(w, c, a, b, rest))
    <2> DEFINE r == NextContainer(w, c, a, b, rest)
    <2>1. r.pc \in EnsureLabel /\ r.req = S.req /\ r.pod = S.pod
      BY <1>0, SMTT(60) DEF NextContainer, WorkerState
    <2> HIDE DEF r
    <2>2. Good(r)
      BY <1>a, <1>c, <1>9, <2>1, SMTT(60)
    <2> QED
      BY <2>2 DEF r
  <1> QED
    BY <1>1, <1>2, <1>3, <1>4, <1>5, <1>6, <1>7, <1>8, <1>9, Zenon

\* The worker moves to a good record and libpod's labels stay.
GoodStep(w) ==
    /\ labels' = labels
    /\ \E r : Step(w, r) /\ Good(r)

\* Which calls leave the labels alone.
LEMMA LabelsKept ==
    /\ UNCHANGED libpodVars => labels' = labels
    /\ \A id, c, dep : \/ NewContainer(id, c, dep) \/ Start(id, c) \/ StartAll(id, c)
                       \/ Unpause(id, c) \/ RemovePod(id) \/ RemoveFails(id)
                       => labels' = labels
    /\ AbbotExecOK \/ AbbotExecFails => labels' = labels
  BY ZenonT(60) DEF libpodVars, NewContainer, Start, StartAll, Unpause, RemovePod, RemovePodContainers,
         RemoveFails, AbbotExecOK, AbbotExecFails

\* Every step of EnsurePod except NewPod is such a step.
LEMMA EnsureGood ==
    ASSUME TypeOK, NEW w \in Worker, Good(wk[w]), EnsurePod(w)
    PROVE  GoodStep(w) \/ CreatePod(w)
  <1> DEFINE S == wk[w]
  <1>a. S.pc \in EnsureLabel
    BY Zenon DEF EnsurePod, EnsureLabel, EnsureFindPod, FindPause, LookupPrev, CheckAbbot, CreatePod,
           CreatePause, StartPause, CheckPause, ConfigureNetwork, InspectPause, RestartPause,
           UnpausePause, PrepareContainer, CreateContainer, StartContainer, WaitContainer,
           CheckContainers
  <1>b. S.req.op = "ensure" /\ S.req.uid \in PodUID
    BY <1>a DEF Good, Control
  <1>c. S.req.uid # NoUID
    BY <1>b, LibpodAssumption, SMTT(60)
  <1>d. S.pc \notin PodlessLabel => S.pod \in PodID
    BY <1>a DEF Good, Handles, PodLabel
  <1>e. /\ \A l \in PodlessLabel \ {"deleteFindPod"} : Good(Goto(w, l))
        /\ \A l \in {"cleanup", "reply"} : \A a : Good(Finish(w, l, a))
        /\ \A id \in PodID : SameName(id, S.req, labels) => Good(CallDeletePod(w, id, "prev"))
        /\ \A l \in EnsureLabel, id \in PodID :
              labels[id] = S.req.uid => Good([Goto(w, l) EXCEPT !.pod = id])
    BY <1>b, EnsureRecords
  <1>f. S.pc \notin PodlessLabel =>
           /\ \A l \in EnsureLabel : Good(Goto(w, l))
           /\ \A ret \in {"unwind", "fail"} : Good(Rollback(w, ret))
           /\ \A l \in EnsureLabel : \A id : Good([Goto(w, l) EXCEPT !.ctr = id])
           /\ Good(BeginContainers(w))
           /\ \A c, rest : \A a \in EnsureLabel, b \in EnsureLabel :
                 Good(NextContainer(w, c, a, b, rest))
    BY <1>b, <1>d, EnsureRecords, SMTT(60)
  <1>g. Good(Failed(w))
    BY <1>e DEF Failed
  <1>h. /\ {"findPod", "lookupPrev", "checkAbbot", "newPod"} = PodlessLabel \ {"deleteFindPod"}
        /\ {"findPause", "inspect", "newPause", "startPause", "checkPause", "netDo",
            "restartPause", "unpausePause", "prepare", "newCtr", "startCtr", "waitCtr", "check"}
              \subseteq EnsureLabel \ PodlessLabel
    BY DEF EnsureLabel, PodlessLabel
  <1>1. CASE EnsureFindPod(w)
    BY <1>1, <1>e, <1>g, <1>h, LookupTypes, LabelsKept, Zenon DEF EnsureFindPod, GoodStep, PodsWithUID
  <1>2. CASE FindPause(w)
    BY <1>2, <1>f, <1>h, LabelsKept, ZenonT(60) DEF FindPause, GoodStep
  <1>3. CASE LookupPrev(w)
    <2>1. \A id \in PodsNamed(PodName[S.req.uid]) : id \in PodID /\ SameName(id, S.req, labels)
      BY LookupTypes DEF PodsNamed, SameName
    <2> QED
      BY <1>3, <1>e, <1>h, <2>1, LabelsKept DEF LookupPrev, GoodStep
  <1>4. CASE CheckAbbot(w)
    BY <1>4, <1>e, <1>g, <1>h, LabelsKept DEF CheckAbbot, GoodStep
  <1>5. CASE CreatePause(w)
    BY <1>5, <1>f, <1>h, LabelsKept DEF CreatePause, GoodStep
  <1>6. CASE StartPause(w)
    BY <1>6, <1>f, <1>h, LabelsKept DEF StartPause, GoodStep
  <1>7. CASE CheckPause(w)
    BY <1>7, <1>f, <1>h, LabelsKept DEF CheckPause, GoodStep
  <1>8. CASE ConfigureNetwork(w)
    BY <1>8, <1>f, <1>h, LabelsKept DEF ConfigureNetwork, GoodStep
  <1>9. CASE InspectPause(w)
    BY <1>9, <1>f, <1>h, LabelsKept DEF InspectPause, GoodStep
  <1>10. CASE RestartPause(w)
    BY <1>10, <1>f, <1>h, LabelsKept DEF RestartPause, GoodStep
  <1>11. CASE UnpausePause(w)
    BY <1>11, <1>f, <1>h, LabelsKept DEF UnpausePause, GoodStep
  <1>12. CASE PrepareContainer(w)
    BY <1>12, <1>f, <1>h, LabelsKept DEF PrepareContainer, GoodStep
  <1>13. CASE CreateContainer(w)
    BY <1>13, <1>f, <1>h, LabelsKept DEF CreateContainer, GoodStep
  <1>14. CASE StartContainer(w)
    BY <1>14, <1>f, <1>h, LabelsKept DEF StartContainer, GoodStep
  <1>15. CASE WaitContainer(w)
    BY <1>15, <1>f, <1>h, LabelsKept DEF WaitContainer, GoodStep
  <1>16. CASE CheckContainers(w)
    BY <1>16, <1>e, <1>f, <1>h, LabelsKept DEF CheckContainers, GoodStep
  <1> QED
    BY <1>1, <1>2, <1>3, <1>4, <1>5, <1>6, <1>7, <1>8, <1>9, <1>10, <1>11, <1>12, <1>13, <1>14,
       <1>15, <1>16 DEF EnsurePod

\* So is every step of DeletePod.
LEMMA DeleteGood ==
    ASSUME TypeOK, NEW w \in Worker, Good(wk[w]), DeletePod(w)
    PROVE  GoodStep(w)
  <1> DEFINE S == wk[w]
  <1>0. S \in WorkerState /\ Idle \in WorkerState
    BY WorkerTypes, SMTT(60) DEF TypeOK
  <1>a. S.pc \in DeleteLabel
    BY DEF DeletePod, DeleteFindPod, DeleteFindPause, DeleteListed, DeleteLabel
  <1>b. S.req.op = "delete" /\ S.req.uid \in PodUID
    BY <1>a DEF Good, Control
  <1>c. S.req.uid # NoUID
    BY <1>b, LibpodAssumption, SMTT(60)
  <1>d. /\ S.pc # "deleteFindPod" => S.pod \in PodID
        /\ S.pod \in PodID => labels[S.pod] = S.req.uid
    BY <1>a, <1>b, SMTT(60) DEF Good, Handles, PodLabel, PodlessLabel, DeleteLabel
  <1>e. ASSUME NEW r, r.req = S.req,
               \/ r.pc = "cleanup" /\ r.pod = NoPod
               \/ /\ r.pc \in {"deleteFindPause", "deleteListed"}
                  /\ r.pod \in PodID /\ labels[r.pod] = S.req.uid
               \/ /\ r.pc = "delFind" /\ r.ret = "delete" /\ r.dpod = r.pod
                  /\ r.pod \in PodID /\ labels[r.pod] = S.req.uid
        PROVE  Good(r)
    BY <1>b, <1>c, <1>e, RuntimeAssumption, SMTT(60)
    DEF Good, Control, Handles, SameName, EnsureLabel, DeleteLabel, DeletePodLabel, ListLabel,
        PodLabel, PodlessLabel
  <1>f. \A a : Good(Finish(w, "cleanup", a))
    <2> SUFFICES ASSUME NEW a PROVE Good(Finish(w, "cleanup", a))
      OBVIOUS
    <2>1. /\ Finish(w, "cleanup", a).pc = "cleanup" /\ Finish(w, "cleanup", a).req = S.req
          /\ Finish(w, "cleanup", a).pod = NoPod
      BY <1>0 DEF Finish, WorkerState, Idle
    <2> QED
      BY <1>e, <2>1
  <1>1. CASE DeleteFindPod(w)
    <2>1. CASE Step(w, Failed(w))
      BY <1>1, <1>f, <2>1, LabelsKept DEF DeleteFindPod, GoodStep, Failed
    <2>2. CASE \E id \in PodsWithUID(S.req.uid) :
                  Step(w, [IF S.req.ctrs = {} THEN CallDeletePod(w, id, "delete")
                           ELSE Goto(w, "deleteFindPause") EXCEPT !.pod = id])
      <3>1. PICK id \in PodsWithUID(S.req.uid) :
                    Step(w, [IF S.req.ctrs = {} THEN CallDeletePod(w, id, "delete")
                             ELSE Goto(w, "deleteFindPause") EXCEPT !.pod = id])
        BY <2>2
      <3>2. id \in PodID /\ labels[id] = S.req.uid
        BY LookupTypes DEF PodsWithUID
      <3>3. CASE S.req.ctrs = {}
        <4> DEFINE r == [CallDeletePod(w, id, "delete") EXCEPT !.pod = id]
        <4>1. /\ r.pc = "delFind" /\ r.ret = "delete" /\ r.dpod = id /\ r.pod = id
              /\ r.req = S.req
          BY <1>0 DEF CallDeletePod, WorkerState
        <4>2. Step(w, r)
          BY <3>1, <3>3, SMTT(60)
        <4> HIDE DEF r
        <4>3. Good(r)
          BY <1>e, <3>2, <4>1
        <4> QED
          BY <1>1, <4>2, <4>3, LabelsKept DEF DeleteFindPod, GoodStep
      <3>4. CASE S.req.ctrs # {}
        <4> DEFINE r == [Goto(w, "deleteFindPause") EXCEPT !.pod = id]
        <4>1. r.pc = "deleteFindPause" /\ r.pod = id /\ r.req = S.req
          BY <1>0 DEF Goto, WorkerState
        <4>2. Step(w, r)
          BY <3>1, <3>4, SMTT(60)
        <4> HIDE DEF r
        <4>3. Good(r)
          BY <1>e, <3>2, <4>1, SMTT(60)
        <4> QED
          BY <1>1, <4>2, <4>3, LabelsKept DEF DeleteFindPod, GoodStep
      <3> QED
        BY <3>3, <3>4
    <2> QED
      BY <1>1, <2>1, <2>2 DEF DeleteFindPod
  <1>2. CASE DeleteFindPause(w)
    <2>1. S.pod \in PodID /\ labels[S.pod] = S.req.uid
      BY <1>2, <1>d DEF DeleteFindPause
    <2>2. /\ Goto(w, "deleteListed").pc = "deleteListed" /\ Goto(w, "deleteListed").req = S.req
          /\ Goto(w, "deleteListed").pod = S.pod
      BY <1>0, SMTT(60) DEF Goto, WorkerState
    <2>3. Good(Goto(w, "deleteListed"))
      BY <1>e, <2>1, <2>2, SMTT(60)
    <2> QED
      BY <1>2, <1>f, <2>3, LabelsKept, SMTT(60) DEF DeleteFindPause, GoodStep, Failed
  <1>3. CASE DeleteListed(w)
    BY <1>3, <1>f, LabelsKept, SMTT(60) DEF DeleteListed, GoodStep, Failed
  <1> QED
    BY <1>1, <1>2, <1>3, SMTT(60) DEF DeletePod

\* deletePod returns to a good record.
LEMMA ReturnedGood ==
    ASSUME TypeOK, NEW w \in Worker, Good(wk[w]), wk[w].pc \in DeletePodLabel,
           NEW ok \in BOOLEAN
    PROVE  Good(Returned(w, ok))
  <1> DEFINE S == wk[w]
             back(label) == [S EXCEPT !.pc = label, !.dpod = NoPod, !.ctr = NoPod, !.ret = "fail"]
  <1>0. S \in WorkerState /\ Idle \in WorkerState
    BY WorkerTypes, SMTT(60) DEF TypeOK
  <1>a. S.ret \in {"prev", "unwind", "fail", "delete", "list"}
    BY <1>0 DEF WorkerState
  <1>b. /\ S.ret \in {"prev", "unwind", "fail"} => S.req.op = "ensure"
        /\ S.ret = "delete" => S.req.op = "delete"
        /\ S.ret = "list" => S.req.op = "list"
        /\ S.req.op # "list" => S.req.uid \in PodUID
    BY <1>a, SMTT(60) DEF Good, Control
  <1>c. /\ S.ret = "unwind" => S.pod \in PodID
        /\ S.pod \in PodID /\ S.req.op # "list" => labels[S.pod] = S.req.uid
    BY SMTT(60) DEF Good, Handles
  <1>d. \A a : Good(Finish(w, "cleanup", a))
    <2> SUFFICES ASSUME NEW a PROVE Good(Finish(w, "cleanup", a))
      OBVIOUS
    <2>1. /\ Finish(w, "cleanup", a).pc = "cleanup" /\ Finish(w, "cleanup", a).req = S.req
          /\ Finish(w, "cleanup", a).pod = NoPod
      BY <1>0 DEF Finish, WorkerState, Idle
    <2> QED
      BY <1>b, <2>1, RuntimeAssumption
      DEF Good, Control, Handles, EnsureLabel, DeleteLabel, DeletePodLabel, ListLabel, PodLabel
  <1>e. \A l : back(l).pc = l /\ back(l).req = S.req /\ back(l).pod = S.pod
    BY <1>0 DEF WorkerState
  <1> HIDE DEF back
  <1>1. CASE S.ret = "prev"
    <2>1. Good(back("checkAbbot"))
      BY <1>1, <1>b, <1>c, <1>e
      DEF Good, Control, Handles, EnsureLabel, DeleteLabel, DeletePodLabel, ListLabel, PodLabel,
          PodlessLabel
    <2>2. Returned(w, ok) = IF ok THEN back("checkAbbot") ELSE Failed(w)
      BY <1>1 DEF Returned, back
    <2> QED
      BY <1>d, <2>1, <2>2, SMTT(60) DEF Failed
  <1>2. CASE S.ret = "unwind"
    <2>1. Returned(w, ok) = Rollback(w, "fail")
      BY <1>2 DEF Returned
    <2> QED
      BY <1>2, <1>b, <1>c, <2>1, EnsureRecords
  <1>3. CASE S.ret = "fail"
    <2>1. Returned(w, ok) = Failed(w)
      BY <1>3 DEF Returned
    <2> QED
      BY <1>d, <2>1 DEF Failed
  <1>4. CASE S.ret = "delete"
    <2>1. Returned(w, ok) = Finish(w, "cleanup", IF ok THEN "ok" ELSE "err")
      BY <1>4 DEF Returned
    <2> QED
      BY <1>d, <2>1
  <1>5. CASE S.ret = "list"
    <2>1. Returned(w, ok) = back("listNext")
      BY <1>5, SMTT(60) DEF Returned, back
    <2>2. Good(back("listNext"))
      BY <1>5, <1>b, <1>c, <1>e
      DEF Good, Control, Handles, EnsureLabel, DeleteLabel, DeletePodLabel, ListLabel, PodLabel
    <2> QED
      BY <2>1, <2>2
  <1> QED
    BY <1>1, <1>2, <1>3, <1>4, <1>5, <1>a, SMTT(60)

\* Every step of deletePod is a good step.
LEMMA deletePodGood ==
    ASSUME TypeOK, NEW w \in Worker, Good(wk[w]), deletePod(w)
    PROVE  GoodStep(w)
  <1> DEFINE S == wk[w]
  <1>0. S \in WorkerState
    BY SMTT(60) DEF TypeOK
  <1>a. S.pc \in DeletePodLabel
    BY Zenon DEF deletePod, DelFind, DelNetwork, DelGuard, DelRemove, DeletePodLabel
  <1>b. Good(Returned(w, TRUE)) /\ Good(Returned(w, FALSE))
    BY <1>a, ReturnedGood, Zenon
  <1>c. ASSUME NEW r, r.pc \in DeletePodLabel, r.req = S.req, r.ret = S.ret, r.dpod = S.dpod,
               r.pod = S.pod
        PROVE  Good(r)
    BY <1>a, <1>c, Zenon
    DEF Good, Control, Handles, EnsureLabel, DeleteLabel, DeletePodLabel, ListLabel, PodLabel
  <1>d. ASSUME NEW l \in DeletePodLabel PROVE Good(Goto(w, l))
    <2>1. /\ Goto(w, l).pc = l /\ Goto(w, l).req = S.req /\ Goto(w, l).ret = S.ret
          /\ Goto(w, l).dpod = S.dpod /\ Goto(w, l).pod = S.pod
      BY <1>0 DEF Goto, WorkerState
    <2> QED
      BY <1>c, <2>1
  <1>e. ASSUME NEW l \in DeletePodLabel, NEW id PROVE Good([Goto(w, l) EXCEPT !.ctr = id])
    <2> DEFINE r == [Goto(w, l) EXCEPT !.ctr = id]
    <2>1. r.pc = l /\ r.req = S.req /\ r.ret = S.ret /\ r.dpod = S.dpod /\ r.pod = S.pod
      BY <1>0 DEF Goto, WorkerState
    <2> HIDE DEF r
    <2>2. Good(r)
      BY <1>c, <2>1
    <2> QED
      BY <2>2 DEF r
  <1>f. {"delNetwork", "delGuard", "delRemove"} \subseteq DeletePodLabel
    BY DEF DeletePodLabel
  <1>1. CASE DelFind(w)
    <2> DEFINE next == IF labels[S.dpod] \notin HostNetwork THEN "delNetwork"
                       ELSE IF labels[S.dpod] \in AbbotPod THEN "delGuard" ELSE "delRemove"
    <2>1. next \in DeletePodLabel
      BY <1>f
    <2>2. \A id : Good([Goto(w, next) EXCEPT !.ctr = id])
      BY <1>e, <2>1
    <2> QED
      BY <1>1, <1>b, <1>d, <1>f, <2>2, LabelsKept, Zenon DEF DelFind, GoodStep
  <1>2. CASE DelNetwork(w)
    BY <1>2, <1>b, <1>d, <1>f, LabelsKept, Zenon DEF DelNetwork, GoodStep
  <1>3. CASE DelGuard(w)
    BY <1>3, <1>b, <1>d, <1>f, LabelsKept, Zenon DEF DelGuard, GoodStep
  <1>4. CASE DelRemove(w)
    BY <1>4, <1>b, LabelsKept, Zenon DEF DelRemove, GoodStep
  <1> QED
    BY <1>1, <1>2, <1>3, <1>4 DEF deletePod

\* So is every step of ListPods.
LEMMA ListGood ==
    ASSUME TypeOK, NEW w \in Worker, Good(wk[w]), ListPods(w)
    PROVE  GoodStep(w)
  <1> DEFINE S == wk[w]
  <1>0. S \in WorkerState /\ Idle \in WorkerState
    BY WorkerTypes DEF TypeOK
  <1>a. S.pc \in ListLabel
    BY Zenon DEF ListPods, ListFind, ListNext, ListRemove, ListLabel
  <1>b. S.req.op = "list"
    BY <1>a DEF Good, Control
  <1>c. ASSUME NEW r, r.req = S.req,
               \/ r.pc \in {"reply", "listNext"}
               \/ r.pc = "listRemove" /\ r.dpod \in PodID
               \/ /\ r.pc = "delFind" /\ r.ret = "list"
                  /\ r.dpod \in PodID /\ labels[r.dpod] = NoUID
        PROVE  Good(r)
    BY <1>b, <1>c, SMTT(60)
    DEF Good, Control, Handles, EnsureLabel, DeleteLabel, DeletePodLabel, ListLabel, PodLabel
  <1>d. \A a : Good(Finish(w, "reply", a))
    <2> SUFFICES ASSUME NEW a PROVE Good(Finish(w, "reply", a))
      OBVIOUS
    <2>1. Finish(w, "reply", a).pc = "reply" /\ Finish(w, "reply", a).req = S.req
      BY <1>0 DEF Finish, WorkerState, Idle
    <2> QED
      BY <1>c, <2>1
  <1>1. CASE ListFind(w)
    <2>1. \A l : Good([Goto(w, "listNext") EXCEPT !.lst = l])
      <3> SUFFICES ASSUME NEW l PROVE Good([Goto(w, "listNext") EXCEPT !.lst = l])
        OBVIOUS
      <3> DEFINE r == [Goto(w, "listNext") EXCEPT !.lst = l]
      <3>1. r.pc = "listNext" /\ r.req = S.req
        BY <1>0 DEF Goto, WorkerState
      <3> HIDE DEF r
      <3>2. Good(r)
        BY <1>c, <3>1, SMTT(60)
      <3> QED
        BY <3>2 DEF r
    <2> QED
      BY <1>1, <1>d, <2>1, LabelsKept DEF ListFind, GoodStep
  <1>2. CASE ListNext(w)
    <2>1. labels' = labels
      BY <1>2, LabelsKept, Zenon DEF ListNext, Queried
    <2>2. ASSUME NEW id \in S.lst, labels[id] = NoUID
          PROVE  Good([CallDeletePod(w, id, "list") EXCEPT !.lst = S.lst \ {id}])
      <3> DEFINE r == [CallDeletePod(w, id, "list") EXCEPT !.lst = S.lst \ {id}]
      <3>1. /\ r.pc = "delFind" /\ r.req = S.req /\ r.ret = "list" /\ r.dpod = id
            /\ id \in PodID
        BY <1>0, SMTT(60) DEF CallDeletePod, WorkerState
      <3> HIDE DEF r
      <3>2. Good(r)
        BY <1>c, <2>2, <3>1
      <3> QED
        BY <3>2 DEF r
    <2>3. ASSUME NEW id \in S.lst
          PROVE  Good([Goto(w, "listRemove") EXCEPT !.dpod = id, !.lst = S.lst \ {id}])
      <3> DEFINE r == [Goto(w, "listRemove") EXCEPT !.dpod = id, !.lst = S.lst \ {id}]
      <3>1. r.pc = "listRemove" /\ r.req = S.req /\ r.dpod = id /\ id \in PodID
        BY <1>0 DEF Goto, WorkerState
      <3> HIDE DEF r
      <3>2. Good(r)
        BY <1>c, <3>1
      <3> QED
        BY <3>2 DEF r
    <2>4. ASSUME NEW id \in S.lst
          PROVE  Good([S EXCEPT !.lst = S.lst \ {id}])
      <3> DEFINE r == [S EXCEPT !.lst = S.lst \ {id}]
      <3>1. r.pc = "listNext" /\ r.req = S.req
        BY <1>0, <1>2, Zenon DEF ListNext, WorkerState
      <3> HIDE DEF r
      <3>2. Good(r)
        BY <1>c, <3>1
      <3> QED
        BY <3>2, SMTT(60) DEF r
    <2> QED
      BY <1>2, <1>d, <2>1, <2>2, <2>3, <2>4, ZenonT(60) DEF ListNext, GoodStep
  <1>3. CASE ListRemove(w)
    <2> DEFINE r == [Goto(w, "listNext") EXCEPT !.dpod = NoPod]
    <2>1. r.pc = "listNext" /\ r.req = S.req
      BY <1>0 DEF Goto, WorkerState
    <2> HIDE DEF r
    <2>2. Good(r)
      BY <1>c, <2>1
    <2> QED
      BY <1>3, <1>d, <2>2, LabelsKept DEF ListRemove, GoodStep, r
  <1> QED
    BY <1>1, <1>2, <1>3 DEF ListPods

\* A worker that is idle, begins a command or is about to answer has no handle
\* to account for.
LEMMA OuterGood ==
    ASSUME TypeOK, NEW w \in Worker, Good(wk[w])
    PROVE  /\ Good(Idle)
           /\ Accept(w) => GoodStep(w)
           /\ Reply(w) => GoodStep(w)
           /\ Cleanup(w) => Good(Goto(w, "reply"))
  <1>1. Good(Idle)
    BY RuntimeAssumption DEF Good, Control, Handles, Idle, NoRequest, EnsureLabel, DeleteLabel,
           DeletePodLabel, ListLabel, PodLabel
  <1>2. Accept(w) => GoodStep(w)
    <2> SUFFICES ASSUME Accept(w) PROVE GoodStep(w)
      BY SMTT(60)
    <2>1. PICK q \in Requests : Step(w, [Idle EXCEPT !.req = q, !.pc = Entry(q.op)])
      BY Zenon DEF Accept
    <2>2. /\ q.op \in {"ensure", "delete", "list"}
          /\ q.op # "list" => q.uid \in PodUID
      BY RuntimeAssumption DEF Request
    <2> DEFINE r == [Idle EXCEPT !.req = q, !.pc = Entry(q.op)]
    <2>3. r.req = q /\ r.pc = Entry(q.op) /\ r.pod = NoPod
      BY DEF Idle
    <2> HIDE DEF r
    <2>4. Good(r)
      BY <2>2, <2>3, RuntimeAssumption, SMTT(60)
      DEF Good, Control, Handles, Entry, EnsureLabel, DeleteLabel, DeletePodLabel, ListLabel,
          PodLabel, PodlessLabel
    <2> QED
      BY <2>1, <2>4, LabelsKept DEF Accept, GoodStep, r
  <1>3. Reply(w) => GoodStep(w)
    BY <1>1, LabelsKept, SMTT(60) DEF Reply, GoodStep
  <1>4. Cleanup(w) => Good(Goto(w, "reply"))
    <2> SUFFICES ASSUME Cleanup(w) PROVE Good(Goto(w, "reply"))
      OBVIOUS
    <2>1. wk[w] \in WorkerState
      BY DEF TypeOK
    <2>2. /\ Goto(w, "reply").pc = "reply" /\ Goto(w, "reply").req = wk[w].req
          /\ Goto(w, "reply").pod = wk[w].pod
      BY <2>1, SMTT(60) DEF Goto, WorkerState
    <2> QED
      BY <2>2
      DEF Good, Control, Handles, EnsureLabel, DeleteLabel, DeletePodLabel, ListLabel, PodLabel
  <1> QED
    BY <1>1, <1>2, <1>3, <1>4, SMTT(60)

\* A new pod is none of the pods the workers have handles of.
LEMMA FreshHandles ==
    ASSUME TypeOK, NEW v \in Worker, Handles(wk[v], labels), NEW id \in FreshID, NEW uid
    PROVE  Handles(wk[v], [labels EXCEPT ![id] = uid])
  <1>1. id # wk[v].pod /\ id # wk[v].dpod
    BY DEF FreshID, Held
  <1>2. labels \in [PodID -> PodUID \cup {NoUID}]
    BY DEF TypeOK, LibpodTypeOK
  <1>3. \A x \in PodID \ {id} : [labels EXCEPT ![id] = uid][x] = labels[x]
    BY <1>2
  <1> QED
    BY <1>1, <1>3 DEF Handles, SameName

\* Every step keeps the control state and the handles of all workers.
LEMMA HandleStep ==
    ASSUME TypeOK, ControlOK, HandlesOK, [Next]_vars
    PROVE  ControlOK' /\ HandlesOK'
  <1>0. wk \in [Worker -> WorkerState] /\ \A v \in Worker : Good(wk[v])
    BY SMTT(60) DEF TypeOK, ControlOK, HandlesOK, Good
  <1>a. ASSUME NEW w \in Worker, GoodStep(w) PROVE ControlOK' /\ HandlesOK'
    <2>1. PICK r : Step(w, r) /\ Good(r)
      BY <1>a DEF GoodStep
    <2>2. \A v \in Worker : Good(wk'[v])
      BY <1>0, <2>1 DEF Step
    <2> QED
      BY <1>a, <2>2 DEF GoodStep, Good, ControlOK, HandlesOK
  <1>1. ASSUME NEW w \in Worker, CreatePod(w) PROVE ControlOK' /\ HandlesOK'
    <2> DEFINE S == wk[w]
    <2>0. S \in WorkerState /\ Idle \in WorkerState /\ Good(S)
      BY <1>0, WorkerTypes
    <2>a. S.pc = "newPod"
      BY <1>1 DEF CreatePod
    <2>b. S.req.op = "ensure" /\ S.req.uid \in PodUID
      BY <2>0, <2>a DEF Good, Control, EnsureLabel
    <2>1. CASE Step(w, Failed(w)) /\ UNCHANGED libpodVars
      BY <1>a, <2>0, <2>1, <2>b, EnsureRecords, LabelsKept, SMTT(60) DEF GoodStep, Failed
    <2>2. CASE \E id \in FreshID :
                  /\ NewPod(id, S.req.uid)
                  /\ Step(w, [Goto(w, "newPause") EXCEPT !.pod = id])
      <3>1. PICK id \in FreshID : /\ NewPod(id, S.req.uid)
                                  /\ Step(w, [Goto(w, "newPause") EXCEPT !.pod = id])
        BY <2>2
      <3> DEFINE r == [Goto(w, "newPause") EXCEPT !.pod = id]
      <3>2. labels' = [labels EXCEPT ![id] = S.req.uid] /\ id \in PodID
        BY <3>1, LookupTypes DEF NewPod
      <3>3. labels'[id] = S.req.uid
        BY <3>2 DEF TypeOK, LibpodTypeOK
      <3>4. r.pc = "newPause" /\ r.req = S.req /\ r.pod = id
        BY <2>0 DEF Goto, WorkerState
      <3>5. wk' = [wk EXCEPT ![w] = r]
        BY <3>1 DEF Step
      <3> HIDE DEF r
      <3>6. Control(r) /\ Handles(r, labels')
        BY <2>b, <3>2, <3>3, <3>4
        DEF Control, Handles, EnsureLabel, DeleteLabel, DeletePodLabel, ListLabel, PodLabel
      <3>7. \A v \in Worker : Handles(wk[v], labels')
        BY <1>0, <3>2, FreshHandles, Zenon DEF Good
      <3>8. \A v \in Worker : Control(wk'[v]) /\ Handles(wk'[v], labels')
        BY <1>0, <3>5, <3>6, <3>7 DEF Good
      <3> QED
        BY <3>8 DEF ControlOK, HandlesOK
    <2> QED
      BY <1>1, <2>1, <2>2 DEF CreatePod
  <1>2. ASSUME NEW w \in Worker,
               EnsurePod(w) \/ DeletePod(w) \/ deletePod(w) \/ ListPods(w)
        PROVE  GoodStep(w) \/ CreatePod(w)
    BY <1>0, <1>2, EnsureGood, DeleteGood, deletePodGood, ListGood
  <1>3. ASSUME NEW w \in Worker, Accept(w) \/ Reply(w) PROVE GoodStep(w)
    BY <1>0, <1>3, OuterGood
  <1>4. ASSUME NEW w \in Worker, Cleanup(w) PROVE ControlOK' /\ HandlesOK'
    <2>1. Good(Idle) /\ Good(Goto(w, "reply"))
      BY <1>0, <1>4, OuterGood
    <2>2. \A v \in Worker : Good(wk'[v])
      BY <1>0, <1>4, <2>1, SMTT(60) DEF Cleanup
    <2> QED
      BY <1>4, <2>2, LabelsKept DEF Cleanup, Good, ControlOK, HandlesOK
  <1>5. ASSUME Crash PROVE ControlOK' /\ HandlesOK'
    <2>1. \A v \in Worker : Good(Idle)
      BY <1>0, OuterGood, SMTT(60)
    <2>2. \A v \in Worker : Good(wk'[v])
      BY <1>5, <2>1 DEF Crash
    <2> QED
      BY <1>5, <2>2, LabelsKept DEF Crash, Good, ControlOK, HandlesOK
  <1>6. ASSUME Engine PROVE ControlOK' /\ HandlesOK'
    <2>1. CASE labels' = labels
      BY <1>6, <2>1, SMTT(60) DEF Engine, ControlOK, HandlesOK
    <2>2. CASE \E id \in FreshID : ForeignPodCreated(id)
      <3>1. PICK id \in FreshID : labels' = [labels EXCEPT ![id] = NoUID]
        BY <2>2, Zenon DEF ForeignPodCreated
      <3>2. \A v \in Worker : Handles(wk[v], labels')
        BY <1>0, <3>1, FreshHandles, Zenon DEF Good
      <3> QED
        BY <1>6, <3>2 DEF Engine, ControlOK, HandlesOK
    <2>3. labels' = labels \/ \E id \in FreshID : ForeignPodCreated(id)
      BY <1>6 DEF Engine, ContainerExits, ContainerRestarts, Start, ContainerPaused, Unpause
    <2> QED
      BY <2>1, <2>2, <2>3
  <1>7. CASE UNCHANGED vars
    BY <1>7 DEF vars, ControlOK, HandlesOK
  <1> QED
    BY <1>a, <1>1, <1>2, <1>3, <1>4, <1>5, <1>6, <1>7 DEF Next, Handle

\* How a step may change the pods and their labels.
LEMMA PodsStep ==
    ASSUME [Next]_vars
    PROVE  \/ pods' \subseteq pods /\ labels' = labels
           \/ \E id \in FreshID, w \in Worker : CreatePod(w) /\ NewPod(id, wk[w].req.uid)
           \/ \E id \in FreshID : ForeignPodCreated(id)
  <1> DEFINE Kept == pods' \subseteq pods /\ labels' = labels
  <1>1. UNCHANGED libpodVars => Kept
    BY DEF libpodVars
  <1>2. \A id, c, dep : \/ NewContainer(id, c, dep) \/ Start(id, c) \/ StartAll(id, c)
                        \/ Unpause(id, c) \/ RemovePod(id) \/ RemoveFails(id)
                        => Kept
    BY SMTT(60) DEF libpodVars, NewContainer, Start, StartAll, Unpause, RemovePod, RemovePodContainers,
           RemoveFails
  <1>3. AbbotExecOK \/ AbbotExecFails => Kept
    BY <1>1, <1>2, SMTT(60) DEF AbbotExecOK, AbbotExecFails
  <1>4. ASSUME NEW w \in Worker, EnsurePod(w)
        PROVE  \/ Kept
               \/ \E id \in FreshID : CreatePod(w) /\ NewPod(id, wk[w].req.uid)
    <2> HIDE DEF Kept
    <2> QED
      BY <1>1, <1>2, <1>3, <1>4, ZenonT(60)
      DEF EnsurePod, EnsureFindPod, FindPause, LookupPrev, CheckAbbot, CreatePod,
          CreatePause, StartPause, CheckPause, ConfigureNetwork, InspectPause, RestartPause,
          UnpausePause, PrepareContainer, CreateContainer, StartContainer, WaitContainer,
          CheckContainers
  <1>5. ASSUME NEW w \in Worker, DeletePod(w) \/ deletePod(w) \/ ListPods(w) PROVE Kept
    <2> HIDE DEF Kept
    <2> QED
      BY <1>1, <1>2, <1>3, <1>5, ZenonT(60)
      DEF DeletePod, DeleteFindPod, DeleteFindPause, DeleteListed, deletePod, DelFind, DelNetwork,
          DelGuard, DelRemove, ListPods, ListFind, ListNext, Queried, ListRemove
  <1>6. ASSUME NEW w \in Worker, Accept(w) \/ Cleanup(w) \/ Reply(w) PROVE Kept
    BY <1>1, <1>6, Zenon DEF Accept, Cleanup, Reply
  <1>7. Crash => Kept
    BY <1>1, SMTT(60) DEF Crash
  <1>8. Engine => Kept \/ \E id \in FreshID : ForeignPodCreated(id)
    BY DEF Engine, ContainerExits, ContainerRestarts, Start, ContainerPaused, Unpause
  <1>9. UNCHANGED vars => Kept
    BY DEF vars
  <1> QED
    BY <1>4, <1>5, <1>6, <1>7, <1>8, <1>9 DEF Next, Handle

\* Every step keeps pod names unique.
LEMMA NamesStep ==
    ASSUME TypeOK, NamesUnique, [Next]_vars
    PROVE  NamesUnique'
  <1>1. CASE pods' \subseteq pods /\ labels' = labels
    BY <1>1, SMTT(60) DEF NamesUnique
  <1>2. ASSUME NEW id \in FreshID, NEW uid, NewPod(id, uid) PROVE NamesUnique'
    <2>1. labels' = [labels EXCEPT ![id] = uid] /\ pods' = pods \cup {id} /\ id \in PodID
      BY <1>2, LookupTypes DEF NewPod
    <2>2. \A x \in pods : x # id /\ labels'[x] = labels[x]
      BY <1>2, <2>1 DEF NewPod, TypeOK, LibpodTypeOK
    <2>3. labels'[id] = uid
      BY <2>1 DEF TypeOK, LibpodTypeOK
    <2>4. \A x \in pods : labels[x] # NoUID => PodName[labels[x]] # PodName[uid]
      BY <1>2, SMTT(60) DEF NewPod, PodsNamed
    <2> QED
      BY <2>1, <2>2, <2>3, <2>4 DEF NamesUnique
  <1>3. ASSUME NEW id \in FreshID, ForeignPodCreated(id) PROVE NamesUnique'
    <2>1. labels' = [labels EXCEPT ![id] = NoUID] /\ pods' = pods \cup {id} /\ id \in PodID
      BY <1>3, LookupTypes DEF ForeignPodCreated
    <2>2. \A x \in pods : x # id /\ labels'[x] = labels[x]
      BY <1>3, <2>1 DEF ForeignPodCreated, TypeOK, LibpodTypeOK
    <2>3. labels'[id] = NoUID
      BY <2>1 DEF TypeOK, LibpodTypeOK
    <2> QED
      BY <2>1, <2>2, <2>3 DEF NamesUnique
  <1> QED
    BY <1>1, <1>2, <1>3, PodsStep, SMTT(60)

-----------------------------------------------------------------------------
(***************************************************************************)
(* What holds however commands interleave.                                 *)
(***************************************************************************)
Inv == TypeOK /\ ControlOK /\ HandlesOK /\ NamesUnique

\* The runtime of a new node satisfies the invariant.
LEMMA InvInit == Init => Inv
  <1> SUFFICES ASSUME Init PROVE Inv
    BY SMTT(60)
  <1>1. Idle \in WorkerState
    BY LibpodAssumption DEF Idle, WorkerState, NoRequest, Request, Label
  <1>2. TypeOK
    BY <1>1 DEF Init, LibpodInit, TypeOK, LibpodTypeOK, NoContainers, CtrState
  <1>3. Control(Idle) /\ Handles(Idle, labels)
    BY RuntimeAssumption DEF Control, Handles, Idle, NoRequest, EnsureLabel, DeleteLabel,
           DeletePodLabel, ListLabel, PodLabel
  <1>4. ControlOK /\ HandlesOK
    BY <1>3 DEF Init, ControlOK, HandlesOK
  <1>5. NamesUnique
    BY DEF Init, LibpodInit, NamesUnique
  <1> QED
    BY <1>2, <1>4, <1>5 DEF Inv

\* Every step keeps it.
LEMMA InvStep == Inv /\ [Next]_vars => Inv'
  BY TypeStep, HandleStep, NamesStep DEF Inv

\* The invariant holds in every state of every behaviour of the pod handlers.
THEOREM Invariance == Spec => []Inv
  BY InvInit, InvStep, PTL DEF Spec

\* The state of the runtime, of libpod, abbot and the disk stays well typed,
\* whatever commands arrive and whatever calls fail.
THEOREM TypeCorrect == Spec => []TypeOK
  <1>1. Inv => TypeOK
    BY DEF Inv
  <1> QED
    BY <1>1, Invariance, PTL

\* findPod never finds two pods for one UID, although any number of EnsurePod
\* goroutines may run at once: libpod's reservation of the pod name is enough.
THEOREM UniquePods == Spec => []OnePodPerUID
  <1>1. Inv => OnePodPerUID
    BY DEF Inv, NamesUnique, OnePodPerUID
  <1> QED
    BY <1>1, Invariance, PTL

\* A step that removes a pod is a RemovePod call of deletePod or of ListPods.
LEMMA RemovalCalls ==
    ASSUME [Next]_vars, NEW id \in pods \ pods'
    PROVE  \E w \in Worker : (DelRemove(w) \/ ListRemove(w)) /\ wk[w].dpod = id
  <1> DEFINE Kept == pods \subseteq pods'
             Removed == \E w \in Worker : (DelRemove(w) \/ ListRemove(w)) /\ wk[w].dpod = id
  <1>0. ~Kept
    OBVIOUS
  <1>1. UNCHANGED libpodVars => Kept
    BY SMTT(60) DEF libpodVars
  <1>2. \A x, c, dep : \/ NewPod(x, dep) \/ NewContainer(x, c, dep) \/ Start(x, c)
                       \/ StartAll(x, c) \/ Unpause(x, c)
                       => Kept
    BY SMTT(60) DEF NewPod, NewContainer, Start, StartAll, Unpause
  <1>3. AbbotExecOK \/ AbbotExecFails => Kept
    BY <1>1, <1>2, Zenon DEF AbbotExecOK, AbbotExecFails
  <1>4. ASSUME NEW w \in Worker, EnsurePod(w) PROVE Kept
    <2> HIDE DEF Kept
    <2> QED
      BY <1>1, <1>2, <1>3, <1>4, ZenonT(60)
      DEF EnsurePod, EnsureFindPod, FindPause, LookupPrev, CheckAbbot, CreatePod,
          CreatePause, StartPause, CheckPause, ConfigureNetwork, InspectPause, RestartPause,
          UnpausePause, PrepareContainer, CreateContainer, StartContainer, WaitContainer,
          CheckContainers
  <1>5. ASSUME NEW w \in Worker, DelRemove(w) \/ ListRemove(w) PROVE Kept \/ Removed
    <2>1. pods' = pods \/ pods' = pods \ {wk[w].dpod}
      BY <1>5, ZenonT(60) DEF DelRemove, ListRemove, RemovePod, RemoveFails, RemovePodContainers, libpodVars
    <2> QED
      BY <1>5, <2>1
  <1>6. ASSUME NEW w \in Worker, DeletePod(w) \/ deletePod(w) \/ ListPods(w)
        PROVE  Kept \/ DelRemove(w) \/ ListRemove(w)
    <2> HIDE DEF Kept
    <2> QED
      BY <1>1, <1>3, <1>6, Zenon
      DEF DeletePod, DeleteFindPod, DeleteFindPause, DeleteListed, deletePod, DelFind, DelNetwork,
          DelGuard, ListPods, ListFind, ListNext, Queried
  <1>7. ASSUME NEW w \in Worker, Accept(w) \/ Cleanup(w) \/ Reply(w) PROVE Kept
    BY <1>1, <1>7, Zenon DEF Accept, Cleanup, Reply
  <1>8. Crash => Kept
    BY <1>1, SMTT(60) DEF Crash
  <1>9. Engine => Kept
    BY DEF Engine, ContainerExits, ContainerRestarts, Start, ContainerPaused, Unpause,
           ForeignPodCreated
  <1>10. UNCHANGED vars => Kept
    BY DEF vars
  <1> HIDE DEF Kept, Removed
  <1>11. Kept \/ Removed
    BY <1>4, <1>5, <1>6, <1>7, <1>8, <1>9, <1>10 DEF Next, Handle
  <1> QED
    BY <1>0, <1>11 DEF Removed

\* No command removes a pod of another name, however stale the handles of its
\* goroutine are; ListPods removes only pods it may remove.
THEOREM Removals == Spec => RemovesOnlyItsPod
  <1>1. Inv /\ [Next]_vars => RemovalStep
    <2> SUFFICES ASSUME Inv, [Next]_vars, NEW id \in pods \ pods'
                 PROVE  \E w \in Worker :
                           /\ wk[w].dpod = id /\ wk'[w] # wk[w]
                           /\ IF wk[w].req.op = "list"
                              THEN labels[id] = NoUID \/ wk[w].pc = "listRemove"
                              ELSE /\ wk[w].pc = "delRemove" /\ labels[id] # NoUID
                                   /\ PodName[labels[id]] = PodName[wk[w].req.uid]
      BY DEF RemovalStep
    <2>1. PICK w \in Worker : (DelRemove(w) \/ ListRemove(w)) /\ wk[w].dpod = id
      BY RemovalCalls
    <2>2. Control(wk[w]) /\ Handles(wk[w], labels) /\ wk[w] \in WorkerState
      BY DEF Inv, TypeOK, ControlOK, HandlesOK
    <2>3. /\ Returned(w, TRUE).pc # "delRemove" /\ Returned(w, FALSE).pc # "delRemove"
      BY <2>2 DEF Returned, Failed, Finish, Rollback, CallDeletePod, WorkerState, Idle
    <2>4. /\ [Goto(w, "listNext") EXCEPT !.dpod = NoPod].pc = "listNext"
          /\ Finish(w, "reply", "err").pc = "reply"
      BY <2>2 DEF Finish, Goto, WorkerState, Idle
    <2>5. wk \in [Worker -> WorkerState]
      BY DEF Inv, TypeOK
    <2>6. wk'[w] # wk[w]
      BY <2>1, <2>3, <2>4, <2>5, Zenon DEF DelRemove, ListRemove, Step
    <2>7. CASE DelRemove(w)
      BY <2>1, <2>2, <2>6, <2>7 DEF DelRemove, Handles, SameName, DeletePodLabel
    <2>8. CASE ListRemove(w)
      BY <2>1, <2>2, <2>6, <2>8 DEF ListRemove, Control, ListLabel
    <2> QED
      BY <2>1, <2>7, <2>8, SMTT(60)
  <1> QED
    BY <1>1, Invariance, PTL DEF Spec, RemovesOnlyItsPod

=============================================================================
