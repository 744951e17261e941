---------------------------- MODULE NetworkProofs ---------------------------
(***************************************************************************)
(* No pod network outlives its pod while conflicting commands are served   *)
(* one after the other and libpod's database can be read: for any set of   *)
(* pods, workers and requests, with any other failure and with crashes.    *)
(* Then the forms of the handlers' steps that the proofs about finished    *)
(* commands use.                                                           *)
(***************************************************************************)
EXTENDS PodRuntimeProofs

Busy(w) == wk[w].pc # "idle"

\* The peer does not send conflicting commands at once, or one goroutine
\* serves them all.
OneAtATime == Exclusive \/ \A v, w \in Worker : v = w

\* No two commands that are being served conflict.
NoConflict ==
    \A v, w \in Worker :
        v # w /\ Busy(v) /\ Busy(w) => ~Conflict(wk[v].req, wk[w].req)

\* Where a network is, or may be, there is a pause container on the cluster
\* network, which deletePod will find.
NetworkHasPause ==
    \A id \in PodID :
        net[id] # "none" =>
            /\ Exists(id, Pause)
            /\ labels[id] # NoUID
            /\ labels[id] \notin HostNetwork

\* What a worker knows when it is about to configure a network, to release it,
\* or to remove the pod; ps, lab and nw are the pods, the labels and the
\* networks.
NetStep(s, ps, lab, nw) ==
    /\ s.pc \in {"startPause", "checkPause", "netDo"} => s.ctr = s.pod
    /\ s.pc = "netDo" => s.req.uid \notin HostNetwork
    /\ s.pc = "delNetwork" /\ s.dpod \in ps => s.ctr = s.dpod
    /\ s.pc = "delGuard" => lab[s.dpod] \in HostNetwork
    /\ s.pc \in {"delRemove", "listRemove"} => nw[s.dpod] = "none"

NetStepOK == \A w \in Worker : NetStep(wk[w], pods, labels, net)

NetInv == Inv /\ NoConflict /\ NetworkHasPause /\ NetStepOK
-----------------------------------------------------------------------------
(***************************************************************************)
(* How the steps move the workers.                                         *)
(***************************************************************************)
\* The labels NetStep is about.
NetLabel == {"startPause", "checkPause", "netDo", "delNetwork", "delGuard", "delRemove",
             "listRemove"}

\* A record with the worker's request, and one at none of these labels.
OnReq(w, r) == r.req = wk[w].req
OffNet(w, r) == r.req = wk[w].req /\ r.pc \notin NetLabel

\* The worker goes on with its request, Away: to none of these labels.
Keeps(w) == \E r : Step(w, r) /\ OnReq(w, r)
Away(w) == \E r : Step(w, r) /\ OffNet(w, r)

\* The steps that may lead to one of them.
NetAction(w) ==
    \/ CreatePause(w) \/ StartPause(w) \/ CheckPause(w)
    \/ DelFind(w) \/ DelNetwork(w) \/ DelGuard(w) \/ ListNext(w)

\* The label and the request of each record a worker moves to.
LEMMA RecordFields ==
    ASSUME TypeOK, NEW w \in Worker
    PROVE  /\ \A l : Goto(w, l).pc = l /\ Goto(w, l).req = wk[w].req
           /\ \A l, a : Finish(w, l, a).pc = l /\ Finish(w, l, a).req = wk[w].req
           /\ Failed(w).pc = "cleanup" /\ Failed(w).req = wk[w].req
           /\ \A id, ret : /\ CallDeletePod(w, id, ret).pc = "delFind"
                           /\ CallDeletePod(w, id, ret).req = wk[w].req
           /\ \A ret : Rollback(w, ret).pc = "delFind" /\ Rollback(w, ret).req = wk[w].req
           /\ BeginContainers(w).pc \in {"check", "prepare"}
           /\ BeginContainers(w).req = wk[w].req
           /\ \A c, a, b, rest : /\ NextContainer(w, c, a, b, rest).pc \in {a, b}
                                 /\ NextContainer(w, c, a, b, rest).req = wk[w].req
  <1> DEFINE S == wk[w]
  <1>0. S \in WorkerState /\ Idle \in WorkerState
    BY WorkerTypes DEF TypeOK
  <1>1. \A l : Goto(w, l).pc = l /\ Goto(w, l).req = S.req
    BY <1>0 DEF Goto, WorkerState
  <1>3. \A l, a : Finish(w, l, a).pc = l /\ Finish(w, l, a).req = S.req
    BY <1>0 DEF Finish, Idle
  <1>4. Failed(w).pc = "cleanup" /\ Failed(w).req = S.req
    BY <1>3 DEF Failed
  <1>5. \A id, ret : /\ CallDeletePod(w, id, ret).pc = "delFind"
                     /\ CallDeletePod(w, id, ret).req = S.req
    BY <1>0 DEF CallDeletePod, WorkerState
  <1>6. \A ret : Rollback(w, ret).pc = "delFind" /\ Rollback(w, ret).req = S.req
    BY <1>0 DEF Rollback, CallDeletePod, WorkerState
  <1>7. BeginContainers(w).pc \in {"check", "prepare"} /\ BeginContainers(w).req = S.req
    BY <1>0 DEF BeginContainers, WorkerState
  <1>8. \A c, a, b, rest : /\ NextContainer(w, c, a, b, rest).pc \in {a, b}
                           /\ NextContainer(w, c, a, b, rest).req = S.req
    BY <1>0 DEF NextContainer, WorkerState
  <1> QED
    BY <1>1, <1>3, <1>4, <1>5, <1>6, <1>7, <1>8

\* deletePod returns to none of the labels.
LEMMA ReturnedFields ==
    ASSUME TypeOK, NEW w \in Worker, NEW ok \in BOOLEAN
    PROVE  Returned(w, ok).pc \notin NetLabel /\ Returned(w, ok).req = wk[w].req
  <1> DEFINE S == wk[w]
             back(label) == [S EXCEPT !.pc = label, !.dpod = NoPod, !.ctr = NoPod, !.ret = "fail"]
  <1>0. S \in WorkerState
    BY DEF TypeOK
  <1>1. S.ret \in {"prev", "unwind", "fail", "delete", "list"}
    BY <1>0 DEF WorkerState
  <1>2. \A l : back(l).pc = l /\ back(l).req = S.req
    BY <1>0 DEF WorkerState
  <1>3. /\ Failed(w).pc = "cleanup" /\ Failed(w).req = S.req
        /\ Rollback(w, "fail").pc = "delFind" /\ Rollback(w, "fail").req = S.req
        /\ \A a : Finish(w, "cleanup", a).pc = "cleanup" /\ Finish(w, "cleanup", a).req = S.req
    BY RecordFields
  <1> HIDE DEF back
  <1>4. \/ Returned(w, ok) \in {back("checkAbbot"), back("listNext"), Failed(w),
                                Rollback(w, "fail")}
        \/ \E a : Returned(w, ok) = Finish(w, "cleanup", a)
    BY <1>1, SMTT(60) DEF Returned, back
  <1> QED
    BY <1>2, <1>3, <1>4 DEF NetLabel

\* The same for the records with one more field changed.
LEMMA ExceptRecords ==
    ASSUME TypeOK, NEW w \in Worker
    PROVE  /\ \A id : OffNet(w, [Goto(w, "findPause") EXCEPT !.pod = id])
           /\ \A id : OffNet(w, [Goto(w, "inspect") EXCEPT !.ctr = id])
           /\ \A id : OffNet(w, [Goto(w, "newPause") EXCEPT !.pod = id])
           /\ \A id : OffNet(w, [Goto(w, "deleteFindPause") EXCEPT !.pod = id])
           /\ \A id : OffNet(w, [CallDeletePod(w, id, "delete") EXCEPT !.pod = id])
           /\ \A id : OffNet(w, [Goto(w, "listNext") EXCEPT !.dpod = id])
           /\ \A l : OffNet(w, [Goto(w, "listNext") EXCEPT !.lst = l])
           /\ \A id, l : OnReq(w, [Goto(w, l) EXCEPT !.ctr = id])
           /\ \A l : OnReq(w, [wk[w] EXCEPT !.lst = l])
           /\ \A id, l : OnReq(w, [CallDeletePod(w, id, "list") EXCEPT !.lst = l])
           /\ \A id, l : OnReq(w, [Goto(w, "listRemove") EXCEPT !.dpod = id, !.lst = l])
  <1>0. wk[w] \in WorkerState
    BY DEF TypeOK
  <1>1. ASSUME NEW id PROVE OffNet(w, [Goto(w, "findPause") EXCEPT !.pod = id])
    <2> DEFINE r == [Goto(w, "findPause") EXCEPT !.pod = id]
    <2>1. r.req = wk[w].req /\ r.pc \notin NetLabel
      BY <1>0 DEF Goto, WorkerState, NetLabel
    <2> HIDE DEF r
    <2>2. OffNet(w, r)
      BY <2>1 DEF OffNet
    <2> QED
      BY <2>2 DEF r
  <1>2. ASSUME NEW id PROVE OffNet(w, [Goto(w, "inspect") EXCEPT !.ctr = id])
    <2> DEFINE r == [Goto(w, "inspect") EXCEPT !.ctr = id]
    <2>1. r.req = wk[w].req /\ r.pc \notin NetLabel
      BY <1>0 DEF Goto, WorkerState, NetLabel
    <2> HIDE DEF r
    <2>2. OffNet(w, r)
      BY <2>1 DEF OffNet
    <2> QED
      BY <2>2 DEF r
  <1>3. ASSUME NEW id PROVE OffNet(w, [Goto(w, "newPause") EXCEPT !.pod = id])
    <2> DEFINE r == [Goto(w, "newPause") EXCEPT !.pod = id]
    <2>1. r.req = wk[w].req /\ r.pc \notin NetLabel
      BY <1>0 DEF Goto, WorkerState, NetLabel
    <2> HIDE DEF r
    <2>2. OffNet(w, r)
      BY <2>1 DEF OffNet
    <2> QED
      BY <2>2 DEF r
  <1>4. ASSUME NEW id PROVE OffNet(w, [Goto(w, "deleteFindPause") EXCEPT !.pod = id])
    <2> DEFINE r == [Goto(w, "deleteFindPause") EXCEPT !.pod = id]
    <2>1. r.req = wk[w].req /\ r.pc \notin NetLabel
      BY <1>0 DEF Goto, WorkerState, NetLabel
    <2> HIDE DEF r
    <2>2. OffNet(w, r)
      BY <2>1 DEF OffNet
    <2> QED
      BY <2>2 DEF r
  <1>5. ASSUME NEW id PROVE OffNet(w, [CallDeletePod(w, id, "delete") EXCEPT !.pod = id])
    <2> DEFINE r == [CallDeletePod(w, id, "delete") EXCEPT !.pod = id]
    <2>1. r.req = wk[w].req /\ r.pc \notin NetLabel
      BY <1>0 DEF CallDeletePod, WorkerState, NetLabel
    <2> HIDE DEF r
    <2>2. OffNet(w, r)
      BY <2>1 DEF OffNet
    <2> QED
      BY <2>2 DEF r
  <1>6. ASSUME NEW id PROVE OffNet(w, [Goto(w, "listNext") EXCEPT !.dpod = id])
    <2> DEFINE r == [Goto(w, "listNext") EXCEPT !.dpod = id]
    <2>1. r.req = wk[w].req /\ r.pc \notin NetLabel
      BY <1>0 DEF Goto, WorkerState, NetLabel
    <2> HIDE DEF r
    <2>2. OffNet(w, r)
      BY <2>1 DEF OffNet
    <2> QED
      BY <2>2 DEF r
  <1>7. ASSUME NEW l PROVE OffNet(w, [Goto(w, "listNext") EXCEPT !.lst = l])
    <2> DEFINE r == [Goto(w, "listNext") EXCEPT !.lst = l]
    <2>1. r.req = wk[w].req /\ r.pc \notin NetLabel
      BY <1>0 DEF Goto, WorkerState, NetLabel
    <2> HIDE DEF r
    <2>2. OffNet(w, r)
      BY <2>1 DEF OffNet
    <2> QED
      BY <2>2 DEF r
  <1>8. ASSUME NEW id, NEW l PROVE OnReq(w, [Goto(w, l) EXCEPT !.ctr = id])
    <2> DEFINE r == [Goto(w, l) EXCEPT !.ctr = id]
    <2>1. r.req = wk[w].req
      BY <1>0 DEF Goto, WorkerState
    <2> HIDE DEF r
    <2>2. OnReq(w, r)
      BY <2>1 DEF OnReq
    <2> QED
      BY <2>2 DEF r
  <1>9. ASSUME NEW l PROVE OnReq(w, [wk[w] EXCEPT !.lst = l])
    <2> DEFINE r == [wk[w] EXCEPT !.lst = l]
    <2>1. r.req = wk[w].req
      BY <1>0 DEF WorkerState
    <2> HIDE DEF r
    <2>2. OnReq(w, r)
      BY <2>1 DEF OnReq
    <2> QED
      BY <2>2 DEF r
  <1>10. ASSUME NEW id, NEW l PROVE OnReq(w, [CallDeletePod(w, id, "list") EXCEPT !.lst = l])
    <2> DEFINE r == [CallDeletePod(w, id, "list") EXCEPT !.lst = l]
    <2>1. r.req = wk[w].req
      BY <1>0 DEF CallDeletePod, WorkerState
    <2> HIDE DEF r
    <2>2. OnReq(w, r)
      BY <2>1 DEF OnReq
    <2> QED
      BY <2>2 DEF r
  <1>11. ASSUME NEW id, NEW l PROVE OnReq(w, [Goto(w, "listRemove") EXCEPT !.dpod = id, !.lst = l])
    <2> DEFINE r == [Goto(w, "listRemove") EXCEPT !.dpod = id, !.lst = l]
    <2>1. r.req = wk[w].req
      BY <1>0 DEF Goto, WorkerState
    <2> HIDE DEF r
    <2>2. OnReq(w, r)
      BY <2>1 DEF OnReq
    <2> QED
      BY <2>2 DEF r
  <1> QED
    BY <1>1, <1>2, <1>3, <1>4, <1>5, <1>6, <1>7, <1>8, <1>9, <1>10, <1>11, Zenon

\* And for those without.
LEMMA PlainRecords ==
    ASSUME TypeOK, NEW w \in Worker
    PROVE  /\ OffNet(w, Goto(w, "lookupPrev"))
           /\ OffNet(w, Failed(w))
           /\ OffNet(w, Rollback(w, "fail"))
           /\ \A a : OffNet(w, Finish(w, "reply", a))
           /\ OnReq(w, Goto(w, "delRemove"))
           /\ OnReq(w, Returned(w, FALSE))
           /\ \A r : OffNet(w, r) => OnReq(w, r)
  <1>1. /\ OffNet(w, Goto(w, "lookupPrev"))
        /\ OffNet(w, Failed(w))
        /\ OffNet(w, Rollback(w, "fail"))
        /\ \A a : OffNet(w, Finish(w, "reply", a))
        /\ OnReq(w, Goto(w, "delRemove"))
    BY RecordFields DEF OffNet, OnReq, NetLabel
  <1>2. OnReq(w, Returned(w, FALSE))
    BY ReturnedFields, Zenon DEF OnReq
  <1>3. \A r : OffNet(w, r) => OnReq(w, r)
    BY DEF OffNet, OnReq
  <1> QED
    BY <1>1, <1>2, <1>3, Zenon

\* A step to a record is a step of one of the two kinds.
LEMMA StepKinds ==
    ASSUME NEW w
    PROVE  \A r : Step(w, r) /\ r.req = wk[w].req => Keeps(w) /\ (r.pc \notin NetLabel => Away(w))
  BY DEF Keeps, Away, OnReq, OffNet

\* Where the steps of EnsurePod lead.
LEMMA EnsureMoves ==
    ASSUME TypeOK, NEW w \in Worker, EnsurePod(w)
    PROVE  Away(w) \/ (NetAction(w) /\ Keeps(w))
  <1>1. CASE EnsureFindPod(w) \/ FindPause(w)
    <2>1. /\ \A id : OffNet(w, [Goto(w, "findPause") EXCEPT !.pod = id])
          /\ \A id : OffNet(w, [Goto(w, "inspect") EXCEPT !.ctr = id])
      BY ExceptRecords, Zenon
    <2>2. Away(w)
      BY <1>1, <2>1, PlainRecords, Zenon DEF EnsureFindPod, FindPause, Away
    <2> QED
      BY <2>2, SMTT(60)
  <1>2. CASE CreatePod(w)
    <2>1. \A id : OffNet(w, [Goto(w, "newPause") EXCEPT !.pod = id])
      BY ExceptRecords, Zenon
    <2>2. Away(w)
      BY <1>2, <2>1, PlainRecords, Zenon DEF CreatePod, Away
    <2> QED
      BY <2>2
  <1>3. CASE CreatePause(w)
    BY <1>3, PlainRecords, ExceptRecords, ZenonT(60) DEF CreatePause, NetAction, Keeps
  <1>4. CASE ConfigureNetwork(w)
    BY <1>4, RecordFields, StepKinds, SMTT(60) DEF ConfigureNetwork, NetLabel
  <1>5. CASE InspectPause(w) \/ RestartPause(w) \/ UnpausePause(w)
    BY <1>5, RecordFields, StepKinds, SMTT(60) DEF InspectPause, RestartPause, UnpausePause, NetLabel
  <1>6. CASE PrepareContainer(w) \/ CreateContainer(w)
    BY <1>6, RecordFields, StepKinds, SMTT(60) DEF PrepareContainer, CreateContainer, NetLabel
  <1>7. CASE StartContainer(w)
    BY <1>7, RecordFields, StepKinds, SMTT(60) DEF StartContainer, NetLabel
  <1>8. CASE WaitContainer(w) \/ CheckContainers(w)
    BY <1>8, RecordFields, StepKinds, SMTT(60) DEF WaitContainer, CheckContainers, NetLabel
  <1>9. CASE LookupPrev(w) \/ CheckAbbot(w)
    BY <1>9, RecordFields, StepKinds, SMTT(60) DEF LookupPrev, CheckAbbot, NetLabel
  <1>10. CASE StartPause(w) \/ CheckPause(w)
    BY <1>10, RecordFields, StepKinds, SMTT(60) DEF StartPause, CheckPause, NetAction
  <1> QED
    BY <1>1, <1>2, <1>3, <1>4, <1>5, <1>6, <1>7, <1>8, <1>9, <1>10 DEF EnsurePod

\* Where the steps of DeletePod and deletePod lead.
LEMMA DeleteMoves ==
    ASSUME TypeOK, NEW w \in Worker, DeletePod(w) \/ deletePod(w)
    PROVE  Away(w) \/ (NetAction(w) /\ Keeps(w))
  <1>1. CASE DeleteFindPod(w) /\ wk[w].req.ctrs = {}
    <2>1. \/ Step(w, Failed(w))
          \/ \E id : Step(w, [CallDeletePod(w, id, "delete") EXCEPT !.pod = id])
      BY <1>1, SMTT(60) DEF DeleteFindPod
    <2>2. \A id : OffNet(w, [CallDeletePod(w, id, "delete") EXCEPT !.pod = id])
      BY ExceptRecords, Zenon
    <2>3. Away(w)
      BY <2>1, <2>2, PlainRecords, Zenon DEF Away
    <2> QED
      BY <2>3
  <1>2. CASE DeleteFindPod(w) /\ wk[w].req.ctrs # {}
    <2>1. \/ Step(w, Failed(w))
          \/ \E id : Step(w, [Goto(w, "deleteFindPause") EXCEPT !.pod = id])
      BY <1>2, Zenon DEF DeleteFindPod
    <2>2. \A id : OffNet(w, [Goto(w, "deleteFindPause") EXCEPT !.pod = id])
      BY ExceptRecords, Zenon
    <2>3. Away(w)
      BY <2>1, <2>2, PlainRecords, Zenon DEF Away
    <2> QED
      BY <2>3
  <1>3. CASE DeleteFindPause(w) \/ DeleteListed(w)
    BY <1>3, RecordFields, StepKinds DEF DeleteFindPause, DeleteListed, NetLabel
  <1>4. CASE DelFind(w)
    BY <1>4, PlainRecords, ExceptRecords, ZenonT(60) DEF DelFind, NetAction, Keeps
  <1>5. CASE DelNetwork(w) \/ DelGuard(w)
    BY <1>5, PlainRecords, Zenon DEF DelNetwork, DelGuard, NetAction, Keeps
  <1>6. CASE DelRemove(w)
    BY <1>6, ReturnedFields, StepKinds, Zenon DEF DelRemove
  <1> QED
    BY <1>1, <1>2, <1>3, <1>4, <1>5, <1>6 DEF DeletePod, deletePod

\* Where the steps of ListPods lead.
LEMMA ListMoves ==
    ASSUME TypeOK, NEW w \in Worker, ListPods(w)
    PROVE  Away(w) \/ (NetAction(w) /\ Keeps(w))
  <1>1. CASE ListFind(w) \/ ListRemove(w)
    <2>1. /\ \A id : OffNet(w, [Goto(w, "listNext") EXCEPT !.dpod = id])
          /\ \A l : OffNet(w, [Goto(w, "listNext") EXCEPT !.lst = l])
      BY ExceptRecords, Zenon
    <2>2. Away(w)
      BY <1>1, <2>1, PlainRecords, Zenon DEF ListFind, ListRemove, Away
    <2> QED
      BY <2>2
  <1>2. CASE ListNext(w)
    BY <1>2, PlainRecords, ExceptRecords, ZenonT(60) DEF ListNext, NetAction, Keeps
  <1> QED
    BY <1>1, <1>2 DEF ListPods

\* A step leaves a worker alone, ends its command, or goes on with it; a new
\* request appears only with Accept.
LEMMA WorkerMoves ==
    ASSUME TypeOK, [Next]_vars, NEW v \in Worker
    PROVE  \/ wk'[v] = wk[v]
           \/ wk'[v] = Idle
           \/ Accept(v)
           \/ /\ Busy(v) /\ wk'[v].req = wk[v].req
              /\ wk'[v].pc \in NetLabel => NetAction(v)
  <1> DEFINE Goal == \/ wk'[v] = wk[v]
                     \/ wk'[v] = Idle
                     \/ Accept(v)
                     \/ /\ Busy(v) /\ wk'[v].req = wk[v].req
                        /\ wk'[v].pc \in NetLabel => NetAction(v)
  <1>0. wk \in [Worker -> WorkerState]
    BY DEF TypeOK
  <1>a. ASSUME NEW w \in Worker, NEW r, Step(w, r)
        PROVE  wk'[w] = r /\ (w # v => wk'[v] = wk[v])
    BY <1>0, <1>a DEF Step
  <1>b. ASSUME NEW w \in Worker, Busy(w), Away(w) \/ (NetAction(w) /\ Keeps(w))
        PROVE  Goal
    BY <1>a, <1>b DEF Away, Keeps, OnReq, OffNet
  <1>1. ASSUME NEW w \in Worker, Accept(w) PROVE Goal
    <2>1. PICK r : Step(w, r)
      BY <1>1 DEF Accept
    <2> QED
      BY <1>1, <1>a, <2>1
  <1>2. ASSUME NEW w \in Worker, EnsurePod(w) PROVE Goal
    <2>1. Busy(w)
      BY <1>2, Zenon DEF Busy, EnsurePod, EnsureFindPod, FindPause, LookupPrev, CheckAbbot, CreatePod,
           CreatePause, StartPause, CheckPause, ConfigureNetwork, InspectPause, RestartPause,
           UnpausePause, PrepareContainer, CreateContainer, StartContainer, WaitContainer,
           CheckContainers
    <2> QED
      BY <1>2, <1>b, <2>1, EnsureMoves, SMTT(60)
  <1>3. ASSUME NEW w \in Worker, DeletePod(w) \/ deletePod(w) PROVE Goal
    <2>1. Busy(w)
      BY <1>3, ZenonT(60) DEF Busy, DeletePod, deletePod, DeleteFindPod, DeleteFindPause, DeleteListed,
           DelFind, DelNetwork, DelGuard, DelRemove
    <2> QED
      BY <1>3, <1>b, <2>1, DeleteMoves, SMTT(60)
  <1>4. ASSUME NEW w \in Worker, ListPods(w) PROVE Goal
    <2>1. Busy(w)
      BY <1>4, ZenonT(60) DEF Busy, ListPods, ListFind, ListNext, ListRemove
    <2> QED
      BY <1>4, <1>b, <2>1, ListMoves
  <1>5. ASSUME NEW w \in Worker, Cleanup(w) PROVE Goal
    <2>1. CASE wk' = [u \in Worker |-> Idle]
      BY <2>1
    <2>2. CASE Step(w, Goto(w, "reply"))
      <3>1. Busy(w) /\ Away(w)
        BY <1>5, <2>2, RecordFields, StepKinds, SMTT(60) DEF Cleanup, Busy, NetLabel
      <3> QED
        BY <1>b, <3>1, SMTT(60) DEF Goal
    <2> QED
      BY <1>5, <2>1, <2>2 DEF Cleanup, Step
  <1>6. ASSUME NEW w \in Worker, Reply(w) PROVE Goal
    BY <1>6, <1>a DEF Reply
  <1>7. CASE Engine
    BY <1>7 DEF Engine
  <1>8. CASE Crash
    BY <1>8 DEF Crash
  <1>9. CASE UNCHANGED vars
    BY <1>9 DEF vars
  <1> QED
    BY <1>1, <1>2, <1>3, <1>4, <1>5, <1>6, <1>7, <1>8, <1>9, SMTT(60) DEF Next, Handle
-----------------------------------------------------------------------------
(***************************************************************************)
(* What a step does to networks, pause containers and labels.              *)
(***************************************************************************)
\* Conflicting commands stay apart.
LEMMA NoConflictStep ==
    ASSUME OneAtATime, TypeOK, NoConflict, [Next]_vars
    PROVE  NoConflict'
  <1>0. wk \in [Worker -> WorkerState] /\ Idle.pc = "idle"
    BY DEF TypeOK, Idle
  <1>1. CASE \A v, w \in Worker : v = w
    BY <1>1 DEF NoConflict
  <1>2. CASE Exclusive
    <2>1. ASSUME NEW v \in Worker, Accept(v)
          PROVE  \A w \in Worker : w # v /\ Busy(w) => ~Conflict(wk'[v].req, wk[w].req)
      <3>1. PICK r \in Requests :
                /\ \A w \in Worker : wk[w].pc # "idle" => ~Conflict(r, wk[w].req)
                /\ Step(v, [Idle EXCEPT !.req = r, !.pc = Entry(r.op)])
        BY <1>2, <2>1, Zenon DEF Accept
      <3>2. [Idle EXCEPT !.req = r, !.pc = Entry(r.op)].req = r
        BY DEF Idle
      <3>3. wk'[v].req = r
        BY <1>0, <3>1, <3>2 DEF Step
      <3> QED
        BY <3>1, <3>3, SMTT(60) DEF Busy
    <2>2. ASSUME NEW v \in Worker, Accept(v), NEW w \in Worker, w # v
          PROVE  wk'[w] = wk[w]
      BY <1>0, <2>2 DEF Accept, Step
    <2>3. ASSUME NEW v \in Worker, Busy(v)', ~Accept(v)
          PROVE  Busy(v) /\ wk'[v].req = wk[v].req
      BY <1>0, <2>3, WorkerMoves DEF Busy
    <2>4. \A r, s : Conflict(r, s) <=> Conflict(s, r)
      BY DEF Conflict
    <2> SUFFICES ASSUME NEW v \in Worker, NEW w \in Worker, v # w, Busy(v)', Busy(w)'
                 PROVE  ~Conflict(wk'[v].req, wk'[w].req)
      BY DEF NoConflict
    <2>5. CASE Accept(v)
      BY <2>1, <2>2, <2>5 DEF Busy
    <2>6. CASE Accept(w)
      BY <2>1, <2>2, <2>4, <2>6 DEF Busy
    <2>7. CASE ~Accept(v) /\ ~Accept(w)
      BY <2>3, <2>7 DEF NoConflict
    <2> QED
      BY <2>5, <2>6, <2>7
  <1> QED
    BY <1>1, <1>2 DEF OneAtATime

\* Only ConfigureNetwork sets a network up, and for a pause container that
\* runs.
LEMMA NetworkSetUp ==
    ASSUME TypeOK, [Next]_vars, NEW id \in PodID, net[id] = "none", net'[id] # "none"
    PROVE  \E w \in Worker : ConfigureNetwork(w) /\ wk[w].ctr = id /\ ~Exited(id, Pause)
  <1> DEFINE Kept == net'[id] = "none"
             Up == \E w \in Worker : ConfigureNetwork(w) /\ wk[w].ctr = id /\ ~Exited(id, Pause)
  <1>0. net \in [PodID -> {"none", "maybe", "up"}]
    BY DEF TypeOK
  <1>1. UNCHANGED net => Kept
    OBVIOUS
  <1>2. ASSUME NEW w \in Worker, ConfigureNetwork(w) PROVE Kept \/ Up
    <2>1. CASE wk[w].ctr = id /\ ~Exited(id, Pause)
      BY <1>2, <2>1, SMTT(60)
    <2>2. CASE wk[w].ctr # id \/ Exited(id, Pause)
      BY <1>0, <1>2, <2>2, SMTT(60) DEF ConfigureNetwork, MaybeConfigured
    <2> QED
      BY <2>1, <2>2
  <1>3. ASSUME NEW w \in Worker, DelNetwork(w) PROVE Kept
    BY <1>0, <1>3, ZenonT(60) DEF DelNetwork, MaybeReleased
  <1>4. ASSUME NEW w \in Worker, EnsurePod(w) PROVE Kept \/ ConfigureNetwork(w)
    BY <1>1, <1>4, Zenon
    DEF EnsurePod, EnsureFindPod, FindPause, LookupPrev, CheckAbbot, CreatePod,
        CreatePause, StartPause, CheckPause, InspectPause, RestartPause,
        UnpausePause, PrepareContainer, CreateContainer, StartContainer, WaitContainer,
        CheckContainers
  <1>5. ASSUME NEW w \in Worker, DeletePod(w) \/ deletePod(w) \/ ListPods(w)
        PROVE  Kept \/ DelNetwork(w)
    BY <1>1, <1>5, ZenonT(60)
    DEF DeletePod, DeleteFindPod, DeleteFindPause, DeleteListed, deletePod, DelFind,
        DelGuard, DelRemove, ListPods, ListFind, ListNext, ListRemove
  <1>6. ASSUME NEW w \in Worker, Accept(w) \/ Cleanup(w) \/ Reply(w) PROVE Kept
    BY <1>1, <1>6, Zenon DEF Accept, Cleanup, Reply
  <1>7. Crash \/ Engine \/ UNCHANGED vars => Kept
    BY <1>1 DEF Crash, Engine, vars
  <1> HIDE DEF Kept, Up
  <1>8. Kept \/ Up
    BY <1>2, <1>3, <1>4, <1>5, <1>6, <1>7 DEF Next, Handle
  <1> QED
    BY <1>8 DEF Kept, Up

\* Only a RemovePod call, whole or in part, takes a pause container away.
LEMMA PauseRemoved ==
    ASSUME TypeOK, [Next]_vars, NEW id \in PodID, Exists(id, Pause), ~Exists(id, Pause)'
    PROVE  \E w \in Worker : (DelRemove(w) \/ ListRemove(w)) /\ wk[w].dpod = id
  <1> DEFINE Kept == Exists(id, Pause)'
             Removed == \E w \in Worker : (DelRemove(w) \/ ListRemove(w)) /\ wk[w].dpod = id
  <1>0. /\ ctrs \in [PodID -> [Ctr -> CtrState]] /\ Pause \in Ctr
        /\ id \in pods /\ ctrs[id][Pause] # "none"
    BY LibpodAssumption DEF TypeOK, LibpodTypeOK, Exists, Pause, Ctr
  <1>1. UNCHANGED libpodVars => Kept
    BY <1>0 DEF libpodVars, Exists
  <1>2. \A x, c, s : /\ pods' = pods
                     /\ ctrs' = [ctrs EXCEPT ![x][c] = s]
                     /\ s # "none"
                     => Kept
    BY <1>0 DEF Exists
  <1>3. \A x, c, dep : NewContainer(x, c, dep) => Kept
    BY <1>2, ZenonT(60) DEF NewContainer
  <1>4. \A x, c : Start(x, c) \/ Unpause(x, c) \/ ContainerExits(x, c) \/ ContainerPaused(x, c)
                  => Kept
    BY <1>2 DEF Start, Unpause, ContainerExits, ContainerPaused
  <1>5. \A x, c : StartAll(x, c) => Kept
    BY <1>0 DEF StartAll, Exists
  <1>6. \A x, u : NewPod(x, u) \/ ForeignPodCreated(x) => Kept
    BY <1>0 DEF NewPod, ForeignPodCreated, Exists
  <1>7. AbbotExecOK \/ AbbotExecFails => Kept
    <2> HIDE DEF Kept
    <2> QED
      BY <1>1, <1>5 DEF AbbotExecOK, AbbotExecFails
  <1>8. ASSUME NEW w \in Worker, EnsurePod(w) PROVE Kept
    <2> HIDE DEF Kept
    <2> QED
      BY <1>1, <1>3, <1>4, <1>5, <1>6, <1>7, <1>8, Zenon
      DEF EnsurePod, EnsureFindPod, FindPause, LookupPrev, CheckAbbot, CreatePod,
          CreatePause, StartPause, CheckPause, ConfigureNetwork, InspectPause, RestartPause,
          UnpausePause, PrepareContainer, CreateContainer, StartContainer, WaitContainer,
          CheckContainers
  <1>9. ASSUME NEW w \in Worker, DelRemove(w) \/ ListRemove(w) PROVE Kept \/ Removed
    <2>1. CASE wk[w].dpod = id
      BY <1>9, <2>1, SMTT(60)
    <2>2. CASE wk[w].dpod # id
      BY <1>0, <1>9, <2>2, ZenonT(60) DEF DelRemove, ListRemove, RemovePod, RemoveFails, RemovePodContainers,
           libpodVars, Exists
    <2> QED
      BY <2>1, <2>2
  <1>10. ASSUME NEW w \in Worker, DeletePod(w) \/ deletePod(w) \/ ListPods(w)
         PROVE  Kept \/ DelRemove(w) \/ ListRemove(w)
    <2> HIDE DEF Kept
    <2> QED
      BY <1>1, <1>7, <1>10, Zenon
      DEF DeletePod, DeleteFindPod, DeleteFindPause, DeleteListed, deletePod, DelFind, DelNetwork,
          DelGuard, ListPods, ListFind, ListNext, Queried
  <1>11. ASSUME NEW w \in Worker, Accept(w) \/ Cleanup(w) \/ Reply(w) PROVE Kept
    BY <1>1, <1>11, Zenon DEF Accept, Cleanup, Reply
  <1>12. Crash \/ UNCHANGED vars => Kept
    BY <1>1 DEF Crash, vars, libpodVars
  <1> HIDE DEF Kept, Removed
  <1>13. Engine => Kept
    BY <1>4, <1>6 DEF Engine, ContainerRestarts
  <1>14. Kept \/ Removed
    BY <1>8, <1>9, <1>10, <1>11, <1>12, <1>13, SMTT(60) DEF Next, Handle
  <1> QED
    BY <1>14 DEF Kept, Removed

\* A pod a worker holds, or that is in libpod, keeps its labels, and a pod that
\* is gone does not come back while a worker holds it.
LEMMA LabelsStable ==
    ASSUME TypeOK, [Next]_vars, NEW id \in PodID \ FreshID
    PROVE  labels'[id] = labels[id] /\ (id \in pods' => id \in pods)
  <1>0. labels \in [PodID -> PodUID \cup {NoUID}]
    BY DEF TypeOK, LibpodTypeOK
  <1> QED
    BY <1>0, PodsStep DEF NewPod, ForeignPodCreated
-----------------------------------------------------------------------------
(***************************************************************************)
(* The invariant is inductive.                                             *)
(***************************************************************************)
\* Nothing is required of a worker elsewhere.
LEMMA OffNetStep ==
    ASSUME NEW s, s.pc \notin NetLabel, NEW ps, NEW lab, NEW nw
    PROVE  NetStep(s, ps, lab, nw)
  BY DEF NetStep, NetLabel

\* A pod without a pause container on the cluster network has no network.
LEMMA NoNetwork ==
    ASSUME TypeOK, NetworkHasPause, NEW id \in PodID,
           \/ id \notin pods
           \/ labels[id] = NoUID
           \/ labels[id] \in HostNetwork
           \/ ContainersOf(labels[id], Pause) = {}
    PROVE  net[id] = "none"
  BY DEF NetworkHasPause, Exists, ContainersOf, PodsWithUID

\* createPauseContainer configures the network of the pod it has created.
LEMMA EnsureNetStep ==
    ASSUME TypeOK, NEW w \in Worker, NetStep(wk[w], pods, labels, net),
           CreatePause(w) \/ StartPause(w) \/ CheckPause(w),
           NEW ps, NEW lab, NEW nw
    PROVE  NetStep(wk'[w], ps, lab, nw)
  <1> DEFINE S == wk[w]
  <1>0. wk \in [Worker -> WorkerState] /\ S \in WorkerState
    BY DEF TypeOK
  <1>a. ASSUME NEW r, Step(w, r) PROVE wk'[w] = r
    BY <1>0, <1>a, SMTT(60) DEF Step
  <1>b. \A ret : Rollback(w, ret).pc = "delFind"
    BY RecordFields, SMTT(60)
  <1>c. ASSUME NEW r, r.pc \in {"startPause", "checkPause"}, r.ctr = r.pod
        PROVE  NetStep(r, ps, lab, nw)
    BY <1>c, SMTT(60) DEF NetStep
  <1>1. CASE CreatePause(w)
    <2> DEFINE r == [Goto(w, "startPause") EXCEPT !.ctr = S.pod]
    <2>1. r.pc = "startPause" /\ r.ctr = r.pod
      BY <1>0 DEF Goto, WorkerState
    <2>2. Step(w, r) \/ Step(w, Rollback(w, "fail"))
      BY <1>1 DEF CreatePause
    <2> HIDE DEF r
    <2>3. wk'[w] = r \/ wk'[w] = Rollback(w, "fail")
      BY <1>a, <2>2
    <2>4. CASE wk'[w] = r
      BY <1>c, <2>1, <2>4, SMTT(60)
    <2>5. CASE wk'[w] = Rollback(w, "fail")
      BY <1>b, <2>5, OffNetStep DEF NetLabel
    <2> QED
      BY <2>3, <2>4, <2>5
  <1>2. CASE StartPause(w)
    <2> DEFINE r == Goto(w, "checkPause")
    <2>1. r.pc = "checkPause" /\ r.ctr = r.pod
      BY <1>0, <1>2, SMTT(60) DEF Goto, WorkerState, StartPause, NetStep
    <2>2. wk'[w] = r \/ wk'[w] = Rollback(w, "unwind")
      BY <1>a, <1>2, SMTT(60) DEF StartPause
    <2> HIDE DEF r
    <2>3. CASE wk'[w] = r
      BY <1>c, <2>1, <2>3
    <2>4. CASE wk'[w] = Rollback(w, "unwind")
      BY <1>b, <2>4, OffNetStep DEF NetLabel
    <2> QED
      BY <2>2, <2>3, <2>4
  <1>3. CASE CheckPause(w)
    <2> DEFINE l == IF S.req.uid \in HostNetwork THEN "inspect" ELSE "netDo"
               r == Goto(w, l)
    <2>1. r.pc = l /\ r.ctr = r.pod /\ r.req = S.req
      BY <1>0, <1>3, SMTT(60) DEF Goto, WorkerState, CheckPause, NetStep
    <2>2. wk'[w] = r \/ wk'[w] = Rollback(w, "unwind")
      BY <1>a, <1>3, SMTT(60) DEF CheckPause
    <2> HIDE DEF r
    <2>3. CASE wk'[w] = r
      BY <2>1, <2>3, SMTT(60) DEF NetStep
    <2>4. CASE wk'[w] = Rollback(w, "unwind")
      BY <1>b, <2>4, OffNetStep DEF NetLabel
    <2> QED
      BY <2>2, <2>3, <2>4
  <1> QED
    BY <1>1, <1>2, <1>3

\* deletePod comes to RemovePod only when the pod has no network (any more).
LEMMA DeleteNetStep ==
    ASSUME Inv, NetworkHasPause, NEW w \in Worker, NetStep(wk[w], pods, labels, net),
           DelFind(w) \/ DelNetwork(w) \/ DelGuard(w)
    PROVE  NetStep(wk'[w], pods', labels', net')
  <1> DEFINE S == wk[w]
  <1>0. /\ TypeOK /\ wk \in [Worker -> WorkerState] /\ S \in WorkerState
        /\ net \in [PodID -> {"none", "maybe", "up"}]
    BY SMTT(60) DEF Inv, TypeOK
  <1>1. S.dpod \in PodID
    BY Zenon DEF Inv, HandlesOK, Handles, DeletePodLabel, DelFind, DelNetwork, DelGuard
  <1>a. ASSUME NEW r, Step(w, r) PROVE wk'[w] = r
    BY <1>0, <1>a DEF Step
  <1>b. Returned(w, FALSE).pc \notin NetLabel
    BY <1>0, ReturnedFields, Zenon
  <1>c. CASE wk'[w] = Returned(w, FALSE)
    BY <1>b, <1>c, OffNetStep, ZenonT(60)
  <1>d. Goto(w, "delRemove").pc = "delRemove" /\ Goto(w, "delRemove").dpod = S.dpod
    BY <1>0 DEF Goto, WorkerState
  <1>e. CASE wk'[w] = Goto(w, "delRemove") /\ net'[S.dpod] = "none"
    BY <1>d, <1>e DEF NetStep
  <1>2. CASE DelFind(w)
    <2> DEFINE uid == labels[S.dpod]
               next == IF uid \notin HostNetwork THEN "delNetwork"
                       ELSE IF uid \in AbbotPod THEN "delGuard" ELSE "delRemove"
    <2>1. UNCHANGED <<pods, labels, net>>
      BY <1>2, SMTT(60) DEF DelFind, libpodVars
    <2>2. CASE uid = NoUID /\ Step(w, Goto(w, "delRemove"))
      BY <1>0, <1>1, <1>a, <1>e, <2>1, <2>2, NoNetwork, SMTT(60)
    <2>3. CASE Step(w, Returned(w, FALSE))
      BY <1>a, <1>c, <2>3, ZenonT(60)
    <2>4. ASSUME uid # NoUID, NEW id \in ContainersOf(uid, Pause),
                 Step(w, [Goto(w, next) EXCEPT !.ctr = id])
          PROVE  NetStep(wk'[w], pods', labels', net')
      <3> DEFINE r == [Goto(w, next) EXCEPT !.ctr = id]
      <3>1. r.pc = next /\ r.ctr = id /\ r.dpod = S.dpod
        BY <1>0, <2>4, LookupTypes DEF Goto, WorkerState
      <3>2. wk'[w] = r
        BY <1>a, <2>4
      <3> HIDE DEF r
      <3>3. S.dpod \in pods => id = S.dpod
        BY <2>4 DEF Inv, NamesUnique, ContainersOf, PodsWithUID
      <3>4. uid \in HostNetwork => net[S.dpod] = "none"
        BY <1>0, <1>1, NoNetwork
      <3> QED
        BY <2>1, <3>1, <3>2, <3>3, <3>4 DEF NetStep
    <2> QED
      BY <1>2, <2>2, <2>3, <2>4, Zenon DEF DelFind
  <1>3. CASE DelNetwork(w)
    <2>1. CASE net' = [net EXCEPT ![S.ctr] = "none"] /\ Step(w, Goto(w, "delRemove"))
      <3>1. S.dpod \in pods => S.ctr = S.dpod
        BY <1>3 DEF DelNetwork, NetStep
      <3>2. S.dpod \notin pods => net[S.dpod] = "none"
        BY <1>0, <1>1, NoNetwork
      <3>3. net'[S.dpod] = "none"
        BY <1>0, <1>1, <2>1, <3>1, <3>2, SMTT(60)
      <3> QED
        BY <1>a, <1>e, <2>1, <3>3
    <2>2. CASE Step(w, Returned(w, FALSE))
      BY <1>a, <1>c, <2>2, Zenon
    <2> QED
      BY <1>3, <2>1, <2>2, ZenonT(60) DEF DelNetwork
  <1>4. CASE DelGuard(w)
    <2>1. net' = net /\ net[S.dpod] = "none"
      BY <1>0, <1>1, <1>4, NoNetwork DEF DelGuard, NetStep
    <2> QED
      BY <1>4, <1>a, <1>c, <1>e, <2>1, ZenonT(60) DEF DelGuard
  <1> QED
    BY <1>2, <1>3, <1>4

\* While libpod's database can be read, ListPods removes at once only pods
\* whose pause container is not there.
LEMMA ListNetStep ==
    ASSUME Inv, NetworkHasPause, "lookup" \notin Faults, NEW w \in Worker, ListNext(w),
           NEW ps, NEW lab
    PROVE  NetStep(wk'[w], ps, lab, net')
  <1> DEFINE S == wk[w]
  <1>0. /\ TypeOK /\ wk \in [Worker -> WorkerState] /\ S \in WorkerState
        /\ net' = net /\ S.pc = "listNext"
    BY Zenon DEF Inv, TypeOK, ListNext
  <1>a. ASSUME NEW r, Step(w, r) PROVE wk'[w] = r
    BY <1>0, <1>a, SMTT(60) DEF Step
  <1>b. ASSUME NEW a, Step(w, Finish(w, "reply", a)) PROVE NetStep(wk'[w], ps, lab, net')
    <2>1. wk'[w] = Finish(w, "reply", a)
      BY <1>a, <1>b, SMTT(60)
    <2>2. Finish(w, "reply", a).pc = "reply"
      BY <1>0, RecordFields
    <2> QED
      BY <2>1, <2>2, OffNetStep DEF NetLabel
  <1>1. CASE S.lst = {} /\ Step(w, Finish(w, "reply", "ok"))
    BY <1>b, <1>1
  <1>2. ASSUME NEW id \in S.lst, Step(w, [CallDeletePod(w, id, "list") EXCEPT !.lst = S.lst \ {id}])
        PROVE  NetStep(wk'[w], ps, lab, net')
    <2> DEFINE r == [CallDeletePod(w, id, "list") EXCEPT !.lst = S.lst \ {id}]
    <2>1. r.pc = "delFind"
      BY <1>0 DEF CallDeletePod, WorkerState
    <2>2. wk'[w] = r
      BY <1>a, <1>2, SMTT(60)
    <2> HIDE DEF r
    <2> QED
      BY <2>1, <2>2, OffNetStep DEF NetLabel
  <1>3. ASSUME NEW id \in S.lst, ContainersOf(labels[id], Pause) = {},
               Step(w, [Goto(w, "listRemove") EXCEPT !.dpod = id, !.lst = S.lst \ {id}])
        PROVE  NetStep(wk'[w], ps, lab, net')
    <2> DEFINE r == [Goto(w, "listRemove") EXCEPT !.dpod = id, !.lst = S.lst \ {id}]
    <2>1. r.pc = "listRemove" /\ r.dpod = id /\ id \in PodID
      BY <1>0 DEF Goto, WorkerState
    <2>2. wk'[w] = r
      BY <1>a, <1>3
    <2> HIDE DEF r
    <2>3. net[id] = "none"
      BY <1>0, <1>3, <2>1, NoNetwork, SMTT(60)
    <2> QED
      BY <1>0, <2>1, <2>2, <2>3 DEF NetStep
  <1>4. ASSUME NEW id \in S.lst, Step(w, [S EXCEPT !.lst = S.lst \ {id}])
        PROVE  NetStep(wk'[w], ps, lab, net')
    <2> DEFINE r == [S EXCEPT !.lst = S.lst \ {id}]
    <2>1. r.pc = "listNext"
      BY <1>0 DEF WorkerState
    <2>2. wk'[w] = r
      BY <1>a, <1>4, SMTT(60)
    <2> HIDE DEF r
    <2> QED
      BY <2>1, <2>2, OffNetStep DEF NetLabel
  <1> QED
    BY <1>b, <1>1, <1>2, <1>3, <1>4, Zenon DEF ListNext, Fault

\* Two workers that hold pods of one name conflict: no network is configured
\* for a pod another worker is about to remove.
LEMMA NetworkNotStolen ==
    ASSUME Inv, NoConflict, NetStepOK, NEW v \in Worker, NEW w \in Worker,
           wk[v].pc \in {"delRemove", "listRemove"},
           ConfigureNetwork(w), wk[w].ctr = wk[v].dpod, ~Exited(wk[w].ctr, Pause)
    PROVE  FALSE
  <1>1. wk[w].pc = "netDo" /\ v # w /\ Busy(v) /\ Busy(w)
    BY SMTT(60) DEF ConfigureNetwork, Busy
  <1>2. ~Conflict(wk[v].req, wk[w].req)
    BY <1>1 DEF NoConflict
  <1>3. wk[v].req.op # "list" /\ wk[v].pc # "listRemove"
    BY <1>2, SMTT(60) DEF Conflict, Inv, ControlOK, Control, ListLabel
  <1>4. PodName[labels[wk[v].dpod]] = PodName[wk[v].req.uid]
    BY <1>3, SMTT(60) DEF Inv, HandlesOK, Handles, SameName, DeletePodLabel
  <1>5. wk[w].ctr = wk[w].pod
    BY <1>1, SMTT(60) DEF NetStepOK, NetStep
  <1>6. wk[w].pod \in PodID /\ wk[w].req.op = "ensure"
    BY <1>1, SMTT(60) DEF Inv, HandlesOK, Handles, ControlOK, Control, PodLabel, PodlessLabel, EnsureLabel
  <1>7. labels[wk[w].pod] = wk[w].req.uid
    BY <1>6, SMTT(60) DEF Inv, HandlesOK, Handles
  <1> QED
    BY <1>2, <1>4, <1>5, <1>7, SMTT(60) DEF Conflict

\* What the workers know of networks stays true.
LEMMA NetStepStep ==
    ASSUME NetInv, "lookup" \notin Faults, [Next]_vars
    PROVE  NetStepOK'
  <1>0. TypeOK /\ wk \in [Worker -> WorkerState] /\ net \in [PodID -> {"none", "maybe", "up"}]
    BY SMTT(60) DEF NetInv, Inv, TypeOK
  <1> USE DEF NetInv
  <1> SUFFICES ASSUME NEW v \in Worker PROVE NetStep(wk'[v], pods', labels', net')
    BY SMTT(60) DEF NetStepOK
  <1>1. CASE wk'[v] = wk[v] /\ wk[v].pc \in NetLabel
    <2> DEFINE S == wk[v]
    <2>1. NetStep(S, pods, labels, net)
      BY SMTT(60) DEF NetStepOK
    <2>2. S.pc \in {"delNetwork", "delGuard", "delRemove", "listRemove"} => S.dpod \in PodID
      BY DEF Inv, HandlesOK, Handles, DeletePodLabel
    <2>3. S.dpod \notin FreshID
      BY DEF FreshID, Held
    <2>4. S.dpod \in PodID => labels'[S.dpod] = labels[S.dpod] /\ (S.dpod \in pods' => S.dpod \in pods)
      BY <1>0, <2>3, LabelsStable, SMTT(60)
    <2>5. S.pc \in {"delRemove", "listRemove"} => net'[S.dpod] = "none"
      <3> SUFFICES ASSUME S.pc \in {"delRemove", "listRemove"}, net'[S.dpod] # "none" PROVE FALSE
        BY SMTT(60)
      <3>1. S.dpod \in PodID /\ net[S.dpod] = "none"
        BY <2>1, <2>2, SMTT(60) DEF NetStep
      <3>2. PICK w \in Worker : ConfigureNetwork(w) /\ wk[w].ctr = S.dpod /\ ~Exited(S.dpod, Pause)
        BY <1>0, <3>1, NetworkSetUp
      <3> QED
        BY <3>2, NetworkNotStolen
    <2> QED
      BY <1>1, <2>1, <2>2, <2>4, <2>5 DEF NetStep
  <1>2. CASE wk'[v].pc \notin NetLabel
    BY <1>2, OffNetStep, SMTT(60)
  <1>3. CASE NetAction(v)
    BY <1>0, <1>3, EnsureNetStep, DeleteNetStep, ListNetStep, SMTT(60) DEF NetAction, NetStepOK
  <1>4. CASE Accept(v)
    <2>1. PICK r \in Requests : Step(v, [Idle EXCEPT !.req = r, !.pc = Entry(r.op)])
      BY <1>4, Zenon DEF Accept
    <2>2. [Idle EXCEPT !.req = r, !.pc = Entry(r.op)].pc = Entry(r.op)
      BY DEF Idle
    <2>3. wk'[v].pc = Entry(r.op)
      BY <1>0, <2>1, <2>2 DEF Step
    <2>4. r.op \in {"ensure", "delete", "list"}
      BY RuntimeAssumption DEF Request
    <2>5. Entry(r.op) \notin NetLabel
      BY <2>4, SMTT(60) DEF Entry, NetLabel
    <2> QED
      BY <1>2, <2>3, <2>5, SMTT(60)
  <1>5. Idle.pc \notin NetLabel
    BY DEF Idle, NetLabel
  <1> QED
    BY <1>0, <1>1, <1>2, <1>3, <1>4, <1>5, WorkerMoves, SMTT(60)

\* A network keeps its pause container, its pod and its label.
LEMMA NetworkStep ==
    ASSUME NetInv, [Next]_vars
    PROVE  NetworkHasPause'
  <1> USE DEF NetInv
  <1>0. TypeOK
    BY DEF Inv
  <1> SUFFICES ASSUME NEW id \in PodID, net'[id] # "none"
               PROVE  Exists(id, Pause)' /\ labels'[id] # NoUID /\ labels'[id] \notin HostNetwork
    BY DEF NetworkHasPause
  <1>1. Exists(id, Pause) /\ labels[id] # NoUID /\ labels[id] \notin HostNetwork
    <2>1. CASE net[id] # "none"
      BY <2>1, SMTT(60) DEF NetworkHasPause
    <2>2. CASE net[id] = "none"
      <3>1. PICK w \in Worker : ConfigureNetwork(w) /\ wk[w].ctr = id /\ ~Exited(id, Pause)
        BY <1>0, <2>2, NetworkSetUp, SMTT(60)
      <3>2. wk[w].pc = "netDo" /\ Exists(id, Pause)
        BY <3>1, SMTT(60) DEF ConfigureNetwork, Exited
      <3>3. wk[w].pod = id /\ wk[w].req.uid \notin HostNetwork
        BY <3>1, <3>2 DEF NetStepOK, NetStep
      <3>4. wk[w].req.op = "ensure" /\ wk[w].req.uid \in PodUID
        BY <3>2, SMTT(60) DEF Inv, ControlOK, Control, EnsureLabel
      <3>5. labels[id] = wk[w].req.uid
        BY <3>3, <3>4, SMTT(60) DEF Inv, HandlesOK, Handles
      <3> QED
        BY <3>2, <3>3, <3>4, <3>5, LibpodAssumption, SMTT(60)
    <2> QED
      BY <2>1, <2>2, SMTT(60)
  <1>2. labels'[id] = labels[id]
    BY <1>0, <1>1, LabelsStable, SMTT(60) DEF FreshID, Exists
  <1>3. Exists(id, Pause)'
    <2> SUFFICES ASSUME ~Exists(id, Pause)' PROVE FALSE
      OBVIOUS
    <2>1. PICK w \in Worker : (DelRemove(w) \/ ListRemove(w)) /\ wk[w].dpod = id
      BY <1>0, <1>1, PauseRemoved
    <2>2. wk[w].pc \in {"delRemove", "listRemove"} /\ net' = net
      BY <2>1, ZenonT(60) DEF DelRemove, ListRemove
    <2> QED
      BY <2>1, <2>2 DEF NetStepOK, NetStep
  <1> QED
    BY <1>1, <1>2, <1>3

LEMMA NetInvInit == Init => NetInv
  <1> SUFFICES ASSUME Init PROVE NetInv
    OBVIOUS
  <1>1. \A w \in Worker : wk[w].pc = "idle"
    BY DEF Init, Idle
  <1>2. NoConflict
    BY <1>1 DEF NoConflict, Busy
  <1>3. NetworkHasPause
    BY DEF Init, NetworkHasPause
  <1>4. NetStepOK
    BY <1>1, OffNetStep DEF NetStepOK, NetLabel
  <1> QED
    BY <1>2, <1>3, <1>4, InvInit DEF NetInv

\* For any number of workers that are not sent conflicting commands at once,
\* and for one worker whatever it is sent: a pod leaves libpod only once abbot
\* has confirmed that its network is gone, although any call but the reads of
\* libpod's database may fail, half done or done, and the process may die
\* between any two calls.
THEOREM NetworksReleased ==
    ASSUME OneAtATime, "lookup" \notin Faults
    PROVE  Spec => []NetworkReleased
  <1>1. NetInv /\ [Next]_vars => NetInv'
    BY InvStep, NoConflictStep, NetworkStep, NetStepStep DEF NetInv, Inv
  <1>2. NetInv => NetworkReleased
    BY DEF NetInv, NetworkHasPause, NetworkReleased, Exists
  <1> QED
    BY <1>1, <1>2, NetInvInit, PTL DEF Spec
-----------------------------------------------------------------------------
(***************************************************************************)
(* Where a step takes its worker: the handlers' steps in a plainer form,   *)
(* forwards (PauseMoves .. ListSteps) and backwards (Arrivals,             *)
(* DeleteCalls).  CommandProofs and SerialProofs are built on them.        *)
(***************************************************************************)
\* The worker goes to label l and keeps its other locals, but for the loops'.
Goes(w, l) ==
    /\ wk'[w].pc = l /\ wk'[w].req = wk[w].req
    /\ wk'[w].pod = wk[w].pod /\ wk'[w].ctr = wk[w].ctr
    /\ wk'[w].dpod = wk[w].dpod /\ wk'[w].ret = wk[w].ret

\* It goes to label l with the pod, or with the pause container, it found.
GoesWithPod(w, l, id) == wk'[w].pc = l /\ wk'[w].req = wk[w].req /\ wk'[w].pod = id

GoesWithCtr(w, l, id) ==
    /\ wk'[w].pc = l /\ wk'[w].req = wk[w].req
    /\ wk'[w].pod = wk[w].pod /\ wk'[w].ctr = id
    /\ wk'[w].dpod = wk[w].dpod /\ wk'[w].ret = wk[w].ret

\* Its handler ends with this answer, at label l.
Ends(w, l, a) == wk'[w].pc = l /\ wk'[w].req = wk[w].req /\ wk'[w].resp = a

\* It calls deletePod; RollsBack: for its own pod, on an error.
Deletes(w, id, ret) ==
    /\ wk'[w].pc = "delFind" /\ wk'[w].req = wk[w].req
    /\ wk'[w].dpod = id /\ wk'[w].ret = ret

RollsBack(w, ret) == Deletes(w, wk[w].pod, ret) /\ wk'[w].pod = wk[w].pod

\* deletePod returns to its caller.
Returns(w, ok) ==
    \/ wk[w].ret = "prev" /\ ok /\ wk'[w].pc = "checkAbbot" /\ wk'[w].req = wk[w].req
    \/ wk[w].ret = "prev" /\ ~ok /\ Ends(w, "cleanup", "err")
    \/ wk[w].ret = "unwind" /\ RollsBack(w, "fail")
    \/ wk[w].ret = "fail" /\ Ends(w, "cleanup", "err")
    \/ wk[w].ret = "delete" /\ (\E a : Ends(w, "cleanup", a))
    \/ wk[w].ret = "list" /\ wk'[w].pc = "listNext" /\ wk'[w].req = wk[w].req

\* A step to each plain record.
LEMMA PlainSteps ==
    ASSUME TypeOK, NEW w \in Worker
    PROVE  /\ \A r : Step(w, r) => wk'[w] = r
           /\ \A l : Step(w, Goto(w, l)) => Goes(w, l)
           /\ \A l, a : Step(w, Finish(w, l, a)) => Ends(w, l, a)
           /\ Step(w, Failed(w)) => Ends(w, "cleanup", "err")
           /\ \A id, ret : Step(w, CallDeletePod(w, id, ret)) => Deletes(w, id, ret)
           /\ \A ret : Step(w, Rollback(w, ret)) => RollsBack(w, ret)
           /\ wk[w].req.ctrs = {} /\ Step(w, BeginContainers(w)) => Goes(w, "check")
           /\ wk[w].req.ctrs # {} /\ Step(w, BeginContainers(w)) => Goes(w, "prepare")
           /\ \A c, a, b, rest :
                 Step(w, NextContainer(w, c, a, b, rest)) => Goes(w, a) \/ Goes(w, b)
  <1> DEFINE S == wk[w]
  <1>0. S \in WorkerState /\ Idle \in WorkerState
    BY WorkerTypes DEF TypeOK
  <1>a. \A r : Step(w, r) => wk'[w] = r
    BY DEF Step, TypeOK
  <1>1. ASSUME NEW l, Step(w, Goto(w, l)) PROVE Goes(w, l)
    <2>1. wk'[w] = [S EXCEPT !.pc = l]
      BY <1>1, <1>a, Zenon DEF Goto
    <2> QED
      BY <2>1, <1>0 DEF Goes, WorkerState
  <1>2. ASSUME NEW l, NEW a, Step(w, Finish(w, l, a)) PROVE Ends(w, l, a)
    <2>1. wk'[w] = [Idle EXCEPT !.req = S.req, !.pc = l, !.resp = a]
      BY <1>2, <1>a, Zenon DEF Finish
    <2> QED
      BY <2>1, <1>0 DEF Ends, Idle
  <1>3. Step(w, Failed(w)) => Ends(w, "cleanup", "err")
    BY <1>2, Zenon DEF Failed
  <1>4. ASSUME NEW id, NEW ret, Step(w, CallDeletePod(w, id, ret)) PROVE Deletes(w, id, ret)
    <2>1. wk'[w] = [S EXCEPT !.pc = "delFind", !.dpod = id, !.ret = ret]
      BY <1>4, <1>a, Zenon DEF CallDeletePod
    <2> QED
      BY <2>1, <1>0 DEF Deletes, WorkerState
  <1>5. ASSUME NEW ret, Step(w, Rollback(w, ret)) PROVE RollsBack(w, ret)
    <2>1. wk'[w] = Rollback(w, ret)
      BY <1>5, <1>a, Zenon
    <2> QED
      BY <2>1, <1>0 DEF Rollback, CallDeletePod, RollsBack, Deletes, WorkerState
  <1>6. ASSUME Step(w, BeginContainers(w))
        PROVE  (S.req.ctrs = {} => Goes(w, "check")) /\ (S.req.ctrs # {} => Goes(w, "prepare"))
    <2>1. wk'[w] = BeginContainers(w)
      BY <1>6, <1>a, Zenon
    <2> QED
      BY <2>1, <1>0 DEF BeginContainers, Goes, WorkerState
  <1>7. ASSUME NEW c, NEW a, NEW b, NEW rest, Step(w, NextContainer(w, c, a, b, rest))
        PROVE  Goes(w, a) \/ Goes(w, b)
    <2>1. wk'[w] = NextContainer(w, c, a, b, rest)
      BY <1>7, <1>a, Zenon
    <2> QED
      BY <2>1, <1>0 DEF NextContainer, Goes, WorkerState
  <1> QED
    BY <1>a, <1>1, <1>2, <1>3, <1>4, <1>5, <1>6, <1>7, Zenon

\* A step to each record with one more field changed.
LEMMA ExceptSteps ==
    ASSUME TypeOK, NEW w \in Worker
    PROVE  /\ \A l, id : Step(w, [Goto(w, l) EXCEPT !.pod = id]) => GoesWithPod(w, l, id)
           /\ \A l, id : Step(w, [Goto(w, l) EXCEPT !.ctr = id]) => GoesWithCtr(w, l, id)
           /\ \A id, ret : Step(w, [CallDeletePod(w, id, ret) EXCEPT !.pod = id])
                              => Deletes(w, id, ret)
           /\ \A id, ret, l : Step(w, [CallDeletePod(w, id, ret) EXCEPT !.lst = l])
                                 => Deletes(w, id, ret)
           /\ \A l, id, rest : Step(w, [Goto(w, l) EXCEPT !.dpod = id, !.lst = rest])
                 => wk'[w].pc = l /\ wk'[w].req = wk[w].req /\ wk'[w].dpod = id
           /\ \A l, id : Step(w, [Goto(w, l) EXCEPT !.dpod = id])
                 => wk'[w].pc = l /\ wk'[w].req = wk[w].req
           /\ \A l, rest : Step(w, [Goto(w, l) EXCEPT !.lst = rest]) => Goes(w, l)
           /\ \A rest : Step(w, [wk[w] EXCEPT !.lst = rest]) => Goes(w, wk[w].pc)
  <1> DEFINE S == wk[w]
  <1>0. S \in WorkerState
    BY DEF TypeOK
  <1>a. \A r : Step(w, r) => wk'[w] = r
    BY PlainSteps, Zenon
  <1>1. ASSUME NEW l, NEW id, Step(w, [Goto(w, l) EXCEPT !.pod = id]) PROVE GoesWithPod(w, l, id)
    <2>1. wk'[w] = [Goto(w, l) EXCEPT !.pod = id]
      BY <1>1, <1>a, Zenon
    <2> QED
      BY <2>1, <1>0 DEF Goto, GoesWithPod, WorkerState
  <1>2. ASSUME NEW l, NEW id, Step(w, [Goto(w, l) EXCEPT !.ctr = id]) PROVE GoesWithCtr(w, l, id)
    <2>1. wk'[w] = [Goto(w, l) EXCEPT !.ctr = id]
      BY <1>2, <1>a, Zenon
    <2> QED
      BY <2>1, <1>0 DEF Goto, GoesWithCtr, WorkerState
  <1>3. ASSUME NEW id, NEW ret, Step(w, [CallDeletePod(w, id, ret) EXCEPT !.pod = id])
        PROVE  Deletes(w, id, ret)
    <2>1. wk'[w] = [CallDeletePod(w, id, ret) EXCEPT !.pod = id]
      BY <1>3, <1>a, Zenon
    <2> QED
      BY <2>1, <1>0 DEF CallDeletePod, Deletes, WorkerState
  <1>4. ASSUME NEW id, NEW ret, NEW l, Step(w, [CallDeletePod(w, id, ret) EXCEPT !.lst = l])
        PROVE  Deletes(w, id, ret)
    <2>1. wk'[w] = [CallDeletePod(w, id, ret) EXCEPT !.lst = l]
      BY <1>4, <1>a, Zenon
    <2> QED
      BY <2>1, <1>0 DEF CallDeletePod, Deletes, WorkerState
  <1>5. ASSUME NEW l, NEW id, NEW rest, Step(w, [Goto(w, l) EXCEPT !.dpod = id, !.lst = rest])
        PROVE  wk'[w].pc = l /\ wk'[w].req = wk[w].req /\ wk'[w].dpod = id
    <2>1. wk'[w] = [Goto(w, l) EXCEPT !.dpod = id, !.lst = rest]
      BY <1>5, <1>a, Zenon
    <2> QED
      BY <2>1, <1>0 DEF Goto, WorkerState
  <1>6. ASSUME NEW l, NEW id, Step(w, [Goto(w, l) EXCEPT !.dpod = id])
        PROVE  wk'[w].pc = l /\ wk'[w].req = wk[w].req
    <2>1. wk'[w] = [Goto(w, l) EXCEPT !.dpod = id]
      BY <1>6, <1>a, Zenon
    <2> QED
      BY <2>1, <1>0 DEF Goto, WorkerState
  <1>7. ASSUME NEW l, NEW rest, Step(w, [Goto(w, l) EXCEPT !.lst = rest]) PROVE Goes(w, l)
    <2>1. wk'[w] = [Goto(w, l) EXCEPT !.lst = rest]
      BY <1>7, <1>a, Zenon
    <2> QED
      BY <2>1, <1>0 DEF Goto, Goes, WorkerState
  <1>8. ASSUME NEW rest, Step(w, [wk[w] EXCEPT !.lst = rest]) PROVE Goes(w, wk[w].pc)
    <2>1. wk'[w] = [S EXCEPT !.lst = rest]
      BY <1>8, <1>a, Zenon
    <2> QED
      BY <2>1, <1>0 DEF Goes, WorkerState
  <1> QED
    BY <1>1, <1>2, <1>3, <1>4, <1>5, <1>6, <1>7, <1>8, Zenon

\* A return from deletePod.
LEMMA ReturnSteps ==
    ASSUME TypeOK, NEW w \in Worker, NEW ok \in BOOLEAN, Step(w, Returned(w, ok))
    PROVE  Returns(w, ok)
  <1> DEFINE S == wk[w]
             back(l) == [S EXCEPT !.pc = l, !.dpod = NoPod, !.ctr = NoPod, !.ret = "fail"]
  <1>0. S \in WorkerState /\ S.ret \in {"prev", "unwind", "fail", "delete", "list"}
    BY DEF TypeOK, WorkerState
  <1>1. wk'[w] = Returned(w, ok)
    BY PlainSteps, Zenon
  <1>2. \A l : back(l).pc = l /\ back(l).req = S.req
    BY <1>0 DEF WorkerState
  <1>3. CASE S.ret = "prev" /\ ok
    <2>1. Returned(w, ok) = back("checkAbbot")
      BY <1>3, SMTT(60) DEF Returned
    <2> HIDE DEF back
    <2> QED
      BY <2>1, <1>1, <1>2, <1>3 DEF Returns
  <1>4. CASE S.ret = "prev" /\ ~ok
    <2>1. Returned(w, ok) = Failed(w)
      BY <1>4, SMTT(60) DEF Returned
    <2>2. Ends(w, "cleanup", "err")
      BY <2>1, PlainSteps, Zenon
    <2> QED
      BY <2>2, <1>4, Zenon DEF Returns
  <1>5. CASE S.ret = "unwind"
    <2>1. Returned(w, ok) = Rollback(w, "fail")
      BY <1>5, SMTT(60) DEF Returned
    <2>2. RollsBack(w, "fail")
      BY <2>1, PlainSteps, Zenon
    <2> QED
      BY <2>2, <1>5, Zenon DEF Returns
  <1>6. CASE S.ret = "fail"
    <2>1. Returned(w, ok) = Failed(w)
      BY <1>6, SMTT(60) DEF Returned
    <2>2. Ends(w, "cleanup", "err")
      BY <2>1, PlainSteps, Zenon
    <2> QED
      BY <2>2, <1>6, Zenon DEF Returns
  <1>7. CASE S.ret = "delete"
    <2>1. PICK a : Returned(w, ok) = Finish(w, "cleanup", a)
      BY <1>7, SMTT(60) DEF Returned
    <2>2. Ends(w, "cleanup", a)
      BY <2>1, PlainSteps, Zenon
    <2> QED
      BY <2>2, <1>7, Zenon DEF Returns
  <1>8. CASE S.ret = "list"
    <2>1. Returned(w, ok) = back("listNext")
      BY <1>8, SMTT(60) DEF Returned
    <2> HIDE DEF back
    <2> QED
      BY <2>1, <1>1, <1>2, <1>8 DEF Returns
  <1> QED
    BY <1>0, <1>3, <1>4, <1>5, <1>6, <1>7, <1>8

\* Where the steps of EnsurePod take their worker, up to the pause container.
LEMMA PauseMoves ==
    ASSUME TypeOK, NEW w \in Worker
    PROVE  /\ EnsureFindPod(w) =>
                \/ PodsWithUID(wk[w].req.uid) = {} /\ Goes(w, "lookupPrev")
                \/ \E id \in PodsWithUID(wk[w].req.uid) : GoesWithPod(w, "findPause", id)
                \/ /\ Fault("lookup") \/ \E a, b \in PodsWithUID(wk[w].req.uid) : a # b
                   /\ Ends(w, "cleanup", "err")
           /\ FindPause(w) =>
                \/ \E id \in ContainersOf(wk[w].req.uid, Pause) : GoesWithCtr(w, "inspect", id)
                \/ RollsBack(w, "fail")
           /\ LookupPrev(w) =>
                \/ \E id \in PodsNamed(PodName[wk[w].req.uid]) : Deletes(w, id, "prev")
                \/ Goes(w, "checkAbbot")
           /\ CheckAbbot(w) =>
                \/ /\ wk[w].req.uid \notin HostNetwork => AbbotContainers # {}
                   /\ Goes(w, "newPod")
                \/ Ends(w, "cleanup", "err")
           /\ CreatePod(w) =>
                \/ \E id \in FreshID : NewPod(id, wk[w].req.uid) /\ GoesWithPod(w, "newPause", id)
                \/ Ends(w, "cleanup", "err") /\ UNCHANGED libpodVars
           /\ CreatePause(w) =>
                \/ /\ NewContainer(wk[w].pod, Pause, wk[w].pod)
                   /\ GoesWithCtr(w, "startPause", wk[w].pod)
                \/ RollsBack(w, "fail") /\ UNCHANGED libpodVars
           /\ StartPause(w) =>
                \/ StartAll(wk[w].ctr, Pause) /\ Goes(w, "checkPause")
                \/ RollsBack(w, "unwind") /\ UNCHANGED libpodVars
           /\ CheckPause(w) =>
                \/ wk[w].req.uid \in HostNetwork /\ Goes(w, "inspect")
                \/ wk[w].req.uid \notin HostNetwork /\ Goes(w, "netDo")
                \/ RollsBack(w, "unwind")
           /\ ConfigureNetwork(w) =>
                /\ AbbotExecOK \/ AbbotExecFails
                /\ \/ net' = [net EXCEPT ![wk[w].ctr] = "up"] /\ Goes(w, "inspect")
                   \/ (MaybeConfigured(wk[w].ctr) \/ UNCHANGED net) /\ RollsBack(w, "unwind")
           /\ InspectPause(w) =>
                \/ Goes(w, "restartPause")
                \/ Goes(w, "unpausePause")
                \/ Exists(wk[w].ctr, Pause) /\ wk[w].req.ctrs = {} /\ Goes(w, "check")
                \/ Exists(wk[w].ctr, Pause) /\ wk[w].req.ctrs # {} /\ Goes(w, "prepare")
                \/ RollsBack(w, "fail")
           /\ RestartPause(w) =>
                \/ Start(wk[w].ctr, Pause) /\ wk[w].req.ctrs = {} /\ Goes(w, "check")
                \/ Start(wk[w].ctr, Pause) /\ wk[w].req.ctrs # {} /\ Goes(w, "prepare")
                \/ RollsBack(w, "fail") /\ UNCHANGED libpodVars
           /\ UnpausePause(w) =>
                \/ Unpause(wk[w].ctr, Pause) /\ wk[w].req.ctrs = {} /\ Goes(w, "check")
                \/ Unpause(wk[w].ctr, Pause) /\ wk[w].req.ctrs # {} /\ Goes(w, "prepare")
                \/ RollsBack(w, "fail") /\ UNCHANGED libpodVars
  <1>1. ASSUME EnsureFindPod(w)
        PROVE  \/ PodsWithUID(wk[w].req.uid) = {} /\ Goes(w, "lookupPrev")
               \/ \E id \in PodsWithUID(wk[w].req.uid) : GoesWithPod(w, "findPause", id)
               \/ /\ Fault("lookup") \/ \E a, b \in PodsWithUID(wk[w].req.uid) : a # b
                  /\ Ends(w, "cleanup", "err")
    BY <1>1, PlainSteps, ExceptSteps, Zenon DEF EnsureFindPod
  <1>2. ASSUME FindPause(w)
        PROVE  \/ \E id \in ContainersOf(wk[w].req.uid, Pause) : GoesWithCtr(w, "inspect", id)
               \/ RollsBack(w, "fail")
    BY <1>2, PlainSteps, ExceptSteps, Zenon DEF FindPause
  <1>3. ASSUME LookupPrev(w)
        PROVE  \/ \E id \in PodsNamed(PodName[wk[w].req.uid]) : Deletes(w, id, "prev")
               \/ Goes(w, "checkAbbot")
    BY <1>3, PlainSteps, Zenon DEF LookupPrev
  <1>4. ASSUME CheckAbbot(w)
        PROVE  \/ /\ wk[w].req.uid \notin HostNetwork => AbbotContainers # {}
                  /\ Goes(w, "newPod")
               \/ Ends(w, "cleanup", "err")
    BY <1>4, PlainSteps, Zenon DEF CheckAbbot
  <1>5. ASSUME CreatePod(w)
        PROVE  \/ \E id \in FreshID : NewPod(id, wk[w].req.uid) /\ GoesWithPod(w, "newPause", id)
               \/ Ends(w, "cleanup", "err") /\ UNCHANGED libpodVars
    BY <1>5, PlainSteps, ExceptSteps, Zenon DEF CreatePod
  <1>6. ASSUME CreatePause(w)
        PROVE  \/ /\ NewContainer(wk[w].pod, Pause, wk[w].pod)
                  /\ GoesWithCtr(w, "startPause", wk[w].pod)
               \/ RollsBack(w, "fail") /\ UNCHANGED libpodVars
    BY <1>6, PlainSteps, ExceptSteps, Zenon DEF CreatePause
  <1>7. ASSUME StartPause(w)
        PROVE  \/ StartAll(wk[w].ctr, Pause) /\ Goes(w, "checkPause")
               \/ RollsBack(w, "unwind") /\ UNCHANGED libpodVars
    BY <1>7, PlainSteps, Zenon DEF StartPause
  <1>8. ASSUME CheckPause(w)
        PROVE  \/ wk[w].req.uid \in HostNetwork /\ Goes(w, "inspect")
               \/ wk[w].req.uid \notin HostNetwork /\ Goes(w, "netDo")
               \/ RollsBack(w, "unwind")
    BY <1>8, PlainSteps, Zenon DEF CheckPause
  <1>9. ASSUME ConfigureNetwork(w)
        PROVE  /\ AbbotExecOK \/ AbbotExecFails
               /\ \/ net' = [net EXCEPT ![wk[w].ctr] = "up"] /\ Goes(w, "inspect")
                  \/ (MaybeConfigured(wk[w].ctr) \/ UNCHANGED net) /\ RollsBack(w, "unwind")
    BY <1>9, PlainSteps, Zenon DEF ConfigureNetwork
  <1>10. ASSUME InspectPause(w)
         PROVE  \/ Goes(w, "restartPause")
                \/ Goes(w, "unpausePause")
                \/ Exists(wk[w].ctr, Pause) /\ wk[w].req.ctrs = {} /\ Goes(w, "check")
                \/ Exists(wk[w].ctr, Pause) /\ wk[w].req.ctrs # {} /\ Goes(w, "prepare")
                \/ RollsBack(w, "fail")
    BY <1>10, PlainSteps, Zenon DEF InspectPause
  <1>11. ASSUME RestartPause(w)
         PROVE  \/ Start(wk[w].ctr, Pause) /\ wk[w].req.ctrs = {} /\ Goes(w, "check")
                \/ Start(wk[w].ctr, Pause) /\ wk[w].req.ctrs # {} /\ Goes(w, "prepare")
                \/ RollsBack(w, "fail") /\ UNCHANGED libpodVars
    BY <1>11, PlainSteps, Zenon DEF RestartPause
  <1>12. ASSUME UnpausePause(w)
         PROVE  \/ Unpause(wk[w].ctr, Pause) /\ wk[w].req.ctrs = {} /\ Goes(w, "check")
                \/ Unpause(wk[w].ctr, Pause) /\ wk[w].req.ctrs # {} /\ Goes(w, "prepare")
                \/ RollsBack(w, "fail") /\ UNCHANGED libpodVars
    BY <1>12, PlainSteps, Zenon DEF UnpausePause
  <1> QED
    BY <1>1, <1>2, <1>3, <1>4, <1>5, <1>6, <1>7, <1>8, <1>9, <1>10, <1>11, <1>12, Zenon

\* And from there on.
LEMMA ContainerMoves ==
    ASSUME TypeOK, NEW w \in Worker
    PROVE  /\ PrepareContainer(w) =>
                \/ data' = data \cup {wk[w].req.uid} /\ Goes(w, "newCtr")
                \/ data' \in {data, data \cup {wk[w].req.uid}} /\ RollsBack(w, "fail")
           /\ CreateContainer(w) =>
                \/ /\ \E c \in Ctr : NewContainer(wk[w].pod, c, wk[w].ctr)
                   /\ Goes(w, "prepare") \/ Goes(w, "startCtr")
                \/ RollsBack(w, "fail") /\ UNCHANGED libpodVars
           /\ StartContainer(w) =>
                /\ UNCHANGED libpodVars \/ \E c \in Ctr : Start(wk[w].pod, c)
                /\ \/ Goes(w, "waitCtr") \/ Goes(w, "startCtr") \/ Goes(w, "check")
                   \/ RollsBack(w, "fail")
           /\ WaitContainer(w) => Goes(w, "startCtr") \/ Goes(w, "check") \/ RollsBack(w, "fail")
           /\ CheckContainers(w) =>
                \/ /\ \A c \in wk[w].req.ctrs : Exists(wk[w].pod, c)
                   /\ Ends(w, "reply", "ok")
                \/ RollsBack(w, "fail")
  <1>1. ASSUME PrepareContainer(w)
        PROVE  \/ data' = data \cup {wk[w].req.uid} /\ Goes(w, "newCtr")
               \/ data' \in {data, data \cup {wk[w].req.uid}} /\ RollsBack(w, "fail")
    BY <1>1, PlainSteps, Zenon DEF PrepareContainer
  <1>2. ASSUME CreateContainer(w)
        PROVE  \/ /\ \E c \in Ctr : NewContainer(wk[w].pod, c, wk[w].ctr)
                  /\ Goes(w, "prepare") \/ Goes(w, "startCtr")
               \/ RollsBack(w, "fail") /\ UNCHANGED libpodVars
    BY <1>2, PlainSteps, Zenon DEF CreateContainer
  <1>3. ASSUME StartContainer(w)
        PROVE  /\ UNCHANGED libpodVars \/ \E c \in Ctr : Start(wk[w].pod, c)
               /\ \/ Goes(w, "waitCtr") \/ Goes(w, "startCtr") \/ Goes(w, "check")
                  \/ RollsBack(w, "fail")
    BY <1>3, PlainSteps, Zenon DEF StartContainer
  <1>4. ASSUME WaitContainer(w)
        PROVE  Goes(w, "startCtr") \/ Goes(w, "check") \/ RollsBack(w, "fail")
    BY <1>4, PlainSteps, Zenon DEF WaitContainer
  <1>5. ASSUME CheckContainers(w)
        PROVE  \/ /\ \A c \in wk[w].req.ctrs : Exists(wk[w].pod, c)
                  /\ Ends(w, "reply", "ok")
               \/ RollsBack(w, "fail")
    BY <1>5, PlainSteps, Zenon DEF CheckContainers, Exited
  <1> QED
    BY <1>1, <1>2, <1>3, <1>4, <1>5, Zenon

\* Where the steps of DeletePod and deletePod take their worker.
LEMMA DeleteSteps ==
    ASSUME TypeOK, NEW w \in Worker
    PROVE  /\ DeleteFindPod(w) =>
                \/ \E id \in PodsWithUID(wk[w].req.uid) : Deletes(w, id, "delete")
                \/ \E id \in PodsWithUID(wk[w].req.uid) : GoesWithPod(w, "deleteFindPause", id)
                \/ Ends(w, "cleanup", "err")
           /\ DeleteFindPause(w) => Goes(w, "deleteListed") \/ Ends(w, "cleanup", "err")
           /\ DeleteListed(w) => \E a : Ends(w, "cleanup", a)
           /\ DelFind(w) =>
                \/ labels[wk[w].dpod] = NoUID /\ Goes(w, "delRemove")
                \/ /\ labels[wk[w].dpod] # NoUID
                   /\ \E id \in ContainersOf(labels[wk[w].dpod], Pause) :
                         \/ labels[wk[w].dpod] \notin HostNetwork /\ GoesWithCtr(w, "delNetwork", id)
                         \/ /\ labels[wk[w].dpod] \in AbbotPod \cap HostNetwork
                            /\ GoesWithCtr(w, "delGuard", id)
                         \/ /\ labels[wk[w].dpod] \in HostNetwork \ AbbotPod
                            /\ GoesWithCtr(w, "delRemove", id)
                \/ /\ labels[wk[w].dpod] # NoUID
                   /\ ContainersOf(labels[wk[w].dpod], Pause) = {} \/ Fault("lookup")
                   /\ Returns(w, FALSE)
           /\ DelNetwork(w) =>
                \/ /\ AbbotExecOK /\ net' = [net EXCEPT ![wk[w].ctr] = "none"]
                   /\ Goes(w, "delRemove")
                \/ AbbotExecFails /\ MaybeReleased(wk[w].ctr) /\ Returns(w, FALSE)
           /\ DelGuard(w) =>
                \/ ClusterPauses = {} /\ Goes(w, "delRemove")
                \/ (ClusterPauses # {} \/ Fault("lookup")) /\ Returns(w, FALSE)
           /\ DelRemove(w) =>
                \/ RemovePod(wk[w].dpod) /\ Returns(w, TRUE)
                \/ RemoveFails(wk[w].dpod) /\ Returns(w, FALSE)
  <1>1. ASSUME DeleteFindPod(w)
        PROVE  \/ \E id \in PodsWithUID(wk[w].req.uid) : Deletes(w, id, "delete")
               \/ \E id \in PodsWithUID(wk[w].req.uid) : GoesWithPod(w, "deleteFindPause", id)
               \/ Ends(w, "cleanup", "err")
    <2>1. CASE wk[w].req.ctrs = {}
      <3>1. \/ Step(w, Failed(w))
            \/ \E id \in PodsWithUID(wk[w].req.uid) :
                  Step(w, [CallDeletePod(w, id, "delete") EXCEPT !.pod = id])
        BY <1>1, <2>1, SMTT(60) DEF DeleteFindPod
      <3> QED
        BY <3>1, PlainSteps, ExceptSteps, Zenon
    <2>2. CASE wk[w].req.ctrs # {}
      <3>1. \/ Step(w, Failed(w))
            \/ \E id \in PodsWithUID(wk[w].req.uid) :
                  Step(w, [Goto(w, "deleteFindPause") EXCEPT !.pod = id])
        BY <1>1, <2>2, Zenon DEF DeleteFindPod
      <3> QED
        BY <3>1, PlainSteps, ExceptSteps, Zenon
    <2> QED
      BY <2>1, <2>2
  <1>2. ASSUME DeleteFindPause(w) PROVE Goes(w, "deleteListed") \/ Ends(w, "cleanup", "err")
    BY <1>2, PlainSteps, Zenon DEF DeleteFindPause
  <1>3. ASSUME DeleteListed(w) PROVE \E a : Ends(w, "cleanup", a)
    BY <1>3, PlainSteps, Zenon DEF DeleteListed
  <1>4. ASSUME DelFind(w)
        PROVE  \/ labels[wk[w].dpod] = NoUID /\ Goes(w, "delRemove")
               \/ /\ labels[wk[w].dpod] # NoUID
                  /\ \E id \in ContainersOf(labels[wk[w].dpod], Pause) :
                        \/ labels[wk[w].dpod] \notin HostNetwork /\ GoesWithCtr(w, "delNetwork", id)
                        \/ /\ labels[wk[w].dpod] \in AbbotPod \cap HostNetwork
                           /\ GoesWithCtr(w, "delGuard", id)
                        \/ /\ labels[wk[w].dpod] \in HostNetwork \ AbbotPod
                           /\ GoesWithCtr(w, "delRemove", id)
               \/ /\ labels[wk[w].dpod] # NoUID
                  /\ ContainersOf(labels[wk[w].dpod], Pause) = {} \/ Fault("lookup")
                  /\ Returns(w, FALSE)
    <2> DEFINE uid == labels[wk[w].dpod]
               next == IF uid \notin HostNetwork THEN "delNetwork"
                       ELSE IF uid \in AbbotPod THEN "delGuard" ELSE "delRemove"
    <2>1. \/ uid = NoUID /\ Step(w, Goto(w, "delRemove"))
          \/ uid # NoUID /\ \E id \in ContainersOf(uid, Pause) :
                              Step(w, [Goto(w, next) EXCEPT !.ctr = id])
          \/ /\ uid # NoUID /\ (ContainersOf(uid, Pause) = {} \/ Fault("lookup"))
             /\ Step(w, Returned(w, FALSE))
      BY <1>4, Zenon DEF DelFind
    <2>2. \/ uid = NoUID /\ Goes(w, "delRemove")
          \/ uid # NoUID /\ \E id \in ContainersOf(uid, Pause) : GoesWithCtr(w, next, id)
          \/ /\ uid # NoUID /\ (ContainersOf(uid, Pause) = {} \/ Fault("lookup"))
             /\ Returns(w, FALSE)
      <3> HIDE DEF uid, next
      <3> QED
        BY <2>1, PlainSteps, ExceptSteps, ReturnSteps, Zenon
    <2>3. /\ uid \notin HostNetwork => next = "delNetwork"
          /\ uid \in AbbotPod \cap HostNetwork => next = "delGuard"
          /\ uid \in HostNetwork \ AbbotPod => next = "delRemove"
      BY SMTT(60)
    <2>4. \/ uid \notin HostNetwork \/ uid \in AbbotPod \cap HostNetwork
          \/ uid \in HostNetwork \ AbbotPod
      BY SMTT(60)
    <2> HIDE DEF next
    <2> QED
      BY <2>2, <2>3, <2>4, Zenon
  <1>5. ASSUME DelNetwork(w)
        PROVE  \/ /\ AbbotExecOK /\ net' = [net EXCEPT ![wk[w].ctr] = "none"]
                  /\ Goes(w, "delRemove")
               \/ AbbotExecFails /\ MaybeReleased(wk[w].ctr) /\ Returns(w, FALSE)
    BY <1>5, PlainSteps, ReturnSteps, Zenon DEF DelNetwork
  <1>6. ASSUME DelGuard(w)
        PROVE  \/ ClusterPauses = {} /\ Goes(w, "delRemove")
               \/ (ClusterPauses # {} \/ Fault("lookup")) /\ Returns(w, FALSE)
    BY <1>6, PlainSteps, ReturnSteps, Zenon DEF DelGuard
  <1>7. ASSUME DelRemove(w)
        PROVE  \/ RemovePod(wk[w].dpod) /\ Returns(w, TRUE)
               \/ RemoveFails(wk[w].dpod) /\ Returns(w, FALSE)
    BY <1>7, ReturnSteps, Zenon DEF DelRemove
  <1> QED
    BY <1>1, <1>2, <1>3, <1>4, <1>5, <1>6, <1>7, Zenon

\* Where the steps of ListPods and the end of a handler take their worker.
LEMMA ListSteps ==
    ASSUME TypeOK, NEW w \in Worker
    PROVE  /\ ListFind(w) => Goes(w, "listNext") \/ Ends(w, "reply", "err")
           /\ ListNext(w) =>
                \/ \E a : Ends(w, "reply", a)
                \/ \E id \in wk[w].lst : labels[id] = NoUID /\ Deletes(w, id, "list")
                \/ \E id \in wk[w].lst :
                      /\ ContainersOf(labels[id], Pause) = {} \/ Fault("lookup")
                      /\ wk'[w].pc = "listRemove" /\ wk'[w].req = wk[w].req /\ wk'[w].dpod = id
                      /\ UNCHANGED libpodVars
                \/ Goes(w, "listNext")
           /\ ListRemove(w) =>
                \/ /\ RemovePod(wk[w].dpod)
                   /\ wk'[w].pc = "listNext" /\ wk'[w].req = wk[w].req
                \/ RemoveFails(wk[w].dpod) /\ Ends(w, "reply", "err")
           /\ Cleanup(w) =>
                \/ wk' = [v \in Worker |-> Idle]
                \/ /\ wk'[w].pc = "reply" /\ wk'[w].req = wk[w].req
                   /\ wk'[w].resp = wk[w].resp
           /\ Reply(w) => wk'[w] = Idle
  <1>1. ASSUME ListFind(w) PROVE Goes(w, "listNext") \/ Ends(w, "reply", "err")
    <2>1. \/ \E l : Step(w, [Goto(w, "listNext") EXCEPT !.lst = l])
          \/ Step(w, Finish(w, "reply", "err"))
      BY <1>1, Zenon DEF ListFind
    <2> QED
      BY <2>1, PlainSteps, ExceptSteps, Zenon
  <1>2. ASSUME ListNext(w)
        PROVE  \/ \E a : Ends(w, "reply", a)
               \/ \E id \in wk[w].lst : labels[id] = NoUID /\ Deletes(w, id, "list")
               \/ \E id \in wk[w].lst :
                     /\ ContainersOf(labels[id], Pause) = {} \/ Fault("lookup")
                     /\ wk'[w].pc = "listRemove" /\ wk'[w].req = wk[w].req /\ wk'[w].dpod = id
                     /\ UNCHANGED libpodVars
               \/ Goes(w, "listNext")
    <2>0. wk[w].pc = "listNext"
      BY <1>2, Zenon DEF ListNext
    <2>1. \/ \E a : Step(w, Finish(w, "reply", a))
          \/ \E id \in wk[w].lst : \E l :
                /\ labels[id] = NoUID
                /\ Step(w, [CallDeletePod(w, id, "list") EXCEPT !.lst = l])
          \/ \E id \in wk[w].lst : \E l :
                /\ ContainersOf(labels[id], Pause) = {} \/ Fault("lookup")
                /\ Step(w, [Goto(w, "listRemove") EXCEPT !.dpod = id, !.lst = l])
                /\ UNCHANGED libpodVars
          \/ \E l : Step(w, [wk[w] EXCEPT !.lst = l])
      BY <1>2, ZenonT(60) DEF ListNext
    <2> QED
      BY <2>0, <2>1, PlainSteps, ExceptSteps, ZenonT(60)
  <1>3. ASSUME ListRemove(w)
        PROVE  \/ /\ RemovePod(wk[w].dpod)
                  /\ wk'[w].pc = "listNext" /\ wk'[w].req = wk[w].req
               \/ RemoveFails(wk[w].dpod) /\ Ends(w, "reply", "err")
    BY <1>3, PlainSteps, ExceptSteps, Zenon DEF ListRemove
  <1>4. ASSUME Cleanup(w)
        PROVE  \/ wk' = [v \in Worker |-> Idle]
               \/ /\ wk'[w].pc = "reply" /\ wk'[w].req = wk[w].req
                  /\ wk'[w].resp = wk[w].resp
    BY <1>4, SMTT(60) DEF Cleanup, Goto, TypeOK, WorkerState
  <1>5. ASSUME Reply(w) PROVE wk'[w] = Idle
    BY <1>5, PlainSteps, Zenon DEF Reply
  <1> QED
    BY <1>1, <1>2, <1>3, <1>4, <1>5, Zenon

\* What the forms say of the label a step leads to.
LEMMA FormLabels ==
    ASSUME NEW w \in Worker
    PROVE  /\ \A l : Goes(w, l) => wk'[w].pc = l
           /\ \A l, id : GoesWithPod(w, l, id) => wk'[w].pc = l
           /\ \A l, id : GoesWithCtr(w, l, id) => wk'[w].pc = l
           /\ \A l, a : Ends(w, l, a) => wk'[w].pc = l
           /\ \A id, ret : Deletes(w, id, ret) => wk'[w].pc = "delFind"
           /\ \A ret : RollsBack(w, ret) => wk'[w].pc = "delFind"
  BY Zenon DEF Goes, GoesWithPod, GoesWithCtr, Ends, Deletes, RollsBack

\* The labels each step can lead to: EnsurePod until its pause container exists.
LEMMA PodTargets ==
    ASSUME TypeOK, NEW w \in Worker
    PROVE  /\ EnsureFindPod(w) => wk'[w].pc \in {"lookupPrev", "findPause", "cleanup"}
           /\ FindPause(w) => wk'[w].pc \in {"inspect", "delFind"}
           /\ LookupPrev(w) => wk'[w].pc \in {"delFind", "checkAbbot"}
           /\ CheckAbbot(w) => wk'[w].pc \in {"newPod", "cleanup"}
           /\ CreatePod(w) => wk'[w].pc \in {"newPause", "cleanup"}
           /\ CreatePause(w) => wk'[w].pc \in {"startPause", "delFind"}
  <1>1. EnsureFindPod(w) => wk'[w].pc \in {"lookupPrev", "findPause", "cleanup"}
    BY PauseMoves, FormLabels, Zenon
  <1>2. FindPause(w) => wk'[w].pc \in {"inspect", "delFind"}
    BY PauseMoves, FormLabels, Zenon
  <1>3. LookupPrev(w) => wk'[w].pc \in {"delFind", "checkAbbot"}
    BY PauseMoves, FormLabels, Zenon
  <1>4. CheckAbbot(w) => wk'[w].pc \in {"newPod", "cleanup"}
    BY PauseMoves, FormLabels, Zenon
  <1>5. CreatePod(w) => wk'[w].pc \in {"newPause", "cleanup"}
    BY PauseMoves, FormLabels, Zenon
  <1>6. CreatePause(w) => wk'[w].pc \in {"startPause", "delFind"}
    BY PauseMoves, FormLabels, Zenon
  <1> QED
    BY <1>1, <1>2, <1>3, <1>4, <1>5, <1>6, Zenon

\* The same for EnsurePod until its pause container runs.
LEMMA PauseTargets ==
    ASSUME TypeOK, NEW w \in Worker
    PROVE  /\ StartPause(w) => wk'[w].pc \in {"checkPause", "delFind"}
           /\ CheckPause(w) => wk'[w].pc \in {"inspect", "netDo", "delFind"}
           /\ ConfigureNetwork(w) => wk'[w].pc \in {"inspect", "delFind"}
           /\ InspectPause(w) => wk'[w].pc
                 \in {"restartPause", "unpausePause", "check", "prepare", "delFind"}
           /\ RestartPause(w) => wk'[w].pc \in {"check", "prepare", "delFind"}
           /\ UnpausePause(w) => wk'[w].pc \in {"check", "prepare", "delFind"}
  <1>1. StartPause(w) => wk'[w].pc \in {"checkPause", "delFind"}
    BY PauseMoves, FormLabels, Zenon
  <1>2. CheckPause(w) => wk'[w].pc \in {"inspect", "netDo", "delFind"}
    BY PauseMoves, FormLabels, Zenon
  <1>3. ConfigureNetwork(w) => wk'[w].pc \in {"inspect", "delFind"}
    BY PauseMoves, FormLabels, Zenon
  <1>4. InspectPause(w)
           => wk'[w].pc \in {"restartPause", "unpausePause", "check", "prepare", "delFind"}
    BY PauseMoves, FormLabels, Zenon
  <1>5. RestartPause(w) => wk'[w].pc \in {"check", "prepare", "delFind"}
    BY PauseMoves, FormLabels, Zenon
  <1>6. UnpausePause(w) => wk'[w].pc \in {"check", "prepare", "delFind"}
    BY PauseMoves, FormLabels, Zenon
  <1> QED
    BY <1>1, <1>2, <1>3, <1>4, <1>5, <1>6, Zenon

\* The same for the containers of EnsurePod.
LEMMA ContainerTargets ==
    ASSUME TypeOK, NEW w \in Worker
    PROVE  /\ PrepareContainer(w) => wk'[w].pc \in {"newCtr", "delFind"}
           /\ CreateContainer(w) => wk'[w].pc \in {"prepare", "startCtr", "delFind"}
           /\ StartContainer(w) => wk'[w].pc \in {"waitCtr", "startCtr", "check", "delFind"}
           /\ WaitContainer(w) => wk'[w].pc \in {"startCtr", "check", "delFind"}
           /\ CheckContainers(w) => wk'[w].pc \in {"reply", "delFind"}
  <1>1. PrepareContainer(w) => wk'[w].pc \in {"newCtr", "delFind"}
    BY ContainerMoves, FormLabels, Zenon
  <1>2. CreateContainer(w) => wk'[w].pc \in {"prepare", "startCtr", "delFind"}
    BY ContainerMoves, FormLabels, Zenon
  <1>3. StartContainer(w) => wk'[w].pc \in {"waitCtr", "startCtr", "check", "delFind"}
    BY ContainerMoves, FormLabels, Zenon
  <1>4. WaitContainer(w) => wk'[w].pc \in {"startCtr", "check", "delFind"}
    BY ContainerMoves, FormLabels, Zenon
  <1>5. CheckContainers(w) => wk'[w].pc \in {"reply", "delFind"}
    BY ContainerMoves, FormLabels, Zenon
  <1> QED
    BY <1>1, <1>2, <1>3, <1>4, <1>5, Zenon

\* The same for DeletePod and deletePod.
LEMMA DeleteTargets ==
    ASSUME TypeOK, NEW w \in Worker
    PROVE  /\ DeleteFindPod(w) => wk'[w].pc \in {"delFind", "deleteFindPause", "cleanup"}
           /\ DeleteFindPause(w) => wk'[w].pc \in {"deleteListed", "cleanup"}
           /\ DeleteListed(w) => wk'[w].pc \in {"cleanup"}
           /\ DelFind(w) => wk'[w].pc
                 \in {"delNetwork", "delGuard", "delRemove", "cleanup", "delFind", "listNext"}
           /\ DelNetwork(w) => wk'[w].pc \in {"delRemove", "cleanup", "delFind", "listNext"}
           /\ DelGuard(w) => wk'[w].pc \in {"delRemove", "cleanup", "delFind", "listNext"}
           /\ DelRemove(w) => wk'[w].pc \in {"checkAbbot", "cleanup", "delFind", "listNext"}
  <1>a. /\ Returns(w, TRUE) => wk'[w].pc \in {"checkAbbot", "cleanup", "delFind", "listNext"}
        /\ Returns(w, FALSE) => wk'[w].pc \in {"cleanup", "delFind", "listNext"}
    BY SMTT(60) DEF Returns, Goes, Ends, RollsBack, Deletes
  <1>1. DeleteFindPod(w) => wk'[w].pc \in {"delFind", "deleteFindPause", "cleanup"}
    BY DeleteSteps, FormLabels, <1>a, Zenon
  <1>2. DeleteFindPause(w) => wk'[w].pc \in {"deleteListed", "cleanup"}
    BY DeleteSteps, FormLabels, <1>a, Zenon
  <1>3. DeleteListed(w) => wk'[w].pc \in {"cleanup"}
    BY DeleteSteps, FormLabels, <1>a, Zenon
  <1>4. DelFind(w)
           => wk'[w].pc \in {"delNetwork", "delGuard", "delRemove", "cleanup", "delFind", "listNext"}
    BY DeleteSteps, FormLabels, <1>a, Zenon
  <1>5. DelNetwork(w) => wk'[w].pc \in {"delRemove", "cleanup", "delFind", "listNext"}
    BY DeleteSteps, FormLabels, <1>a, Zenon
  <1>6. DelGuard(w) => wk'[w].pc \in {"delRemove", "cleanup", "delFind", "listNext"}
    BY DeleteSteps, FormLabels, <1>a, Zenon
  <1>7. DelRemove(w) => wk'[w].pc \in {"checkAbbot", "cleanup", "delFind", "listNext"}
    BY DeleteSteps, FormLabels, <1>a, Zenon
  <1> QED
    BY <1>1, <1>2, <1>3, <1>4, <1>5, <1>6, <1>7, Zenon

\* The same for ListPods, and the end of a command.
LEMMA ListTargets ==
    ASSUME TypeOK, NEW w \in Worker
    PROVE  /\ ListFind(w) => wk'[w].pc \in {"listNext", "reply"}
           /\ ListNext(w) => wk'[w].pc \in {"reply", "delFind", "listRemove", "listNext"}
           /\ ListRemove(w) => wk'[w].pc \in {"listNext", "reply"}
           /\ Cleanup(w) => wk'[w].pc \in {"reply", "idle"}
           /\ Reply(w) => wk'[w].pc \in {"idle"}
  <1>a. wk' = [v \in Worker |-> Idle] \/ wk'[w] = Idle => wk'[w].pc = "idle"
    BY DEF Idle
  <1>1. ListFind(w) => wk'[w].pc \in {"listNext", "reply"}
    BY ListSteps, FormLabels, <1>a, Zenon
  <1>2. ListNext(w) => wk'[w].pc \in {"reply", "delFind", "listRemove", "listNext"}
    BY ListSteps, FormLabels, <1>a, Zenon
  <1>3. ListRemove(w) => wk'[w].pc \in {"listNext", "reply"}
    BY ListSteps, FormLabels, <1>a, Zenon
  <1>4. Cleanup(w) => wk'[w].pc \in {"reply", "idle"}
    BY ListSteps, FormLabels, <1>a, Zenon
  <1>5. Reply(w) => wk'[w].pc \in {"idle"}
    BY ListSteps, FormLabels, <1>a, Zenon
  <1> QED
    BY <1>1, <1>2, <1>3, <1>4, <1>5, Zenon

\* Read backwards: the steps that lead to a label.
LEMMA Arrivals ==
    ASSUME TypeOK, NEW w \in Worker, Handle(w)
    PROVE  /\ wk'[w].pc \notin {"findPod", "deleteFindPod", "listFind"}
           /\ wk'[w].pc \in {"lookupPrev", "findPause"} => EnsureFindPod(w)
           /\ wk'[w].pc = "checkAbbot" => LookupPrev(w) \/ DelRemove(w)
           /\ wk'[w].pc = "newPod" => CheckAbbot(w)
           /\ wk'[w].pc = "newPause" => CreatePod(w)
           /\ wk'[w].pc = "startPause" => CreatePause(w)
           /\ wk'[w].pc = "checkPause" => StartPause(w)
           /\ wk'[w].pc = "netDo" => CheckPause(w)
           /\ wk'[w].pc = "inspect" => FindPause(w) \/ CheckPause(w) \/ ConfigureNetwork(w)
           /\ wk'[w].pc \in {"restartPause", "unpausePause"} => InspectPause(w)
           /\ wk'[w].pc = "prepare" => \/ InspectPause(w) \/ RestartPause(w) \/ UnpausePause(w)
                                       \/ CreateContainer(w)
           /\ wk'[w].pc = "newCtr" => PrepareContainer(w)
           /\ wk'[w].pc = "startCtr" => CreateContainer(w) \/ StartContainer(w) \/ WaitContainer(w)
           /\ wk'[w].pc = "waitCtr" => StartContainer(w)
           /\ wk'[w].pc = "check" => \/ InspectPause(w) \/ RestartPause(w) \/ UnpausePause(w)
                                     \/ StartContainer(w) \/ WaitContainer(w)
           /\ wk'[w].pc \in {"delNetwork", "delGuard"} => DelFind(w)
           /\ wk'[w].pc = "delRemove" => DelFind(w) \/ DelNetwork(w) \/ DelGuard(w)
           /\ wk'[w].pc = "listRemove" => ListNext(w)
           /\ wk'[w].pc = "reply" => CheckContainers(w) \/ Cleanup(w) \/ ListPods(w)
           /\ wk'[w].pc = "cleanup" => \/ EnsureFindPod(w) \/ CheckAbbot(w) \/ CreatePod(w)
                                       \/ DeletePod(w) \/ deletePod(w)
           /\ wk'[w].pc = "idle" => Cleanup(w) \/ Reply(w)
  <1>1. CASE EnsurePod(w)
    <2>1. CASE EnsureFindPod(w) \/ FindPause(w) \/ LookupPrev(w) \/ CheckAbbot(w) \/ CreatePod(w)
               \/ CreatePause(w)
      BY <2>1, PodTargets, ZenonT(60)
    <2>2. CASE StartPause(w) \/ CheckPause(w) \/ ConfigureNetwork(w) \/ InspectPause(w)
               \/ RestartPause(w) \/ UnpausePause(w)
      BY <2>2, PauseTargets, ZenonT(60)
    <2>3. CASE PrepareContainer(w) \/ CreateContainer(w) \/ StartContainer(w)
               \/ WaitContainer(w) \/ CheckContainers(w)
      BY <2>3, ContainerTargets, ZenonT(60)
    <2> QED
      BY <1>1, <2>1, <2>2, <2>3, Zenon DEF EnsurePod
  <1>2. CASE DeletePod(w) \/ deletePod(w)
    BY <1>2, DeleteTargets, ZenonT(60) DEF DeletePod, deletePod
  <1>3. CASE ListPods(w) \/ Cleanup(w) \/ Reply(w)
    BY <1>3, ListTargets, ZenonT(60) DEF ListPods
  <1> QED
    BY <1>1, <1>2, <1>3, Zenon DEF Handle

\* The labels of EnsurePod at which it has a pod, and may roll back.
RollbackLabel == EnsureLabel \ {"findPod", "lookupPrev", "checkAbbot", "newPod"}

\* The calls of deletePod: a rollback, the second one of two, the pod of the
\* same name, DeletePod and ListPods.
LEMMA DeleteCalls ==
    ASSUME TypeOK, NEW w \in Worker, Handle(w), wk'[w].pc = "delFind"
    PROVE  \/ /\ wk[w].pc \in RollbackLabel
              /\ EnsurePod(w)
              /\ RollsBack(w, "fail") \/ RollsBack(w, "unwind")
           \/ deletePod(w) /\ wk[w].ret = "unwind" /\ RollsBack(w, "fail")
           \/ LookupPrev(w) /\ \E id \in PodsNamed(PodName[wk[w].req.uid]) : Deletes(w, id, "prev")
           \/ DeleteFindPod(w) /\ \E id \in PodsWithUID(wk[w].req.uid) : Deletes(w, id, "delete")
           \/ ListNext(w) /\ \E id \in wk[w].lst : labels[id] = NoUID /\ Deletes(w, id, "list")
  <1>a. /\ \A l : Goes(w, l) => wk'[w].pc = l
        /\ \A l, id : GoesWithPod(w, l, id) => wk'[w].pc = l
        /\ \A l, id : GoesWithCtr(w, l, id) => wk'[w].pc = l
        /\ \A l, a : Ends(w, l, a) => wk'[w].pc = l
    BY FormLabels, Zenon
  <1>b. Returns(w, TRUE) \/ Returns(w, FALSE) => wk[w].ret = "unwind" /\ RollsBack(w, "fail")
    BY DEF Returns, Ends
  <1>1. CASE FindPause(w) \/ CreatePause(w) \/ StartPause(w) \/ CheckPause(w)
             \/ ConfigureNetwork(w) \/ InspectPause(w) \/ RestartPause(w) \/ UnpausePause(w)
    <2>1. RollsBack(w, "fail") \/ RollsBack(w, "unwind")
      BY <1>1, <1>a, PauseMoves, ZenonT(60)
    <2>2. wk[w].pc \in RollbackLabel
      BY <1>1 DEF FindPause, CreatePause, StartPause, CheckPause, ConfigureNetwork, InspectPause,
             RestartPause, UnpausePause, RollbackLabel, EnsureLabel
    <2> QED
      BY <1>1, <2>1, <2>2, Zenon DEF EnsurePod
  <1>2. CASE PrepareContainer(w) \/ CreateContainer(w) \/ StartContainer(w) \/ WaitContainer(w)
             \/ CheckContainers(w)
    <2>1. RollsBack(w, "fail")
      BY <1>2, <1>a, ContainerMoves, ZenonT(60)
    <2>2. wk[w].pc \in RollbackLabel
      BY <1>2 DEF PrepareContainer, CreateContainer, StartContainer, WaitContainer,
             CheckContainers, RollbackLabel, EnsureLabel
    <2> QED
      BY <1>2, <2>1, <2>2, Zenon DEF EnsurePod
  <1>3. CASE LookupPrev(w)
    BY <1>3, <1>a, PauseMoves, Zenon
  <1>4. CASE DeleteFindPod(w)
    BY <1>4, <1>a, DeleteSteps, Zenon
  <1>5. CASE DelFind(w) \/ DelNetwork(w) \/ DelGuard(w) \/ DelRemove(w)
    <2>1. Returns(w, TRUE) \/ Returns(w, FALSE)
      BY <1>5, <1>a, DeleteSteps, ZenonT(60)
    <2> QED
      BY <1>5, <2>1, <1>b, Zenon DEF deletePod
  <1>6. CASE ListNext(w)
    BY <1>6, <1>a, ListSteps, Zenon
  <1>7. ~EnsureFindPod(w) /\ ~CheckAbbot(w) /\ ~CreatePod(w)
    BY PodTargets, Zenon
  <1>8. ~DeleteFindPause(w) /\ ~DeleteListed(w)
    BY DeleteTargets, Zenon
  <1>9. ~ListFind(w) /\ ~ListRemove(w) /\ ~Cleanup(w) /\ ~Reply(w)
    BY ListTargets, Zenon
  <1> QED
    BY <1>1, <1>2, <1>3, <1>4, <1>5, <1>6, <1>7, <1>8, <1>9, Zenon
       DEF Handle, EnsurePod, DeletePod, deletePod, ListPods

\* A step keeps the worker's request, but for the end of the command.
LEMMA RequestKept ==
    ASSUME TypeOK, NEW w \in Worker, Handle(w)
    PROVE  wk'[w] = Idle \/ wk'[w].req = wk[w].req
  <1>a. /\ \A l : Goes(w, l) => wk'[w].req = wk[w].req
        /\ \A l, id : GoesWithPod(w, l, id) => wk'[w].req = wk[w].req
        /\ \A l, id : GoesWithCtr(w, l, id) => wk'[w].req = wk[w].req
        /\ \A l, a : Ends(w, l, a) => wk'[w].req = wk[w].req
        /\ \A id, ret : Deletes(w, id, ret) => wk'[w].req = wk[w].req
        /\ \A ret : RollsBack(w, ret) => wk'[w].req = wk[w].req
        /\ Returns(w, TRUE) \/ Returns(w, FALSE) => wk'[w].req = wk[w].req
        /\ wk' = [v \in Worker |-> Idle] => wk'[w] = Idle
    <2>1. /\ \A l : Goes(w, l) => wk'[w].req = wk[w].req
          /\ \A l, id : GoesWithPod(w, l, id) => wk'[w].req = wk[w].req
          /\ \A l, id : GoesWithCtr(w, l, id) => wk'[w].req = wk[w].req
          /\ \A l, a : Ends(w, l, a) => wk'[w].req = wk[w].req
          /\ \A id, ret : Deletes(w, id, ret) => wk'[w].req = wk[w].req
          /\ \A ret : RollsBack(w, ret) => wk'[w].req = wk[w].req
      BY Zenon DEF Goes, GoesWithPod, GoesWithCtr, Ends, Deletes, RollsBack
    <2>2. Returns(w, TRUE) \/ Returns(w, FALSE) => wk'[w].req = wk[w].req
      BY SMTT(60) DEF Returns, Goes, Ends, RollsBack, Deletes
    <2> QED
      BY <2>1, <2>2, Zenon
  <1>1. CASE EnsurePod(w)
    <2>1. CASE EnsureFindPod(w) \/ FindPause(w) \/ LookupPrev(w) \/ CheckAbbot(w)
      BY <2>1, <1>a, PauseMoves, ZenonT(60)
    <2>2. CASE CreatePod(w) \/ CreatePause(w) \/ StartPause(w) \/ CheckPause(w)
      BY <2>2, <1>a, PauseMoves, ZenonT(60)
    <2>3. CASE ConfigureNetwork(w) \/ InspectPause(w) \/ RestartPause(w) \/ UnpausePause(w)
      BY <2>3, <1>a, PauseMoves, ZenonT(60)
    <2>4. CASE PrepareContainer(w) \/ CreateContainer(w) \/ StartContainer(w)
               \/ WaitContainer(w) \/ CheckContainers(w)
      BY <2>4, <1>a, ContainerMoves, ZenonT(60)
    <2> QED
      BY <1>1, <2>1, <2>2, <2>3, <2>4, Zenon DEF EnsurePod
  <1>2. CASE DeletePod(w) \/ deletePod(w)
    BY <1>2, <1>a, DeleteSteps, ZenonT(60) DEF DeletePod, deletePod
  <1>3. CASE ListPods(w) \/ Cleanup(w) \/ Reply(w)
    BY <1>3, <1>a, ListSteps, ZenonT(60) DEF ListPods
  <1> QED
    BY <1>1, <1>2, <1>3, Zenon DEF Handle
=============================================================================
