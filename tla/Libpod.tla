------------------------------- MODULE Libpod -------------------------------
(***************************************************************************)
(* The container engine as pkg/runtime uses it: the pods and containers in *)
(* the state database, and one action per libpod call.  A libpod call runs *)
(* under libpod's own locks and is one atomic step here; the interleaving  *)
(* that matters to the runtime is the one between calls.                   *)
(*                                                                         *)
(* A pod object the runtime holds keeps its ID and its labels after the    *)
(* pod is gone, so `labels` is not cleared by RemovePod.  What the labels  *)
(* say of a pod (its name, whether it uses the host network, whether it is *)
(* the pod of the network provider abbot) depends only on its UID: a pod   *)
(* specification never changes under one UID.                              *)
(***************************************************************************)
EXTENDS Naturals

CONSTANTS
    PodUID,       \* the UIDs of the pods this node is asked to run
    NoUID,        \* the label value of a pod nobody gave a UID (made by hand)
    PodName,      \* UID -> "<namespace>.<name>"; a recreated pod has a new
                  \*   UID and the old name
    HostNetwork,  \* the UIDs whose pods carry the host-network label
    AbbotPod,     \* the UIDs whose pods carry the abbot role label
    PodID,        \* IDs libpod may give to a pod object
    NCtr          \* a pod's work containers are 1..NCtr

ASSUME LibpodAssumption ==
    /\ NoUID \notin PodUID
    /\ HostNetwork \subseteq PodUID
    /\ AbbotPod \subseteq PodUID
    /\ NCtr \in Nat \ {0}

\* Container 0 of a pod is its pause (infra) container.  Container 1 of the
\* abbot pod is the container named abbot.
Pause == 0
Abbot == 1
Ctr == 0..NCtr
WorkCtr == 1..NCtr

CtrState == {"none", "created", "running", "paused", "exited"}

VARIABLES
    pods,    \* the IDs of the pods in libpod's database
    labels,  \* ID -> the pod-uid label (NoUID when there is none)
    ctrs     \* ID -> container -> its state ("none": no such container)

libpodVars == <<pods, labels, ctrs>>

LibpodTypeOK ==
    /\ pods \in SUBSET PodID
    /\ labels \in [PodID -> PodUID \cup {NoUID}]
    /\ ctrs \in [PodID -> [Ctr -> CtrState]]

NoContainers == [c \in Ctr |-> "none"]

LibpodInit ==
    /\ pods = {}
    /\ labels = [id \in PodID |-> NoUID]
    /\ ctrs = [id \in PodID |-> NoContainers]
-----------------------------------------------------------------------------
(***************************************************************************)
(* What a lookup finds.                                                    *)
(***************************************************************************)
PodsWithUID(uid) == {id \in pods : labels[id] = uid}

PodsNamed(name) ==
    {id \in pods : labels[id] # NoUID /\ PodName[labels[id]] = name}

Exists(id, c) == id \in pods /\ ctrs[id][c] # "none"

\* The pods holding container c of the pod with this UID.
ContainersOf(uid, c) == {id \in PodsWithUID(uid) : Exists(id, c)}

\* The pods of which an infra container exists that is not on the host network.
ClusterPauses ==
    {id \in pods : /\ Exists(id, Pause)
                   /\ labels[id] # NoUID
                   /\ labels[id] \notin HostNetwork}

\* The pods holding a container that AbbotMatchLabels selects.
AbbotContainers ==
    {id \in pods : /\ labels[id] \in AbbotPod \cap HostNetwork
                   /\ Exists(id, Abbot)}
-----------------------------------------------------------------------------
(***************************************************************************)
(* Calls that change the database.                                         *)
(***************************************************************************)
\* The name is not reserved.
NewPodAnyName(id, uid) ==
    /\ id \notin pods
    /\ pods' = pods \cup {id}
    /\ labels' = [labels EXCEPT ![id] = uid]
    /\ ctrs' = [ctrs EXCEPT ![id] = NoContainers]

NewPod(id, uid) ==
    /\ id \notin pods
    /\ PodsNamed(PodName[uid]) = {}
    /\ pods' = pods \cup {id}
    /\ labels' = [labels EXCEPT ![id] = uid]
    /\ ctrs' = [ctrs EXCEPT ![id] = NoContainers]

\* Work containers join namespaces of the pause container dep of their pod.
CanCreate(id, c, dep) ==
    /\ id \in pods
    /\ ctrs[id][c] = "none"
    /\ c # Pause => dep = id /\ Exists(id, Pause)

NewContainer(id, c, dep) ==
    /\ CanCreate(id, c, dep)
    /\ ctrs' = [ctrs EXCEPT ![id][c] = "created"]
    /\ UNCHANGED <<pods, labels>>

Startable(id, c) == id \in pods /\ ctrs[id][c] \in {"created", "exited"}

CanStart(id, c) ==
    /\ Startable(id, c)
    /\ c # Pause => ctrs[id][Pause] = "running"

Start(id, c) ==
    /\ CanStart(id, c)
    /\ ctrs' = [ctrs EXCEPT ![id][c] = "running"]
    /\ UNCHANGED <<pods, labels>>

\* Start with recursive = TRUE starts the pause container first; one that is
\* running is left alone, a paused one makes the start fail.
CanStartAll(id, c) ==
    /\ Startable(id, c)
    /\ c # Pause => ctrs[id][Pause] # "paused"

StartAll(id, c) ==
    /\ CanStartAll(id, c)
    /\ ctrs' = [ctrs EXCEPT ![id][Pause] = "running", ![id][c] = "running"]
    /\ UNCHANGED <<pods, labels>>

Unpause(id, c) ==
    /\ id \in pods
    /\ ctrs[id][c] = "paused"
    /\ ctrs' = [ctrs EXCEPT ![id][c] = "running"]
    /\ UNCHANGED <<pods, labels>>

\* RemovePod(pod, removeCtrs = TRUE, force = TRUE) on a pod of the database.
RemovePod(id) ==
    /\ id \in pods
    /\ pods' = pods \ {id}
    /\ ctrs' = [ctrs EXCEPT ![id] = NoContainers]
    /\ UNCHANGED labels

\* RemovePod stopped by an error after RemovePodContainers and before the pod
\* itself was taken out of the database.
RemovePodContainers(id) ==
    /\ id \in pods
    /\ ctrs' = [ctrs EXCEPT ![id] = NoContainers]
    /\ UNCHANGED <<pods, labels>>
-----------------------------------------------------------------------------
(***************************************************************************)
(* What happens in the engine without a call of the runtime.               *)
(***************************************************************************)
\* A state that no case of the runtime's switch is for.
ContainerExitsUnknown(id, c) ==
    /\ id \in pods
    /\ ctrs[id][c] = "running"
    /\ ctrs' = [ctrs EXCEPT ![id][c] = "unknown"]
    /\ UNCHANGED <<pods, labels>>

ContainerExits(id, c) ==
    /\ id \in pods
    /\ ctrs[id][c] = "running"
    /\ ctrs' = [ctrs EXCEPT ![id][c] = "exited"]
    /\ UNCHANGED <<pods, labels>>

\* The restart policy: "always" for the pause container, any for the others.
ContainerRestarts(id, c) ==
    /\ id \in pods
    /\ ctrs[id][c] = "exited"
    /\ Start(id, c)

\* An operator's `podman pause`; `podman unpause` is Unpause.
ContainerPaused(id, c) ==
    /\ id \in pods
    /\ ctrs[id][c] = "running"
    /\ ctrs' = [ctrs EXCEPT ![id][c] = "paused"]
    /\ UNCHANGED <<pods, labels>>

\* An operator's `podman pod create`: a pod without the pod-uid label.
ForeignPodCreated(id) ==
    /\ id \notin pods
    /\ pods' = pods \cup {id}
    /\ labels' = [labels EXCEPT ![id] = NoUID]
    /\ ctrs' = [ctrs EXCEPT ![id] = NoContainers]
=============================================================================
