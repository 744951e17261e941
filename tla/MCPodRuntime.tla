---------------------------- MODULE MCPodRuntime ----------------------------
(***************************************************************************)
(* Instances of PodRuntime for TLC.  The abbot pod "ab" is on the host     *)
(* network; "p1" and "p2" are two UIDs of one pod name (the pod was        *)
(* recreated) on the cluster network; "h1" and "h2" are two UIDs of one    *)
(* pod name on the host network.                                           *)
(***************************************************************************)
EXTENDS PodRuntime, FiniteSets, TLC

MCPodName ==
    [u \in PodUID |-> CASE u = "ab" -> "kube.abbot"
                        [] u \in {"h1", "h2"} -> "default.host"
                        [] OTHER -> "default.web"]

MCHostNetwork == PodUID \cap {"ab", "h1", "h2"}
MCAbbotPod == PodUID \cap {"ab"}

Ensure(u, cs, wait) == [op |-> "ensure", uid |-> u, ctrs |-> cs, wait |-> wait]
Delete(u, cs) == [op |-> "delete", uid |-> u, ctrs |-> cs, wait |-> FALSE]
List(u) == [op |-> "list", uid |-> u, ctrs |-> {}, wait |-> FALSE]

EnsureAll == {Ensure(u, WorkCtr, FALSE) : u \in PodUID}
WaitAll == {Ensure(u, WorkCtr, TRUE) : u \in PodUID}
DeleteAll == {Delete(u, {}) : u \in PodUID}
DeleteListedAll == {Delete(u, {1}) : u \in PodUID}
ListAll == {List(NoUID)}
ListNamed == {List(u) : u \in PodUID}

AllRequests ==
    EnsureAll \cup WaitAll \cup DeleteAll \cup DeleteListedAll \cup ListAll \cup ListNamed

PlainRequests == EnsureAll \cup DeleteAll \cup ListAll

WaitRequests == PlainRequests \cup WaitAll

EnsureDelete == EnsureAll \cup DeleteAll

ListedRequests == EnsureAll \cup DeleteListedAll

\* IDs are random and goroutines anonymous.
Symmetry == Permutations(PodID) \cup Permutations(Worker)
=============================================================================
