SPECIFICATION Spec
CONSTANTS
    PodUID = {"ab", "p1"}
    NoUID = NoUID
    NoPod = NoPod
    PodName <- MCPodName
    HostNetwork <- MCHostNetwork
    AbbotPod <- MCAbbotPod
    PodID = {i1, i2, i3}
    NCtr = 1
    Worker = {w1, w2}
    Exclusive = TRUE
    Requests <- AllRequests
    Faults = {"create", "start", "abbot", "remove", "data", "crash"}
SYMMETRY Symmetry
INVARIANT NetworkReleased
