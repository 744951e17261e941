SPECIFICATION Spec
CONSTANTS
    PodUID = {"ab", "p1"}
    NoUID = NoUID
    NoPod = NoPod
    PodName <- MCPodName
    HostNetwork <- MCHostNetwork
    AbbotPod <- MCAbbotPod
    PodID = {i1, i2, i3, i4}
    NCtr = 1
    Worker = {w1, w2}
    Exclusive = FALSE
    Requests <- PlainRequests
    Faults = {}

INVARIANT NetworkReleased
