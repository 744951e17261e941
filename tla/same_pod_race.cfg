SPECIFICATION FairSpec
CONSTANTS
    PodUID = {"h1"}
    NoUID = NoUID
    NoPod = NoPod
    PodName <- MCPodName
    HostNetwork <- MCHostNetwork
    AbbotPod <- MCAbbotPod
    PodID = {i1, i2, i3}
    NCtr = 1
    Worker = {w1, w2}
    Exclusive = FALSE
    Requests <- WaitRequests
    Faults = {"lookup"}

INVARIANT OnePodPerUID
PROPERTIES EveryCommandAnswered WaitEndsWithPod
