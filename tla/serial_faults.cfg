SPECIFICATION Spec
CONSTANTS
    PodUID = {"ab", "p1", "p2"}
    NoUID = NoUID
    NoPod = NoPod
    PodName <- MCPodName
    HostNetwork <- MCHostNetwork
    AbbotPod <- MCAbbotPod
    PodID = {i1, i2, i3}
    NCtr = 1
    Worker = {w1}
    Exclusive = FALSE
    Requests <- PlainRequests
    Faults = {"create", "start", "remove", "abbot", "data", "exit", "crash", "pause"}
SYMMETRY Symmetry
INVARIANTS TypeOK  AbbotKept EnsuredPodIsWhole
