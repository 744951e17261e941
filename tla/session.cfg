SPECIFICATION FairSpec
CONSTANTS
    Cmd = {a1, u1, i1}
    Async = {a1}
    Unknown = {u1}
    MaxSession = 3
    Faults = {"dial", "lost", "shutdown"}
PROPERTIES   AnsweredUnlessLost SendersReturn ShutdownEnds
CHECK_DEADLOCK FALSE
