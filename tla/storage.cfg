SPECIFICATION FairSpec
CONSTANTS
    Vol = {v1, v2}
    MaxCmd = 2
    MaxRound = 2
    Drivers = {"exec", "nop"}
    Faults = {"exit", "unmount", "lookup"}
INVARIANT NoStaleMark
PROPERTIES MountReturns  RemountTried
CHECK_DEADLOCK FALSE
