SPECIFICATION FairSpec
CONSTANTS
    Uploader = {stdout, stderr}
    Main = Main
    MaxData = 2
    MaxPayload = 2
INVARIANTS AcksDistinct AcksGapFree EndComesLast  OutputDrained
PROPERTY OperationEnds
CHECK_DEADLOCK FALSE
