SPECIFICATION SpecInTime
CONSTANTS
    MaxUint64 = 9
    SeqNo = {0, 1, 2, 3, 4, 5, 6}
INVARIANT InOrder
PROPERTIES  ImplementsOrderedStream
