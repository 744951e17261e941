SPECIFICATION Spec
CONSTANTS
    s1 = s1
    s2 = s2
    Op <- MCOp
    Forward <- MCForward
    Input <- MCInput
    NoOp = NoOp
    PipeCap = 1
    MaxUint64 = 5
    SeqNo = {0, 1, 2}
INVARIANTS StdinInOrder StdinComplete
PROPERTIES NoCloseDuringWrite  
CHECK_DEADLOCK FALSE
