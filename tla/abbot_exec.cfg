SPECIFICATION FairSpec
CONSTANTS
    Call = {c1, c2}
    Kinds = {"replace", "delete", "do", "hook"}

    
PROPERTIES
    
    ReturnsByDeadline
CHECK_DEADLOCK FALSE
