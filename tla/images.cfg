SPECIFICATION ImagesSpec
CONSTANTS
    ImageCmd = {c1, c2}
    Image = {pause, i1}
    PauseImage = pause
INVARIANTS
    EnsuredPresent
    
CHECK_DEADLOCK FALSE
