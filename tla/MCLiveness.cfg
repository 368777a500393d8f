SPECIFICATION LiveSpec
CONSTANTS
    Caller = {c1, c2, c3}
    Threshold = 2
    ResetTimeout = 2
    MaxFlips = 3
INVARIANTS
    CountsConsecutiveFailures
PROPERTIES
    OpensOnFailuresOnly
    
    
    CatchesUp
