SPECIFICATION Spec
CONSTANTS
    p1 = p1
    p2 = p2
    t1 = t1
    Process = {p1, p2}
    EventType <- OneType
    MaxEvents = 3
    MaxLen = 2
    ReadCount = 2
    MaxHandlers = 2
    Handlers <- TwoHandlers
    Undecodable <- ThirdUndecodable
    MaxRestarts = 1
    GroupMayFail = TRUE
SYMMETRY ProcessSymmetry
INVARIANTS
    HandlerAtMostOnce
    ExclusiveDelivery
    Custody
CHECK_DEADLOCK FALSE
