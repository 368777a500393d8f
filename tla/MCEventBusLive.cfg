SPECIFICATION FairSpec
CONSTANTS
    p1 = p1
    p2 = p2
    t1 = t1
    Process = {p1, p2}
    EventType <- OneType
    MaxEvents = 2
    MaxLen = 1
    ReadCount = 2
    MaxHandlers = 2
    Handlers <- TwoHandlers
    Undecodable <- SecondUndecodable
    MaxRestarts = 0
    GroupMayFail = TRUE
PROPERTIES
    DeliveryContract
    EventuallyHandled
CHECK_DEADLOCK FALSE
