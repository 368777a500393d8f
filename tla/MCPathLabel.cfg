SPECIFICATION Spec
CONSTANTS
    Paths <- RoutesOf
    MaxRequests = 2
INVARIANT
    GaugeExact
CHECK_DEADLOCK FALSE
